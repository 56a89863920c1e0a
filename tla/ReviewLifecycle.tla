--------------------------- MODULE ReviewLifecycle ---------------------------
(***************************************************************************)
(* What the ledger promises about each review, with nothing of how: a      *)
(* review is published from the first time it is seen until it has been    *)
(* missed RemovalConfirmations times in a row or is erased on request.     *)
(* Removal is for good, erasure is for good and outranks removal.          *)
(***************************************************************************)
EXTENDS Naturals

CONSTANTS Ids, RemovalConfirmations

VARIABLES
  status,               \* what the world may see of each review
  misses                \* consecutive harvests that looked for it in vain

lifecycleVars == <<status, misses>>

Statuses == {"unknown", "published", "removed", "erased"}

LifecycleInit ==
  /\ status = [i \in Ids |-> "unknown"]
  /\ misses = [i \in Ids |-> 0]

Stay(i) == status'[i] = status[i] /\ misses'[i] = misses[i]

See(i) ==
  /\ status[i] \in {"unknown", "published"}
  /\ status'[i] = "published"
  /\ misses'[i] = 0

Miss(i) ==
  /\ status[i] = "published"
  /\ misses[i] + 1 < RemovalConfirmations
  /\ status'[i] = "published"
  /\ misses'[i] = misses[i] + 1

Remove(i) ==
  /\ status[i] = "published"
  /\ misses[i] + 1 = RemovalConfirmations
  /\ status'[i] = "removed"
  /\ misses'[i] = 0

Erase(i) ==
  /\ status[i] \in {"published", "removed"}
  /\ status'[i] = "erased"
  /\ misses'[i] = 0

\* One harvest moves every review at once, each along its own arrow.
LifecycleNext ==
  \A i \in Ids : Stay(i) \/ See(i) \/ Miss(i) \/ Remove(i) \/ Erase(i)

LifecycleSpec == LifecycleInit /\ [][LifecycleNext]_lifecycleVars
=============================================================================
