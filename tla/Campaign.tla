------------------------------ MODULE Campaign ------------------------------
(***************************************************************************)
(* What resuming promises, without runs, pools or files: a rank is worked  *)
(* on by one worker at a time and never again once it is stored as         *)
(* completed; a stored completion is only ever lost to a loss of power,    *)
(* and not even then when it has been made safe.                           *)
(***************************************************************************)
CONSTANT Ranks

VARIABLES
  status,   \* what is stored of each rank
  claimed,  \* the ranks being worked on
  safe      \* the completed ranks that no power loss takes back

vars == <<status, claimed, safe>>

CompletedIn(st) == {r \in Ranks : st[r] = "completed"}

Init ==
  /\ status = [r \in Ranks |-> "none"]
  /\ claimed = {}
  /\ safe = {}

MaybeSave == safe' \in {safe, CompletedIn(status')}

Claim(r) ==
  /\ r \notin claimed /\ status[r] # "completed"
  /\ claimed' = claimed \cup {r}
  /\ UNCHANGED <<status, safe>>

Store(r, s) ==
  /\ r \in claimed
  /\ status' = [status EXCEPT ![r] = s]
  /\ claimed' \in {claimed \ {r}, {}}
  /\ MaybeSave

\* Work is given up, by an exception or a crash.
Abandon ==
  /\ claimed' \in SUBSET claimed
  /\ UNCHANGED status
  /\ MaybeSave

\* A loss of power brings back an older state of some rows.
Forget ==
  /\ claimed' = {}
  /\ status' \in [Ranks -> {"none", "failed", "completed"}]
  /\ CompletedIn(status') \subseteq CompletedIn(status)
  /\ \A r \in Ranks : status'[r] = "failed" => status[r] # "none"
  /\ safe \subseteq CompletedIn(status')
  /\ UNCHANGED safe

Next ==
  \/ \E r \in Ranks : Claim(r)
  \/ \E r \in Ranks, s \in {"failed", "completed"} : Store(r, s)
  \/ Abandon
  \/ Forget

Spec == Init /\ [][Next]_vars
=============================================================================
