----------------------------- MODULE OneAttempt -----------------------------
(***************************************************************************)
(* What a call that is sent once and may be lost promises: the command     *)
(* runs at most once; the caller is told that it did not run only if it    *)
(* never does, and is told its result only after it ended.  Everything     *)
(* else is told as unknown, and then the command may still run.            *)
(***************************************************************************)
CONSTANTS
  Call,  \* calls
  None   \* nothing was told

VARIABLES
  effect,  \* whether the command ran
  verdict  \* what the caller was told

Init == /\ effect = [c \in Call |-> "none"]
        /\ verdict = [c \in Call |-> None]

Run(c) == /\ effect[c] = "none" /\ verdict[c] # "denied"
          /\ \E e \in {"begun", "ended"}: effect' = [effect EXCEPT ![c] = e]
          /\ UNCHANGED verdict

End(c) == /\ effect[c] = "begun"
          /\ effect' = [effect EXCEPT ![c] = "ended"]
          /\ UNCHANGED verdict

Tell(c, what) == /\ verdict[c] = None
                 /\ verdict' = [verdict EXCEPT ![c] = what]
                 /\ UNCHANGED effect

Deny(c) == effect[c] = "none" /\ Tell(c, "denied")

Report(c) == effect[c] = "ended" /\ Tell(c, "done")

Doubt(c) == Tell(c, "unknown")

Next == \E c \in Call: Run(c) \/ End(c) \/ Deny(c) \/ Report(c) \/ Doubt(c)

Spec == Init /\ [][Next]_<<effect, verdict>>
=============================================================================
