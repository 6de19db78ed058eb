-------------------------------- MODULE Store --------------------------------
(***************************************************************************)
(* The mailbox file and its writer lock (src/schema.rs, src/write_turn.rs, *)
(* src/store.rs): commands that open it and may have to upgrade it, or     *)
(* sends that contend for it.  A behaviour is of Schema or of WriteTurn,   *)
(* and the other module stays at its start.                                *)
(***************************************************************************)
EXTENDS Schema

CONSTANTS
  Sender,  \* those of WriteTurn
  Other

VARIABLES
  sending,  \* its pc
  writing,  \* its writer
  mode, second, helper, turn, interrupted, saved

sends == <<sending, mode, second, helper, turn, writing, interrupted, saved>>

Turn == INSTANCE WriteTurn WITH pc <- sending, writer <- writing

ASSUME SendersAssumption == Turn!Distinct

all == <<vars, sends>>

OpenInit == Init /\ Turn!Init
OpenNext == Next /\ UNCHANGED sends

OpenSpec == OpenInit /\ [][OpenNext]_all

\* The upgrade of a send is one step of WriteTurn; the file of Schema stands still,
\* at one of its initial states.
SendInit == Init /\ version = Current /\ sound /\ Turn!Init
SendNext == Turn!Next /\ UNCHANGED vars

SendSpec == SendInit /\ [][SendNext]_all /\ Turn!Fairness

-----------------------------------------------------------------------------
(* What sends promise.                                                     *)

\* A send inserts one message at most, however it was queued and retried.
SavedOnce == Turn!SavedOnce

\* A turn is given back as soon as its holder has saved or given up; a helper
\* that obtains it late drops it at once.
TurnOnlyUntilSaved == Turn!TurnOnlyUntilSaved

\* Whoever polls with the turn's short pauses holds the turn.
HeirsHoldTheTurn == Turn!HeirsHoldTheTurn

\* No send is kept waiting by a turn that is not given back.
SendsEnd == Turn!SendsEnd
=============================================================================
