------------------------------- MODULE Adapters -------------------------------
(***************************************************************************)
(* One notice, through the adapter of its recipient's harness              *)
(* (src/adapters/mod.rs adapter, codex/mod.rs notify): OpenCode gets a     *)
(* request (Prompt), Claude Code a frame, Codex the command codex queue    *)
(* (both in Handover) or, for a peer with a socket, a call of its app      *)
(* server (Rpc, which also removes notices and looks at sessions).  An     *)
(* operation uses one of them; whichever it is, it promises the same.      *)
(***************************************************************************)
EXTENDS Prompt

CONSTANTS
  Store, Owned, LateErrors,         \* of Handover
  MaxListener, MaxCall, MaxStray    \* of Rpc

ASSUME OwnedAssumption == Owned \in Store /\ None \notin Store
ASSUME RpcAssumption ==
  /\ MaxListener \in Nat /\ MaxCall \in Nat /\ MaxCall >= 3
  /\ None \notin Nat \cup {"done", "denied", "unknown", "pending", "skipped"}

VARIABLES
  adapter,  \* which module the operation is in
  \* of Handover; its names that others have too begin with an h
  harness, hbound, current, hplace, houtcome, family, output, hresult, queued, frame,
  \* of Rpc; its names that others have too begin with an r
  op, rbound, receipt, listener, rplace, conn, counter, attempted, rresult, routcome,
  partial, rwire, frames, effect, taken

Handing == INSTANCE Handover
  WITH bound <- hbound, place <- hplace, outcome <- houtcome, result <- hresult
Asking == INSTANCE Rpc
  WITH bound <- rbound, place <- rplace, result <- rresult, outcome <- routcome,
       wire <- rwire

handing == <<harness, hbound, current, hplace, houtcome, family, output, hresult, queued,
             frame>>
asking == <<op, rbound, receipt, listener, rplace, conn, counter, attempted, rresult,
            routcome, partial, rwire, frames, effect, taken>>
allvars == <<adapter, vars, handing, asking>>

\* The harness of the peer, and for Codex whether it has a socket, decide.
AdapterInit ==
  /\ adapter \in {"opencode", "handover", "app server"}
  /\ Init /\ Handing!Init /\ Asking!Init
  /\ adapter # "handover" => harness = "claude" /\ current = Owned
  /\ adapter # "app server" => op = "scan" /\ listener = 0

UsesOpenCode == adapter = "opencode" /\ UNCHANGED <<adapter, handing, asking>>
UsesHandover == adapter = "handover" /\ UNCHANGED <<adapter, vars, asking>>
UsesAppServer == adapter = "app server" /\ UNCHANGED <<adapter, vars, handing>>

AdapterNext == \/ UsesOpenCode /\ Next
               \/ UsesHandover /\ Handing!Next
               \/ UsesAppServer /\ Asking!Next

\* The fairness that the three modules ask for.
AdapterSpec ==
  /\ AdapterInit /\ [][AdapterNext]_allvars
  /\ WF_allvars(UsesOpenCode /\ Notify)
  /\ WF_allvars(UsesHandover /\ Handing!Notify)
  /\ WF_allvars(UsesAppServer /\ (Asking!Client \/ Asking!Refuse))
  /\ WF_allvars(UsesAppServer /\ Asking!Timeout)

-----------------------------------------------------------------------------
(* Correctness, with what the modules say of themselves.                   *)

\* A receiver's notice is queued in the store whose session it holds, and in no
\* other, though the environment's database moves (codex/mod.rs:75-101).
OnlyInOwnedStore == Handing!TypeOK /\ Handing!OnlyInOwnedStore

\* What a call of the app server returns is the reply to that very request, though
\* a scan goes on after a frame it cannot use and the late reply is still to come
\* (rpc.rs:209-231); no request is written to another listener than the selected
\* one, whatever replaced it around the connection (rpc.rs:108-117); and a notice
\* is removed only by a receipt of the very address (codex/mod.rs:116-134).
OwnConnectionOnly ==
  Asking!TypeOK /\ Asking!OwnReply /\ Asking!BoundToListener /\ Asking!OnlyConfirmedReceipts

\* What was handed over, queued or removed by Claude Code and Codex happened at
\* most once and is told truthfully, a write that times out half-way and a
\* command that leaves descendants included.
CodexAndClaudeAreOneAttempt == Handing!IsOneAttempt /\ Asking!IsOneAttempt

\* Every operation returns, though no server answers, one never stops talking, or
\* the command never ends.
NotifyReturns ==
  /\ adapter = "opencode" => Returns
  /\ adapter = "handover" => Handing!Returns
  /\ adapter = "app server" => Asking!Ends
=============================================================================
