------------------------------ MODULE Published ------------------------------
(***************************************************************************)
(* A catalogue file and one client that reaches a mailbox through it:      *)
(* src/catalog/profile.rs (publish, unpublish, the directory),             *)
(* binding.rs and endpoint.rs (what every call is held to).  The client    *)
(* discovers the directory and selects a profile; its call starts an       *)
(* endpoint, compares what that one serves, and is checked there once more *)
(* before the command runs.  Meanwhile others publish and unpublish,       *)
(* retire peers, put another mailbox in the place of the former one, or    *)
(* remove the file.                                                        *)
(***************************************************************************)
EXTENDS Naturals

CONSTANTS
  Publisher,  \* processes that publish or unpublish
  Profile,    \* profile ids
  Peer,       \* registered peers
  Sender,     \* the peer that the catalogue speaks for
  MaxId,      \* ids given out: generations and bindings
  MaxChange,  \* retirements, restorations, replacements and removals
  None        \* nobody, no file, no profile

ASSUME SenderAssumption == Sender \notin Peer
ASSUME BoundsAssumption == MaxId \in Nat /\ MaxId >= 2 /\ MaxChange \in Nat

VARIABLES
  file,     \* the catalogue, or None
  mailbox,  \* device and inode of the mailbox at the catalogue's path
  retired,  \* peers that are retired
  lock,     \* who has the lock of the file
  pub,      \* the publishers
  ids,      \* ids given out
  changes,  \* changes made by others
  call,     \* the client's work
  seen,     \* catalogues that the file has held since the call was sent
  alive,    \* peers that were not retired at some moment since then
  present   \* mailboxes that were at the path at some moment since then

ghosts == <<seen, alive, present>>
vars == <<file, mailbox, retired, lock, pub, ids, changes, call, ghosts>>

Entry == [peer: Peer, binding: 1..MaxId]
Catalogue == [gen: 1..MaxId, stamp: 1..MaxChange + 1,
              profiles: [Profile -> Entry \cup {None}]]

\* Nobody is no publisher, and no file is no catalogue.
ASSUME NoneAssumption == None \notin Publisher /\ None \notin Catalogue

Unpublished == [q \in Profile |-> None]
Idle == [place |-> "idle", kind |-> None, profile |-> None, peer |-> None, copy |-> None]

Init ==
  /\ \E q \in Profile, n \in Peer:
       file = [gen |-> 1, stamp |-> 1,
               profiles |-> [Unpublished EXCEPT ![q] = [peer |-> n, binding |-> 2]]]
  /\ mailbox = 1 /\ retired = {}
  /\ lock = None /\ pub = [p \in Publisher |-> Idle]
  /\ ids = 2 /\ changes = 0
  /\ call = [place |-> "discover", copy |-> None, chosen |-> None, served |-> None,
             ran |-> None]
  /\ seen = {} /\ alive = {} /\ present = {}

\* The file can be used: its mailbox is the one that it was made for.
Loadable == file # None /\ file.stamp = mailbox

Underway == call.place \in {"call", "callreads", "callrows"}

\* The rows that the catalogue reads, all in one transaction.
Rows(names) == {n \in names: n \notin retired}

\* The sender's row is the one that the file was made with.
SenderIsCurrent == Rows({Sender}) # {}

Witness ==
  /\ seen' = IF Underway /\ file' # None THEN seen \cup {file'} ELSE seen
  /\ alive' = IF Underway THEN alive \cup ((Peer \cup {Sender}) \ retired') ELSE alive
  /\ present' = IF Underway THEN present \cup {mailbox'} ELSE present

-----------------------------------------------------------------------------
(* profile.rs: publish and unpublish.                                      *)

Publishing(p, from, to) == /\ pub[p].place = from
                           /\ pub' = [pub EXCEPT ![p] = to]
                           /\ UNCHANGED <<mailbox, retired, changes, call>>

\* MUTANT of TryLock: a lock that is held does not stop a publisher.
TryLockAnyway(p) == lock' = p

\* The lock is taken at once or not at all.
TryLock(p) == lock = None /\ lock' = p

Lock(p) ==
  /\ \E k \in {"publish", "unpublish"}, q \in Profile, n \in Peer:
       Publishing(p, "idle", [place |-> "locked", kind |-> k, profile |-> q, peer |-> n,
                              copy |-> None])
  /\ TryLock(p)
  /\ UNCHANGED <<file, ids, ghosts>>

\* A file that is not there is made by the first publication.
Load(p) ==
  /\ \/ /\ Loadable
        /\ Publishing(p, "locked", [pub[p] EXCEPT !.place = "loaded", !.copy = file])
        /\ UNCHANGED ids
     \/ /\ file = None /\ pub[p].kind = "publish" /\ SenderIsCurrent /\ ids < MaxId
        /\ Publishing(p, "locked", [pub[p] EXCEPT !.place = "loaded", !.copy =
             [gen |-> ids + 1, stamp |-> mailbox, profiles |-> Unpublished]])
        /\ ids' = ids + 1
  /\ UNCHANGED <<file, lock, ghosts>>

\* MUTANT of NewBinding: a profile that is published again keeps its binding.
NewBindingKept(p) ==
  LET old == pub[p].copy.profiles[pub[p].profile]
  IN  IF old = None THEN ids + 1 ELSE old.binding

NewBinding(p) == ids + 1

\* Every publication gets a new binding; neither peer may be retired, and the
\* sender's row is read once more.
Edit(p) ==
  LET c == pub[p].copy  q == pub[p].profile IN
  /\ pub[p].place = "loaded"
  /\ \/ /\ pub[p].kind = "publish" /\ Rows({pub[p].peer}) # {} /\ SenderIsCurrent /\ ids < MaxId
        /\ Publishing(p, "loaded", [pub[p] EXCEPT !.place = "save", !.copy =
             [c EXCEPT !.profiles[q] = [peer |-> pub[p].peer, binding |-> NewBinding(p)]]])
        /\ ids' = ids + 1
     \/ /\ pub[p].kind = "unpublish" /\ c.profiles[q] # None
        /\ Publishing(p, "loaded", [pub[p] EXCEPT !.place = "save", !.copy =
             [c EXCEPT !.profiles[q] = None]])
        /\ UNCHANGED ids
  /\ UNCHANGED <<file, lock, ghosts>>

\* The new file takes the place of the old one in one step.
Save(p) ==
  /\ Publishing(p, "save", Idle)
  /\ file' = pub[p].copy /\ lock' = None
  /\ Witness
  /\ UNCHANGED ids

\* A refusal, a failure, or a crash: the lock goes with the process.
GiveUp(p) ==
  /\ pub[p].place # "idle" /\ Publishing(p, pub[p].place, Idle)
  /\ lock' = None
  /\ UNCHANGED <<file, ids, ghosts>>

-----------------------------------------------------------------------------
(* binding.rs and endpoint.rs: the client and the endpoints it starts.     *)

Calling(from, to) == /\ call.place = from
                     /\ call' = to
                     /\ UNCHANGED <<file, mailbox, retired, lock, pub, ids, changes>>

Reading == [discover |-> "dirrows", serve |-> "servereads", servereads |-> "serverows",
            call |-> "callreads", callreads |-> "callrows"]

\* local_binding loads the file, and the directory loads it once more.
ReadFile ==
  /\ call.place \in DOMAIN Reading /\ Loadable
  /\ Calling(call.place, [call EXCEPT !.place = Reading[call.place], !.copy = file])
  /\ UNCHANGED ghosts

\* What the copy binds, once the rows are read: published, and not retired.
Directory == {[gen |-> call.copy.gen, profile |-> q, entry |-> call.copy.profiles[q]]:
                q \in {r \in Profile: /\ call.copy.profiles[r] # None
                                      /\ Rows({call.copy.profiles[r].peer}) # {}}}

Matches(expected, actual) == expected \subseteq actual

Choose ==
  /\ call.place = "dirrows" /\ SenderIsCurrent
  /\ \E x \in Directory:
       Calling("dirrows", [call EXCEPT !.place = "serve", !.chosen = x, !.copy = None])
  /\ UNCHANGED ghosts

\* The endpoint says what it serves, and the client sends its call with the
\* binding that it expects.  From here on the call is under way.
Serve ==
  /\ call.place = "serverows" /\ SenderIsCurrent
  /\ Matches({call.chosen}, Directory)
  /\ Calling("serverows", [call EXCEPT !.place = "call", !.served = Directory, !.copy = None])
  /\ seen' = IF file = None THEN {} ELSE {file}
  /\ alive' = (Peer \cup {Sender}) \ retired
  /\ present' = {mailbox}

\* MUTANT of Checked: the endpoint trusts what it served.
CheckedAtStart == TRUE

Checked == /\ SenderIsCurrent
           /\ Matches(call.served, Directory) /\ Matches({call.chosen}, Directory)

\* The command is about a conversation with the peer of the chosen profile.
Check ==
  /\ call.place = "callrows" /\ Checked
  /\ Calling("callrows", [call EXCEPT !.place = "run", !.copy = None, !.served = None])
  /\ UNCHANGED ghosts

Run ==
  /\ Calling("run", [call EXCEPT !.place = "done", !.ran = call.chosen.entry.peer])
  /\ UNCHANGED ghosts

\* Any step may fail; no command is sent then, and the client discovers anew.
Refuse ==
  /\ call.place \notin {"discover", "done"}
  /\ Calling(call.place, [call EXCEPT !.place = "discover", !.chosen = None, !.served = None,
                                      !.copy = None])
  /\ seen' = {} /\ alive' = {} /\ present' = {}

-----------------------------------------------------------------------------
(* Others.                                                                 *)

Other == changes < MaxChange /\ changes' = changes + 1
         /\ UNCHANGED <<lock, pub, ids, call>>

\* Peers are retired and restored; their addresses never change.
Retire == /\ Other /\ UNCHANGED <<file, mailbox>>
          /\ \E n \in Peer \cup {Sender}:
               retired' = IF n \in retired THEN retired \ {n} ELSE retired \cup {n}
          /\ Witness

\* An inode may be used again.
ReplaceMailbox == /\ Other /\ mailbox' \in 1..MaxChange + 1
                  /\ UNCHANGED <<file, retired>>
                  /\ Witness

Remove == /\ Other /\ file # None /\ file' = None
          /\ UNCHANGED <<mailbox, retired, ghosts>>

-----------------------------------------------------------------------------
Next == \/ \E p \in Publisher: Lock(p) \/ Load(p) \/ Edit(p) \/ Save(p) \/ GiveUp(p)
        \/ ReadFile \/ Choose \/ Serve \/ Check \/ Run \/ Refuse
        \/ Retire \/ ReplaceMailbox \/ Remove

Spec == Init /\ [][Next]_vars

-----------------------------------------------------------------------------
(* Correctness.                                                            *)

Bound == [gen: 1..MaxId, profile: Profile, entry: Entry]

Work == [place: {"idle", "locked", "loaded", "save"}, kind: {"publish", "unpublish", None},
         profile: Profile \cup {None}, peer: Peer \cup {None}, copy: Catalogue \cup {None}]

Calls == [place: {"discover", "dirrows", "serve", "servereads", "serverows",
                  "call", "callreads", "callrows", "run", "done"},
          copy: Catalogue \cup {None}, chosen: Bound \cup {None},
          served: (SUBSET Bound) \cup {None}, ran: Peer \cup {None}]

TypeOK ==
  /\ file \in Catalogue \cup {None}
  /\ mailbox \in 1..MaxChange + 1 /\ retired \subseteq Peer \cup {Sender}
  /\ lock \in Publisher \cup {None}
  /\ pub \in [Publisher -> Work]
  /\ \A p \in Publisher: pub[p].place # "idle" <=> lock = p
  /\ ids \in 0..MaxId /\ changes \in 0..MaxChange
  /\ call \in Calls
  /\ seen \subseteq Catalogue /\ alive \subseteq Peer \cup {Sender}
  /\ present \subseteq 1..MaxChange + 1

\* A command that ran was for the peer of the profile that the client had
\* chosen.  While the call was under way the catalogue of that generation had
\* this very binding, for a mailbox that was at the path then, as far as device
\* and inode tell (profile.rs:77-101), and neither peer was retired throughout
\* (endpoint.rs:95-115).
ScopeHeld ==
  call.ran # None =>
    /\ \E c \in seen: /\ c.gen = call.chosen.gen
                      /\ c.profiles[call.chosen.profile] = call.chosen.entry
                      /\ c.stamp \in present
    /\ call.ran = call.chosen.entry.peer
    /\ {call.ran, Sender} \subseteq alive

\* No publisher undoes what another one has saved (profile.rs:164-197).
NoLostPublication ==
  [][\A p \in Publisher:
       pub[p].place = "save" /\ pub'[p].place = "idle" /\ file' # file /\ file # None
         => \A q \in Profile \ {pub[p].profile}: file'.profiles[q] = file.profiles[q]]_vars

\* A binding id stands for one peer and one profile, in all that a client may
\* have read or still reads (profile.rs:282-288).
Live == (IF file = None THEN {} ELSE {file}) \cup seen \cup
        {pub[p].copy: p \in {r \in Publisher: pub[r].copy # None}}
BindingNamesOnePeer ==
  \A c, d \in Live: \A q, r \in Profile:
    c.profiles[q] # None /\ d.profiles[r] # None /\ c.profiles[q].binding = d.profiles[r].binding
      => q = r /\ c.profiles[q].peer = d.profiles[r].peer

\* A client that holds a binding holds one peer, whatever is published, withdrawn
\* and published again (profile.rs:282-288).
BindingsArePinned == TypeOK /\ BindingNamesOnePeer

-----------------------------------------------------------------------------
(* Why: the inductive invariant.                                           *)

\* Who has the lock works on the file as it is, or as it was before someone
\* removed it.
CopyInv ==
  \A p \in Publisher:
    /\ pub[p].place # "idle" => pub[p].profile \in Profile /\ pub[p].peer \in Peer
    /\ pub[p].place \in {"loaded", "save"} => pub[p].copy \in Catalogue
    /\ pub[p].place = "loaded" /\ file # None => file = pub[p].copy
    /\ pub[p].place = "save" /\ file # None =>
         \A q \in Profile \ {pub[p].profile}: pub[p].copy.profiles[q] = file.profiles[q]

\* The next id is of no binding yet.
FreshInv ==
  \A c \in Live: \A q \in Profile:
    c.profiles[q] # None => c.profiles[q].binding \in 1..ids

Scope ==
  /\ \E c \in seen: /\ c.gen = call.chosen.gen
                    /\ c.profiles[call.chosen.profile] = call.chosen.entry
                    /\ c.stamp \in present
  /\ {call.chosen.entry.peer, Sender} \subseteq alive

\* What the endpoint reads while the call is under way has been seen by then.
CallInv ==
  /\ call.place \in {"dirrows", "servereads", "serverows", "callreads", "callrows"} =>
       call.copy \in Catalogue
  /\ call.place \notin {"discover", "dirrows"} => call.chosen \in Bound
  /\ Underway => /\ file # None => file \in seen
                 /\ (Peer \cup {Sender}) \ retired \subseteq alive
                 /\ mailbox \in present
  /\ call.place \in {"callreads", "callrows"} => call.copy \in seen /\ call.copy.stamp \in present
  /\ call.place \in {"run", "done"} => Scope
  /\ call.ran # None => call.place = "done" /\ call.ran = call.chosen.entry.peer

IInv == TypeOK /\ CopyInv /\ FreshInv /\ BindingNamesOnePeer /\ CallInv
=============================================================================
