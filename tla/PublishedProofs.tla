---------------------------- MODULE PublishedProofs ----------------------------
(***************************************************************************)
(* Published proved for every set of publishers, profiles and peers: who   *)
(* has the lock of the catalogue works on the file that is there, each id  *)
(* binds one profile to one peer, and what the endpoint's last check has   *)
(* read was the catalogue of that generation while the call was under way. *)
(***************************************************************************)
EXTENDS Published, TLAPS

-----------------------------------------------------------------------------
(* Catalogues.                                                             *)

\* A profile of a catalogue that is set to an entry, or taken away.
LEMMA EditedCatalogue ==
  ASSUME NEW c \in Catalogue, NEW q \in Profile, NEW e \in Entry \cup {None}
  PROVE  /\ [c EXCEPT !.profiles[q] = e] \in Catalogue
         /\ [c EXCEPT !.profiles[q] = e].profiles[q] = e
         /\ \A r \in Profile \ {q}: [c EXCEPT !.profiles[q] = e].profiles[r] = c.profiles[r]
BY DEF Catalogue

\* What is in a catalogue.
LEMMA CatalogueHas ==
  ASSUME NEW c \in Catalogue
  PROVE  /\ c.gen \in 1..MaxId /\ c.stamp \in 1..MaxChange + 1
         /\ \A q \in Profile: c.profiles[q] \in Entry \cup {None}
BY DEF Catalogue

\* What a copy binds is of its generation, published, and of a peer in use.
LEMMA DirectoryBinds ==
  ASSUME call.copy \in Catalogue, NEW x \in Directory
  PROVE  /\ x \in Bound /\ x.gen = call.copy.gen
         /\ x.entry = call.copy.profiles[x.profile]
         /\ x.entry.peer \in Peer \ retired
<1>1. PICK q \in Profile:
        /\ call.copy.profiles[q] # None /\ Rows({call.copy.profiles[q].peer}) # {}
        /\ x = [gen |-> call.copy.gen, profile |-> q, entry |-> call.copy.profiles[q]]
  BY DEF Directory
<1>2. call.copy.profiles[q] \in Entry /\ call.copy.gen \in 1..MaxId
  BY <1>1, CatalogueHas
<1>3. call.copy.profiles[q].peer \notin retired
  BY <1>1 DEF Rows
<1>4. QED BY <1>1, <1>2, <1>3 DEF Bound, Entry

\* A step of a publisher that is not idle is the lock holder's.
LEMMA HolderSteps ==
  ASSUME IInv, NEW p \in Publisher, pub[p].place # "idle"
  PROVE  lock = p /\ \A r \in Publisher \ {p}: pub[r].place = "idle"
BY DEF IInv, TypeOK

\* What can be read by others: the live catalogues after a publisher has changed
\* its copy are those of before, and the new copy.
LEMMA LiveAfter ==
  ASSUME NEW p \in Publisher, TypeOK, NEW to, UNCHANGED <<file, seen>>,
         pub' = [pub EXCEPT ![p] = to]
  PROVE  Live' \subseteq Live \cup ({to.copy} \ {None})
BY DEF Live, TypeOK

\* ... and after a save those of before.
LEMMA LiveAfterSave ==
  ASSUME NEW p \in Publisher, TypeOK, pub[p].copy \in Catalogue,
         file' = pub[p].copy, seen' \subseteq seen \cup {file'},
         pub' = [pub EXCEPT ![p] = Idle]
  PROVE  Live' \subseteq Live
<1>1. file' \in Live
  BY NoneAssumption DEF Live
<1>2. \A r \in Publisher: pub'[r].copy # None => pub'[r].copy = pub[r].copy
  BY DEF TypeOK, Idle
<1>3. {pub'[r].copy: r \in {r \in Publisher: pub'[r].copy # None}} \subseteq Live
  BY <1>2 DEF Live
<1>4. QED BY <1>1, <1>3 DEF Live

\* Ids stay one for each binding as long as what can be read was there before, or
\* is a catalogue that has one binding more, by the next id.
LEMMA BindingsKept ==
  ASSUME FreshInv, BindingNamesOnePeer, ids \in Nat, ids' \in Nat, ids <= ids',
         NEW d, NEW q, Live' \subseteq Live \cup {d},
         \A r \in Profile: \/ d.profiles[r] = None
                           \/ \E c \in Live: c.profiles[r] = d.profiles[r]
                           \/ r = q /\ d.profiles[r].binding = ids + 1 /\ ids' = ids + 1
  PROVE  FreshInv' /\ BindingNamesOnePeer'
<1> DEFINE Old(e, r) == \E c \in Live: c.profiles[r] = e
           Added(e, r) == r = q /\ e = d.profiles[q] /\ e.binding = ids + 1 /\ ids' = ids + 1
<1>1. \A c \in Live': \A r \in Profile:
        c.profiles[r] # None => Old(c.profiles[r], r) \/ Added(c.profiles[r], r)
  OBVIOUS
<1>2. \A e, r: r \in Profile /\ e # None /\ Old(e, r) => e.binding \in 1..ids
  BY DEF FreshInv
<1>3. FreshInv'
  <2>1. SUFFICES ASSUME NEW c \in Live', NEW r \in Profile, c.profiles[r] # None
                 PROVE  c.profiles[r].binding \in 1..ids'
    BY DEF FreshInv
  <2>2. CASE Old(c.profiles[r], r)
    <3>1. c.profiles[r].binding \in 1..ids
      BY <1>2, <2>1, <2>2
    <3>2. QED BY <3>1
  <2>3. CASE Added(c.profiles[r], r)
    BY <2>3
  <2>4. QED BY <1>1, <2>1, <2>2, <2>3
<1>4. BindingNamesOnePeer'
  <2>1. SUFFICES ASSUME NEW c1 \in Live', NEW c2 \in Live', NEW r1 \in Profile, NEW r2 \in Profile,
                        c1.profiles[r1] # None, c2.profiles[r2] # None,
                        c1.profiles[r1].binding = c2.profiles[r2].binding
                 PROVE  r1 = r2 /\ c1.profiles[r1].peer = c2.profiles[r2].peer
    BY DEF BindingNamesOnePeer
  <2> DEFINE e1 == c1.profiles[r1]  e2 == c2.profiles[r2]
  <2>2. Old(e1, r1) \/ Added(e1, r1)
    BY <1>1, <2>1
  <2>3. Old(e2, r2) \/ Added(e2, r2)
    BY <1>1, <2>1
  <2>4. CASE Old(e1, r1) /\ Old(e2, r2)
    BY <2>1, <2>4 DEF BindingNamesOnePeer
  <2>5. CASE Added(e1, r1) /\ Added(e2, r2)
    BY <2>5
  <2>6. ~(Old(e1, r1) /\ Added(e2, r2))
    <3>1. Old(e1, r1) => e1.binding \in 1..ids
      BY <1>2, <2>1
    <3>2. ids + 1 \notin 1..ids
      OBVIOUS
    <3>3. QED BY <2>1, <3>1, <3>2
  <2>7. ~(Added(e1, r1) /\ Old(e2, r2))
    <3>1. Old(e2, r2) => e2.binding \in 1..ids
      BY <1>2, <2>1
    <3>2. ids + 1 \notin 1..ids
      OBVIOUS
    <3>3. QED BY <2>1, <3>1, <3>2
  <2>8. QED BY <2>2, <2>3, <2>4, <2>5, <2>6, <2>7
<1>5. QED BY <1>3, <1>4

\* ... so when nothing new can be read.
LEMMA BindingsUnchanged ==
  ASSUME FreshInv, BindingNamesOnePeer, Live' \subseteq Live, ids' = ids
  PROVE  FreshInv' /\ BindingNamesOnePeer'
BY DEF FreshInv, BindingNamesOnePeer

\* A call that does not go on is held to what was read before, as long as what it
\* may read is witnessed.
LEMMA CallWitnessed ==
  ASSUME CallInv, call' = call,
         seen \subseteq seen', alive \subseteq alive', present \subseteq present',
         Underway => /\ file' # None => file' \in seen'
                     /\ (Peer \cup {Sender}) \ retired' \subseteq alive'
                     /\ mailbox' \in present'
  PROVE  CallInv'
<1>1. Underway' = Underway /\ (Scope => Scope')
  BY DEF Underway, Scope
<1>2. QED BY <1>1 DEF CallInv

-----------------------------------------------------------------------------
(* Publishers.                                                             *)

\* What a publisher's step leaves alone.
LEMMA PublisherFrame ==
  ASSUME NEW p \in Publisher, Lock(p) \/ Load(p) \/ Edit(p) \/ Save(p) \/ GiveUp(p)
  PROVE  /\ UNCHANGED <<mailbox, retired, changes, call>>
         /\ ~Save(p) => UNCHANGED <<file, seen, alive, present>>
BY DEF Lock, Load, Edit, Save, GiveUp, Publishing, ghosts

\* The lock holder's copy is the file, or an empty catalogue where no file is.
LEMMA LoadMakes ==
  ASSUME IInv, NEW p \in Publisher, Load(p)
  PROVE  \E c \in Catalogue:
           /\ pub[p].place = "locked" /\ lock' = lock
           /\ pub' = [pub EXCEPT ![p] = [pub[p] EXCEPT !.place = "loaded", !.copy = c]]
           /\ \/ c = file /\ file # None /\ ids' = ids
              \/ file = None /\ c.profiles = Unpublished /\ ids < MaxId /\ ids' = ids + 1
<1>1. PICK c: /\ Publishing(p, "locked", [pub[p] EXCEPT !.place = "loaded", !.copy = c])
              /\ \/ c = file /\ Loadable /\ ids' = ids
                 \/ /\ file = None /\ ids < MaxId /\ ids' = ids + 1
                    /\ c = [gen |-> ids + 1, stamp |-> mailbox, profiles |-> Unpublished]
  BY DEF Load
<1>2. CASE c = file /\ Loadable
  BY <1>1, <1>2 DEF Load, Publishing, Loadable, IInv, TypeOK
<1>3. CASE /\ file = None /\ ids < MaxId /\ ids' = ids + 1
           /\ c = [gen |-> ids + 1, stamp |-> mailbox, profiles |-> Unpublished]
  <2>1. ids + 1 \in 1..MaxId /\ mailbox \in 1..MaxChange + 1
    BY <1>3, BoundsAssumption DEF IInv, TypeOK
  <2>2. Unpublished \in [Profile -> Entry \cup {None}]
    BY DEF Unpublished
  <2>3. c \in Catalogue /\ c.profiles = Unpublished
    BY <1>3, <2>1, <2>2 DEF Catalogue
  <2>4. QED BY <1>1, <1>3, <2>3 DEF Load, Publishing
<1>4. QED BY <1>1, <1>2, <1>3

\* An edit adds one binding, with a new id, or takes one away.
LEMMA EditMakes ==
  ASSUME IInv, NEW p \in Publisher, Edit(p)
  PROVE  /\ pub[p].place = "loaded" /\ lock' = lock
         /\ pub[p].profile \in Profile /\ pub[p].copy \in Catalogue
         /\ \E e \in Entry \cup {None}:
              /\ pub' = [pub EXCEPT ![p] = [pub[p] EXCEPT !.place = "save", !.copy =
                          [pub[p].copy EXCEPT !.profiles[pub[p].profile] = e]]]
              /\ \/ e = None /\ ids' = ids
                 \/ ids < MaxId /\ ids' = ids + 1 /\ e.binding = ids + 1
<1> DEFINE q == pub[p].profile
<1>1. PICK e: /\ Publishing(p, "loaded", [pub[p] EXCEPT !.place = "save", !.copy =
                               [pub[p].copy EXCEPT !.profiles[q] = e]])
              /\ \/ e = None /\ ids' = ids
                 \/ /\ ids < MaxId /\ ids' = ids + 1
                    /\ e = [peer |-> pub[p].peer, binding |-> ids + 1]
  BY DEF Edit, NewBinding
<1>2. pub[p].place = "loaded" /\ lock' = lock
  BY DEF Edit
<1>3. q \in Profile /\ pub[p].peer \in Peer /\ pub[p].copy \in Catalogue
  BY <1>2 DEF IInv, CopyInv
<1>4. e \in Entry \cup {None}
  BY <1>1, <1>3, BoundsAssumption DEF Entry, IInv, TypeOK
<1>5. /\ pub' = [pub EXCEPT ![p] = [pub[p] EXCEPT !.place = "save", !.copy =
                          [pub[p].copy EXCEPT !.profiles[pub[p].profile] = e]]]
      /\ \/ e = None /\ ids' = ids
         \/ ids < MaxId /\ ids' = ids + 1 /\ e.binding = ids + 1
  BY <1>1 DEF Publishing
<1>6. QED BY <1>2, <1>3, <1>4, <1>5

\* What a step makes of the publisher that takes it, and of the lock.
LEMMA PublisherNext ==
  ASSUME IInv, NEW p \in Publisher, Lock(p) \/ Load(p) \/ Edit(p) \/ Save(p) \/ GiveUp(p)
  PROVE  /\ pub' = [pub EXCEPT ![p] = pub'[p]] /\ pub'[p] \in Work
         /\ pub'[p].place # "idle" => pub'[p].profile \in Profile /\ pub'[p].peer \in Peer
         /\ pub'[p].place \in {"loaded", "save"} => pub'[p].copy \in Catalogue
         /\ lock \in {None, p} /\ lock' = IF pub'[p].place = "idle" THEN None ELSE p
         /\ ids' \in {ids, ids + 1} /\ ids' \in 0..MaxId
<1>1. pub \in [Publisher -> Work] /\ ids \in 0..MaxId /\ MaxId \in Nat
  BY BoundsAssumption DEF IInv, TypeOK
<1>2. pub[p] \in Work /\ (pub[p].place # "idle" <=> lock = p)
  BY <1>1 DEF IInv, TypeOK
<1>3. pub[p].place # "idle" => pub[p].profile \in Profile /\ pub[p].peer \in Peer
  BY DEF IInv, CopyInv
<1>4. CASE Lock(p)
  <2>1. PICK k \in {"publish", "unpublish"}, q \in Profile, n \in Peer:
          Publishing(p, "idle", [place |-> "locked", kind |-> k, profile |-> q, peer |-> n,
                                 copy |-> None])
    BY <1>4 DEF Lock
  <2>2. pub'[p] = [place |-> "locked", kind |-> k, profile |-> q, peer |-> n, copy |-> None]
    BY <1>1, <2>1 DEF Publishing
  <2>3. pub'[p] \in Work
    BY <2>2 DEF Work
  <2>4. pub' = [pub EXCEPT ![p] = pub'[p]]
    BY <2>1, <2>2 DEF Publishing
  <2>5. lock = None /\ lock' = p /\ ids' = ids
    BY <1>4 DEF Lock, TryLock
  <2>6. QED BY <1>1, <2>2, <2>3, <2>4, <2>5
<1>5. CASE Load(p)
  <2>1. PICK c \in Catalogue:
          /\ pub[p].place = "locked" /\ lock' = lock
          /\ pub' = [pub EXCEPT ![p] = [pub[p] EXCEPT !.place = "loaded", !.copy = c]]
          /\ ids' = ids \/ (ids < MaxId /\ ids' = ids + 1)
    BY <1>5, LoadMakes
  <2>2. pub'[p] = [pub[p] EXCEPT !.place = "loaded", !.copy = c]
    BY <1>1, <2>1
  <2>3. /\ pub'[p] \in Work /\ pub'[p].place = "loaded" /\ pub'[p].copy = c
        /\ pub'[p].profile = pub[p].profile /\ pub'[p].peer = pub[p].peer
    BY <1>2, <2>2 DEF Work
  <2>4. pub' = [pub EXCEPT ![p] = pub'[p]]
    BY <2>1, <2>2
  <2>5. QED BY <1>1, <1>2, <1>3, <2>1, <2>3, <2>4
<1>6. CASE Edit(p)
  <2> DEFINE d(e) == [pub[p].copy EXCEPT !.profiles[pub[p].profile] = e]
  <2>1. /\ pub[p].place = "loaded" /\ lock' = lock
        /\ pub[p].profile \in Profile /\ pub[p].copy \in Catalogue
    BY <1>6, EditMakes
  <2>2. PICK e \in Entry \cup {None}:
          /\ pub' = [pub EXCEPT ![p] = [pub[p] EXCEPT !.place = "save", !.copy = d(e)]]
          /\ ids' = ids \/ (ids < MaxId /\ ids' = ids + 1)
    BY <1>6, EditMakes
  <2>3. d(e) \in Catalogue
    BY <2>1, EditedCatalogue
  <2>4. pub'[p] = [pub[p] EXCEPT !.place = "save", !.copy = d(e)]
    BY <1>1, <2>2
  <2>5. /\ pub'[p] \in Work /\ pub'[p].place = "save" /\ pub'[p].copy = d(e)
        /\ pub'[p].profile = pub[p].profile /\ pub'[p].peer = pub[p].peer
    BY <1>2, <2>3, <2>4 DEF Work
  <2>6. pub' = [pub EXCEPT ![p] = pub'[p]]
    BY <2>2, <2>4
  <2>7. QED BY <1>1, <1>2, <1>3, <2>1, <2>2, <2>3, <2>5, <2>6
<1>7. CASE Save(p) \/ GiveUp(p)
  <2>1. pub' = [pub EXCEPT ![p] = Idle] /\ lock' = None /\ ids' = ids /\ pub[p].place # "idle"
    BY <1>7 DEF Save, GiveUp, Publishing
  <2>2. pub'[p] = Idle /\ Idle \in Work /\ Idle.place = "idle"
    BY <1>1, <2>1 DEF Idle, Work
  <2>3. QED BY <1>1, <1>2, <2>1, <2>2
<1>8. QED BY <1>4, <1>5, <1>6, <1>7

\* A publisher's step keeps the types, the lock's holder being the one at work.
LEMMA PublisherTypes ==
  ASSUME IInv, NEW p \in Publisher, Lock(p) \/ Load(p) \/ Edit(p) \/ Save(p) \/ GiveUp(p)
  PROVE  TypeOK'
<1>1. /\ pub \in [Publisher -> Work] /\ \A r \in Publisher: pub[r].place # "idle" <=> lock = r
      /\ file \in Catalogue \cup {None} /\ seen \subseteq Catalogue
  BY DEF IInv, TypeOK
<1>2. pub' \in [Publisher -> Work]
  BY <1>1, PublisherNext
<1>3. \A r \in Publisher: pub'[r].place # "idle" <=> lock' = r
  <2>1. TAKE r \in Publisher
  <2>2. CASE r = p
    BY <2>2, PublisherNext, NoneAssumption
  <2>3. CASE r # p
    <3>1. pub'[r] = pub[r] /\ pub[r].place = "idle"
      BY <1>1, <2>3, PublisherNext, NoneAssumption
    <3>2. QED BY <2>3, <3>1, PublisherNext, NoneAssumption
  <2>4. QED BY <2>2, <2>3
<1>4. lock' \in Publisher \cup {None} /\ ids' \in 0..MaxId
  BY PublisherNext
<1>5. /\ file' \in Catalogue \cup {None} /\ seen' \subseteq Catalogue
      /\ alive' \subseteq Peer \cup {Sender} /\ present' \subseteq 1..MaxChange + 1
  <2>1. CASE Save(p)
    <3>1. pub[p].copy \in Catalogue /\ file' = pub[p].copy /\ Witness
      BY <2>1 DEF Save, Publishing, IInv, CopyInv
    <3>2. /\ alive \subseteq Peer \cup {Sender} /\ present \subseteq 1..MaxChange + 1
          /\ mailbox' \in 1..MaxChange + 1
      BY PublisherFrame DEF IInv, TypeOK
    <3>3. QED BY <1>1, <3>1, <3>2 DEF Witness
  <2>2. CASE ~Save(p)
    BY <1>1, <2>2, PublisherFrame DEF IInv, TypeOK
  <2>3. QED BY <2>1, <2>2
<1>6. QED BY <1>2, <1>3, <1>4, <1>5, PublisherFrame DEF IInv, TypeOK

\* ... and its copy that of the file it is to replace.
LEMMA PublisherCopies ==
  ASSUME IInv, NEW p \in Publisher, Lock(p) \/ Load(p) \/ Edit(p) \/ Save(p) \/ GiveUp(p)
  PROVE  CopyInv'
<1>1. pub \in [Publisher -> Work] /\ UNCHANGED changes
  BY PublisherFrame DEF IInv, TypeOK
<1>2. \A r \in Publisher \ {p}: pub'[r] = pub[r] /\ pub[r].place = "idle"
  BY <1>1, PublisherNext, NoneAssumption DEF IInv, TypeOK
<1>3. /\ pub'[p].place = "loaded" /\ file' # None => file' = pub'[p].copy
      /\ pub'[p].place = "save" /\ file' # None =>
           \A q \in Profile \ {pub'[p].profile}: pub'[p].copy.profiles[q] = file'.profiles[q]
  <2>1. CASE Load(p)
    <3>1. PICK c \in Catalogue:
            /\ pub' = [pub EXCEPT ![p] = [pub[p] EXCEPT !.place = "loaded", !.copy = c]]
            /\ c = file \/ file = None
      BY <2>1, LoadMakes
    <3>2. pub'[p].place = "loaded" /\ pub'[p].copy = c
      BY <1>1, <3>1 DEF Work
    <3>3. QED BY <2>1, <3>1, <3>2 DEF Load
  <2>2. CASE Edit(p)
    <3> DEFINE d(e) == [pub[p].copy EXCEPT !.profiles[pub[p].profile] = e]
    <3>1. pub[p].place = "loaded" /\ pub[p].profile \in Profile /\ pub[p].copy \in Catalogue
      BY <2>2, EditMakes
    <3>2. PICK e \in Entry \cup {None}:
            pub' = [pub EXCEPT ![p] = [pub[p] EXCEPT !.place = "save", !.copy = d(e)]]
      BY <2>2, EditMakes
    <3>3. /\ pub'[p].place = "save" /\ pub'[p].copy = d(e)
          /\ pub'[p].profile = pub[p].profile
      BY <1>1, <3>2 DEF Work
    <3>4. \A q \in Profile \ {pub[p].profile}: d(e).profiles[q] = pub[p].copy.profiles[q]
      BY <3>1, EditedCatalogue
    <3>5. file' = file /\ (file # None => file = pub[p].copy)
      BY <2>2, <3>1 DEF Edit, IInv, CopyInv
    <3>6. QED BY <3>3, <3>4, <3>5
  <2>3. CASE Lock(p)
    <3>1. pub'[p].place = "locked"
      BY <1>1, <2>3 DEF Lock, Publishing
    <3>2. QED BY <3>1
  <2>4. CASE Save(p) \/ GiveUp(p)
    <3>1. pub'[p].place = "idle"
      BY <1>1, <2>4 DEF Save, GiveUp, Publishing, Idle
    <3>2. QED BY <3>1
  <2>5. QED BY <2>1, <2>2, <2>3, <2>4
<1>4. QED BY <1>1, <1>2, <1>3, PublisherNext DEF IInv, CopyInv

\* ... and no id that was given out before is given out anew.
LEMMA PublisherBinds ==
  ASSUME IInv, NEW p \in Publisher, Lock(p) \/ Load(p) \/ Edit(p) \/ Save(p) \/ GiveUp(p)
  PROVE  FreshInv' /\ BindingNamesOnePeer'
<1>1. TypeOK /\ pub \in [Publisher -> Work] /\ FreshInv /\ BindingNamesOnePeer /\ ids \in Nat
  BY DEF IInv, TypeOK
<1>2. CASE Load(p)
  <2>1. PICK c \in Catalogue:
          /\ pub' = [pub EXCEPT ![p] = [pub[p] EXCEPT !.place = "loaded", !.copy = c]]
          /\ \/ c = file /\ file # None /\ ids' = ids
             \/ c.profiles = Unpublished /\ ids' = ids + 1
    BY <1>2, LoadMakes
  <2>2. [pub[p] EXCEPT !.place = "loaded", !.copy = c].copy = c
    BY <1>1 DEF Work
  <2>3. Live' \subseteq Live \cup {c}
    BY <1>1, <1>2, <2>1, <2>2, LiveAfter, PublisherFrame DEF Load, ghosts
  <2>4. \A r \in Profile: \/ c.profiles[r] = None
                          \/ \E k \in Live: k.profiles[r] = c.profiles[r]
    <3>1. CASE c = file /\ file # None
      BY <3>1 DEF Live
    <3>2. CASE c.profiles = Unpublished
      BY <3>2 DEF Unpublished
    <3>3. (c = file /\ file # None) \/ c.profiles = Unpublished
      BY <2>1
    <3>4. QED BY <3>1, <3>2, <3>3
  <2>5. ids' \in Nat /\ ids <= ids'
    BY <1>1, PublisherNext
  <2> DEFINE q == pub[p].profile
  <2>6. \A r \in Profile: \/ c.profiles[r] = None
                          \/ \E k \in Live: k.profiles[r] = c.profiles[r]
                          \/ r = q /\ c.profiles[r].binding = ids + 1 /\ ids' = ids + 1
    BY <2>4
  <2> HIDE DEF q
  <2>7. QED BY <1>1, <2>3, <2>5, <2>6, BindingsKept
<1>3. CASE Edit(p)
  <2> DEFINE d(e) == [pub[p].copy EXCEPT !.profiles[pub[p].profile] = e]
  <2>1. pub[p].profile \in Profile /\ pub[p].copy \in Catalogue
    BY <1>3, EditMakes
  <2>2. PICK e \in Entry \cup {None}:
          /\ pub' = [pub EXCEPT ![p] = [pub[p] EXCEPT !.place = "save", !.copy = d(e)]]
          /\ \/ e = None /\ ids' = ids
             \/ ids' = ids + 1 /\ e.binding = ids + 1
    BY <1>3, EditMakes
  <2>3. [pub[p] EXCEPT !.place = "save", !.copy = d(e)].copy = d(e)
    BY <1>1 DEF Work
  <2>4. Live' \subseteq Live \cup {d(e)}
    BY <1>1, <1>3, <2>2, <2>3, LiveAfter DEF Edit, ghosts
  <2>5. pub[p].copy \in Live
    BY <2>1, NoneAssumption DEF Live
  <2>6. \A r \in Profile: \/ d(e).profiles[r] = None
                          \/ \E k \in Live: k.profiles[r] = d(e).profiles[r]
                          \/ /\ r = pub[p].profile /\ d(e).profiles[r].binding = ids + 1
                             /\ ids' = ids + 1
    <3>1. TAKE r \in Profile
    <3>2. CASE r # pub[p].profile
      BY <2>1, <2>5, <3>2, EditedCatalogue
    <3>3. CASE r = pub[p].profile
      <4>1. e \in Entry \cup {None}
        BY <2>2
      <4>2. d(e).profiles[pub[p].profile] = e
        BY <2>1, <4>1 DEF Catalogue
      <4>3. QED BY <2>2, <3>3, <4>2
    <3>4. QED BY <3>2, <3>3
  <2>7. ids' \in Nat /\ ids <= ids'
    BY <1>1, PublisherNext
  <2> HIDE DEF d
  <2>8. QED BY <1>1, <2>4, <2>6, <2>7, BindingsKept
<1>4. CASE Lock(p) \/ GiveUp(p)
  <2>1. \E to: pub' = [pub EXCEPT ![p] = to] /\ to.copy = None
    <3>1. CASE Lock(p)
      <4>1. PICK k \in {"publish", "unpublish"}, q \in Profile, n \in Peer:
              Publishing(p, "idle", [place |-> "locked", kind |-> k, profile |-> q,
                                     peer |-> n, copy |-> None])
        BY <3>1 DEF Lock
      <4> DEFINE w == [place |-> "locked", kind |-> k, profile |-> q, peer |-> n,
                       copy |-> None]
      <4>2. pub' = [pub EXCEPT ![p] = w] /\ w.copy = None
        BY <4>1 DEF Publishing
      <4> HIDE DEF w
      <4>3. QED BY <4>2
    <3>2. CASE GiveUp(p)
      <4>1. pub' = [pub EXCEPT ![p] = Idle] /\ Idle.copy = None
        BY <3>2 DEF GiveUp, Publishing, Idle
      <4>2. QED BY <4>1
    <3>3. QED BY <1>4, <3>1, <3>2
  <2>2. UNCHANGED <<file, seen>> /\ ids' = ids
    BY <1>4 DEF Lock, GiveUp, ghosts
  <2>3. Live' \subseteq Live
    BY <1>1, <2>1, <2>2, LiveAfter
  <2>4. QED BY <1>1, <2>2, <2>3, BindingsUnchanged
<1>5. CASE Save(p)
  <2>1. /\ pub[p].copy \in Catalogue /\ file' = pub[p].copy /\ Witness /\ ids' = ids
        /\ pub' = [pub EXCEPT ![p] = Idle]
    BY <1>5 DEF Save, Publishing, IInv, CopyInv
  <2>2. seen' \subseteq seen \cup {file'}
    BY <2>1 DEF Witness
  <2>3. Live' \subseteq Live
    BY <1>1, <2>1, <2>2, LiveAfterSave
  <2>4. QED BY <1>1, <2>1, <2>3, BindingsUnchanged
<1>6. QED BY <1>2, <1>3, <1>4, <1>5

\* A publisher keeps the invariant.
LEMMA PublisherKeeps ==
  ASSUME IInv, NEW p \in Publisher, Lock(p) \/ Load(p) \/ Edit(p) \/ Save(p) \/ GiveUp(p)
  PROVE  IInv'
<1>1. CallInv'
  <2>1. CASE Save(p)
    <3>1. call' = call /\ retired' = retired /\ mailbox' = mailbox /\ Witness
      BY <2>1 DEF Save, Publishing
    <3>2. QED BY <3>1, CallWitnessed DEF Witness, IInv, CallInv
  <2>2. CASE ~Save(p)
    BY <2>2, PublisherFrame, CallWitnessed DEF IInv, CallInv
  <2>3. QED BY <2>1, <2>2
<1>2. QED BY <1>1, PublisherTypes, PublisherCopies, PublisherBinds DEF IInv

-----------------------------------------------------------------------------
(* The client and others.                                                  *)

\* Those who do not publish leave the lock and the copies alone, and no catalogue
\* that was not there can be read.
LEMMA NotPublishing ==
  ASSUME IInv, UNCHANGED <<lock, pub, ids>>, file' \in {file, None},
         seen' \subseteq seen \cup ({file} \ {None})
  PROVE  CopyInv' /\ FreshInv' /\ BindingNamesOnePeer'
<1>1. CopyInv'
  BY DEF IInv, CopyInv
<1>2. Live' \subseteq Live
  BY DEF Live
<1>3. QED BY <1>1, <1>2, BindingsUnchanged DEF IInv

\* A retirement is witnessed, as is a file that is there.
LEMMA OthersKeep ==
  ASSUME IInv, Retire \/ ReplaceMailbox \/ Remove
  PROVE  IInv'
<1>1. /\ UNCHANGED <<lock, pub, ids, call>> /\ file' \in {file, None}
      /\ changes' = changes + 1 /\ mailbox' \in 1..MaxChange + 1 /\ changes < MaxChange
      /\ retired' \subseteq Peer \cup {Sender}
  BY DEF Retire, ReplaceMailbox, Remove, Other, IInv, TypeOK
<1>2. /\ seen \subseteq seen' /\ seen' \subseteq seen \cup ({file} \ {None})
      /\ alive \subseteq alive' /\ alive' \subseteq Peer \cup {Sender}
      /\ present \subseteq present' /\ present' \subseteq 1..MaxChange + 1
      /\ Underway => /\ file' # None => file' \in seen'
                     /\ (Peer \cup {Sender}) \ retired' \subseteq alive'
                     /\ mailbox' \in present'
  BY DEF Retire, ReplaceMailbox, Remove, Other, Witness, ghosts, IInv, TypeOK, CallInv
<1>3. changes \in 0..MaxChange /\ MaxChange \in Nat
  BY BoundsAssumption DEF IInv, TypeOK
<1>4. changes' \in 0..MaxChange
  BY <1>1, <1>3
<1>5. TypeOK'
  BY <1>1, <1>2, <1>4 DEF IInv, TypeOK
<1>6. CallInv'
  BY <1>1, <1>2, CallWitnessed DEF IInv
<1>7. QED BY <1>1, <1>2, <1>5, <1>6, NotPublishing DEF IInv

\* What a step of the client leaves alone.
LEMMA ClientFrame ==
  ASSUME ReadFile \/ Choose \/ Serve \/ Check \/ Run \/ Refuse
  PROVE  UNCHANGED <<file, mailbox, retired, lock, pub, ids, changes>>
BY DEF ReadFile, Choose, Serve, Check, Run, Refuse, Calling

\* The file is read: the copy is a catalogue, of the moment.
LEMMA ReadKeeps ==
  ASSUME IInv, ReadFile
  PROVE  call' \in Calls /\ CallInv' /\ UNCHANGED <<seen, alive, present>>
<1>1. /\ call \in Calls /\ file \in Catalogue /\ file.stamp = mailbox
      /\ call' = [call EXCEPT !.place = Reading[call.place], !.copy = file]
      /\ UNCHANGED <<file, mailbox, retired, seen, alive, present>>
  BY DEF ReadFile, Calling, Loadable, IInv, TypeOK, ghosts
<1>2. /\ call.place \in {"discover", "serve", "servereads", "call", "callreads"}
      /\ Reading[call.place] \in {"dirrows", "servereads", "serverows", "callreads", "callrows"}
      /\ call.place = "discover" <=> Reading[call.place] = "dirrows"
      /\ call.place \in {"call", "callreads"} <=> Reading[call.place] \in {"callreads", "callrows"}
  BY DEF ReadFile, Reading
<1> DEFINE w == Reading[call.place]
<1>3. /\ call'.place = w /\ call'.copy = file /\ call'.chosen = call.chosen
      /\ call'.served = call.served /\ call'.ran = call.ran /\ call' \in Calls
  BY <1>1, <1>2 DEF Calls
<1>4. Underway => /\ file \in seen /\ (Peer \cup {Sender}) \ retired \subseteq alive
                  /\ mailbox \in present
  BY <1>1, NoneAssumption DEF IInv, CallInv
<1>5. call.ran = None /\ (call.place # "discover" => call.chosen \in Bound)
  BY <1>2 DEF IInv, CallInv
<1> HIDE DEF w
<1>6. CallInv'
  BY <1>1, <1>2, <1>3, <1>4, <1>5 DEF CallInv, Underway, w
<1>7. QED BY <1>1, <1>3, <1>6

\* A profile is chosen from what the directory binds.
LEMMA ChooseKeeps ==
  ASSUME IInv, Choose
  PROVE  call' \in Calls /\ CallInv' /\ UNCHANGED <<seen, alive, present>>
<1>1. call \in Calls /\ call.place = "dirrows" /\ UNCHANGED <<file, mailbox, retired, seen, alive, present>>
  BY DEF Choose, Calling, IInv, TypeOK, ghosts
<1>2. PICK x \in Directory:
        call' = [call EXCEPT !.place = "serve", !.chosen = x, !.copy = None]
  BY DEF Choose, Calling
<1>3. call.copy \in Catalogue /\ call.ran = None
  BY <1>1 DEF IInv, CallInv
<1>4. x \in Bound
  BY <1>2, <1>3, DirectoryBinds
<1>5. call'.place = "serve" /\ call'.chosen = x /\ call'.ran = None /\ call' \in Calls
  BY <1>1, <1>2, <1>3, <1>4 DEF Calls
<1>6. CallInv'
  BY <1>4, <1>5 DEF CallInv, Underway
<1>7. QED BY <1>1, <1>5, <1>6

\* The call is sent: what happens from now on is witnessed.
LEMMA ServeKeeps ==
  ASSUME IInv, Serve
  PROVE  /\ call' \in Calls /\ CallInv'
         /\ seen' = {file} \ {None} /\ alive' \subseteq Peer \cup {Sender}
         /\ present' = {mailbox}
<1>1. /\ call \in Calls /\ call.place = "serverows" /\ UNCHANGED <<file, mailbox, retired>>
      /\ call' = [call EXCEPT !.place = "call", !.served = Directory, !.copy = None]
      /\ seen' = {file} \ {None} /\ alive' = (Peer \cup {Sender}) \ retired
      /\ present' = {mailbox}
  BY DEF Serve, Calling, IInv, TypeOK
<1>2. call.copy \in Catalogue /\ call.ran = None /\ call.chosen \in Bound
  BY <1>1 DEF IInv, CallInv
<1>3. Directory \subseteq Bound
  BY <1>2, DirectoryBinds
<1>4. /\ call'.place = "call" /\ call'.chosen = call.chosen /\ call'.ran = None
      /\ call' \in Calls
  BY <1>1, <1>2, <1>3 DEF Calls
<1>5. CallInv'
  BY <1>1, <1>2, <1>4 DEF CallInv, Underway
<1>6. QED BY <1>1, <1>4, <1>5

\* The last check: what it has read is a catalogue of while the call was under
\* way, and its rows are those of this moment.
LEMMA CheckKeeps ==
  ASSUME IInv, Check
  PROVE  call' \in Calls /\ CallInv' /\ UNCHANGED <<seen, alive, present>>
<1>1. /\ call \in Calls /\ call.place = "callrows" /\ UNCHANGED <<file, mailbox, retired, seen, alive, present>>
      /\ call' = [call EXCEPT !.place = "run", !.copy = None, !.served = None]
      /\ call.chosen \in Directory /\ Sender \notin retired
  BY DEF Check, Checked, SenderIsCurrent, Matches, Rows, Calling, IInv, TypeOK, ghosts
<1>2. /\ call.copy \in Catalogue /\ call.copy \in seen /\ call.ran = None
      /\ call.copy.stamp \in present /\ mailbox \in present
      /\ call.chosen \in Bound /\ (Peer \cup {Sender}) \ retired \subseteq alive
  BY <1>1 DEF IInv, CallInv, Underway
<1>3. /\ call.copy.gen = call.chosen.gen
      /\ call.copy.profiles[call.chosen.profile] = call.chosen.entry
      /\ call.chosen.entry.peer \in Peer \ retired
  BY <1>1, <1>2, DirectoryBinds
<1>4. Scope
  BY <1>1, <1>2, <1>3 DEF Scope
<1>5. /\ call'.place = "run" /\ call'.chosen = call.chosen /\ call'.ran = None
      /\ call' \in Calls
  BY <1>1, <1>2 DEF Calls
<1>6. Scope'
  BY <1>1, <1>4, <1>5 DEF Scope
<1>7. CallInv'
  BY <1>2, <1>5, <1>6 DEF CallInv, Underway
<1>8. QED BY <1>1, <1>5, <1>7

\* The command runs for the peer of the chosen profile.
LEMMA RunKeeps ==
  ASSUME IInv, Run
  PROVE  call' \in Calls /\ CallInv' /\ UNCHANGED <<seen, alive, present>>
<1>1. /\ call \in Calls /\ call.place = "run" /\ UNCHANGED <<file, mailbox, retired, seen, alive, present>>
      /\ call' = [call EXCEPT !.place = "done", !.ran = call.chosen.entry.peer]
  BY DEF Run, Calling, IInv, TypeOK, ghosts
<1>2. Scope /\ call.chosen \in Bound
  BY <1>1 DEF IInv, CallInv
<1>3. call.chosen.entry.peer \in Peer
  BY <1>2 DEF Bound, Entry
<1>4. /\ call'.place = "done" /\ call'.chosen = call.chosen
      /\ call'.ran = call.chosen.entry.peer /\ call' \in Calls
  BY <1>1, <1>3 DEF Calls
<1>5. Scope'
  BY <1>1, <1>2, <1>4 DEF Scope
<1>6. CallInv'
  BY <1>2, <1>4, <1>5 DEF CallInv, Underway
<1>7. QED BY <1>1, <1>4, <1>6

\* A step that failed leaves nothing.
LEMMA RefuseKeeps ==
  ASSUME IInv, Refuse
  PROVE  call' \in Calls /\ CallInv' /\ seen' = {} /\ alive' = {} /\ present' = {}
<1>1. /\ call \in Calls /\ call.place # "done" /\ seen' = {} /\ alive' = {} /\ present' = {}
      /\ call' = [call EXCEPT !.place = "discover", !.chosen = None, !.served = None,
                              !.copy = None]
  BY DEF Refuse, Calling, IInv, TypeOK
<1>2. call.ran = None
  BY <1>1 DEF IInv, CallInv
<1>3. call'.place = "discover" /\ call'.ran = None /\ call' \in Calls
  BY <1>1, <1>2 DEF Calls
<1>4. CallInv'
  BY <1>3 DEF CallInv, Underway
<1>5. QED BY <1>1, <1>3, <1>4

\* The client keeps the invariant.
LEMMA ClientKeeps ==
  ASSUME IInv, ReadFile \/ Choose \/ Serve \/ Check \/ Run \/ Refuse
  PROVE  IInv'
<1>1. UNCHANGED <<file, mailbox, retired, lock, pub, ids, changes>>
  BY ClientFrame
<1>2. /\ file \in Catalogue \cup {None} /\ seen \subseteq Catalogue
      /\ alive \subseteq Peer \cup {Sender} /\ present \subseteq 1..MaxChange + 1
      /\ mailbox \in 1..MaxChange + 1
  BY DEF IInv, TypeOK
<1>3. /\ call' \in Calls /\ CallInv'
      /\ seen' \subseteq seen \cup ({file} \ {None}) /\ alive' \subseteq Peer \cup {Sender}
      /\ present' \subseteq 1..MaxChange + 1
  BY <1>2, ReadKeeps, ChooseKeeps, ServeKeeps, CheckKeeps, RunKeeps, RefuseKeeps
<1>4. CopyInv' /\ FreshInv' /\ BindingNamesOnePeer'
  BY <1>1, <1>2, <1>3, NotPublishing
<1>5. TypeOK'
  BY <1>1, <1>2, <1>3 DEF IInv, TypeOK
<1>6. QED BY <1>3, <1>4, <1>5 DEF IInv

-----------------------------------------------------------------------------
(* The theorems.                                                           *)

\* One profile is published at first, with the second id that was given out.
LEMMA InitHolds == Init => IInv
<1>1. SUFFICES ASSUME Init PROVE IInv
  OBVIOUS
<1>2. PICK q \in Profile, n \in Peer:
        file = [gen |-> 1, stamp |-> 1,
                profiles |-> [Unpublished EXCEPT ![q] = [peer |-> n, binding |-> 2]]]
  BY <1>1 DEF Init
<1> DEFINE e == [peer |-> n, binding |-> 2]
<1>3. /\ e \in Entry /\ 1 \in 1..MaxId /\ 1 \in 1..MaxChange + 1 /\ 2 \in 0..MaxId
      /\ 0 \in 0..MaxChange
  BY BoundsAssumption DEF Entry
<1>4. e.peer = n /\ e.binding = 2
  OBVIOUS
<1> HIDE DEF e
<1>5. file.profiles = [Unpublished EXCEPT ![q] = e] /\ file \in Catalogue
  BY <1>2, <1>3 DEF Catalogue, Unpublished, e
<1>6. /\ mailbox = 1 /\ retired = {} /\ lock = None /\ pub = [p \in Publisher |-> Idle]
      /\ ids = 2 /\ changes = 0 /\ seen = {} /\ alive = {} /\ present = {}
      /\ call = [place |-> "discover", copy |-> None, chosen |-> None, served |-> None,
                 ran |-> None]
  BY <1>1 DEF Init
<1>7. Idle \in Work /\ Idle.place = "idle" /\ Idle.copy = None
  BY DEF Idle, Work
<1>8. \A p \in Publisher: pub[p].place = "idle" /\ pub[p].copy = None
  BY <1>6, <1>7
<1>9. call \in Calls
  BY <1>6 DEF Calls
<1>10. TypeOK
  BY <1>3, <1>5, <1>6, <1>7, <1>8, <1>9, NoneAssumption DEF TypeOK
<1>11. CopyInv
  BY <1>6, <1>8 DEF CopyInv
<1>12. \A c \in Live: \A r \in Profile: c.profiles[r] # None => r = q /\ c.profiles[r] = e
  BY <1>5, <1>6, <1>8 DEF Live, Unpublished
<1>13. FreshInv
  BY <1>4, <1>6, <1>12 DEF FreshInv
<1>14. BindingNamesOnePeer
  BY <1>12 DEF BindingNamesOnePeer
<1>15. CallInv
  BY <1>6 DEF CallInv, Underway
<1>16. QED BY <1>10, <1>11, <1>13, <1>14, <1>15 DEF IInv

\* Each step keeps the invariant.
LEMMA StepKeeps == IInv /\ [Next]_vars => IInv'
<1>1. SUFFICES ASSUME IInv, [Next]_vars PROVE IInv'
  OBVIOUS
<1>2. CASE \E p \in Publisher: Lock(p) \/ Load(p) \/ Edit(p) \/ Save(p) \/ GiveUp(p)
  BY <1>1, <1>2, PublisherKeeps
<1>3. CASE ReadFile \/ Choose \/ Serve \/ Check \/ Run \/ Refuse
  BY <1>1, <1>3, ClientKeeps
<1>4. CASE Retire \/ ReplaceMailbox \/ Remove
  BY <1>1, <1>4, OthersKeep
<1>5. CASE UNCHANGED vars
  <2>1. UNCHANGED <<file, mailbox, retired, lock, pub, ids, changes, call, seen, alive, present>>
    BY <1>5 DEF vars, ghosts
  <2>2. TypeOK'
    BY <1>1, <2>1 DEF IInv, TypeOK
  <2>3. CallInv'
    BY <1>1, <2>1, CallWitnessed DEF IInv, CallInv
  <2>4. CopyInv' /\ FreshInv' /\ BindingNamesOnePeer'
    <3>1. CopyInv'
      BY <1>1, <2>1 DEF IInv, CopyInv
    <3>2. Live' = Live
      BY <2>1 DEF Live
    <3>3. QED BY <1>1, <2>1, <3>1, <3>2, BindingsUnchanged DEF IInv
  <2>5. QED BY <2>2, <2>3, <2>4 DEF IInv
<1>6. QED BY <1>1, <1>2, <1>3, <1>4, <1>5 DEF Next

\* The invariant holds in every state of the catalogue, its publishers and the
\* client (profile.rs, binding.rs, endpoint.rs).
THEOREM Inductive == Spec => []IInv
<1>1. QED BY InitHolds, StepKeeps, PTL DEF Spec

\* A command runs only for the peer of the profile that was chosen, bound so by a
\* catalogue of while the call was under way (endpoint.rs:95-115).
THEOREM ScopeIsHeld == Spec => []ScopeHeld
<1>1. IInv => ScopeHeld
  BY DEF IInv, CallInv, Scope, ScopeHeld
<1>2. QED BY <1>1, Inductive, PTL

\* Whatever is published and withdrawn, an id stands for one profile and one peer
\* in all that can be read (profile.rs:282-288).
THEOREM BindingsStayPinned == Spec => []BindingsArePinned
<1>1. IInv => BindingsArePinned
  BY DEF IInv, BindingsArePinned
<1>2. QED BY <1>1, Inductive, PTL

\* A publisher that saves leaves what the others have saved, whoever wrote the
\* file since it took the lock (profile.rs:164-197).
THEOREM NoPublicationIsLost == Spec => NoLostPublication
<1> DEFINE Kept == \A p \in Publisher:
             pub[p].place = "save" /\ pub'[p].place = "idle" /\ file' # file /\ file # None
               => \A q \in Profile \ {pub[p].profile}: file'.profiles[q] = file.profiles[q]
<1>1. IInv /\ [Next]_vars => [Kept]_vars
  <2>1. SUFFICES ASSUME IInv, Next, NEW p \in Publisher, pub[p].place = "save",
                        pub'[p].place = "idle", file' # file, file # None,
                        NEW q \in Profile \ {pub[p].profile}
                 PROVE  file'.profiles[q] = file.profiles[q]
    OBVIOUS
  <2>2. CASE \E r \in Publisher: Lock(r) \/ Load(r) \/ Edit(r) \/ Save(r) \/ GiveUp(r)
    <3>1. PICK r \in Publisher: Lock(r) \/ Load(r) \/ Edit(r) \/ Save(r) \/ GiveUp(r)
      BY <2>2
    <3>2. Save(r)
      BY <2>1, <3>1, PublisherFrame
    <3>3. pub[r].place = "save" /\ file' = pub[r].copy
      BY <3>2 DEF Save, Publishing
    <3>4. r = p
      BY <2>1, <3>3, HolderSteps
    <3>5. QED BY <2>1, <3>3, <3>4 DEF IInv, CopyInv
  <2>3. CASE ReadFile \/ Choose \/ Serve \/ Check \/ Run \/ Refuse
    BY <2>1, <2>3, ClientFrame
  <2>4. CASE Retire \/ ReplaceMailbox \/ Remove
    <3>1. pub' = pub
      BY <2>4 DEF Retire, ReplaceMailbox, Remove, Other
    <3>2. QED BY <2>1, <3>1
  <2>5. QED BY <2>1, <2>2, <2>3, <2>4 DEF Next
<1>2. QED BY <1>1, Inductive, PTL DEF Spec, NoLostPublication
=============================================================================
