---------------------------- MODULE ProcessesProofs ----------------------------
(***************************************************************************)
(* Proofs about the parts of Processes, the sidecar first, for any number  *)
(* of clients, children and calls and every value of their bounds.         *)
(***************************************************************************)
EXTENDS Processes, FiniteSetTheorems, SequenceTheorems, NaturalsInduction,
        WellFoundedInduction, TLAPS

(***************************************************************************)
(* The sidecar: the invariant.                                             *)
(***************************************************************************)

\* Children are numbered in the order they were forked.
InOrder == /\ Side!Newest \in 0..MaxChildren
           /\ \A k \in Side!Children : child[k] # "none" <=> k <= Side!Newest

\* pid_ names the newest child or none, none from the moment the monitor has found
\* it dead to the next fork, and a child executes only while pid_ names it.
InHand ==
    /\ \A k \in Side!Children : Side!Executes(k) => pid = k
    /\ pid \in {Side!NoChild, Side!Newest} /\ victim \in 0..Side!Newest
    /\ IF owner = "fresh" THEN pid = Side!NoChild ELSE Side!Newest # 0
    /\ monitor \in {"backoff", "reopening", "spawning"} => pid = Side!NoChild

\* No fork comes while there is a connection.
Unlinked == owner \in {"fresh", "accepting"} \/ monitor \in {"spawning", "accepting"}
                => handle = Side!NoChild /\ ~port

\* Stop and the monitor: what each may rely on about the other.
Ending ==
    /\ owner \in {"fresh", "accepting", "failed"} => monitor = "none"
    /\ owner \in {"killing", "waiting", "joining", "closing", "down"} => stopping /\ ~running
    /\ owner = "waiting" => /\ monitor \notin {"backoff", "reopening", "spawning"}
                            /\ pid \in {victim, Side!NoChild}
    /\ owner \in {"closing", "down"} => monitor = "exited"
    /\ owner = "down" => handle = Side!NoChild /\ ~port /\ pid_file = Side!NoChild

\* A restart is tried only while one is left.
Left == monitor \in {"backoff", "reopening", "spawning", "accepting"} => restarts < MaxRestarts

Links == [inbox : Seq([source : Side!Sources, part : Side!Parts]), owed : [Side!Sources -> Nat],
          torn : BOOLEAN]

\* A connection on which no read stopped half way carries what the waiting call
\* is owed, and nothing when no call waits for an answer over it.
Spotless ==
    IF reader = Side!Nobody \/ writing \/ handle = Side!Stray
    THEN link.inbox = <<>> /\ link.owed = [s \in Side!Sources |-> 0]
    ELSE /\ link.owed["other"] = 0
         /\ \/ link.inbox = <<>> /\ link.owed["own"] = 1
            \/ /\ link.inbox = <<[source |-> "own", part |-> "whole"]>>
               /\ link.owed["own"] = 0

Talk == /\ link \in Links
        /\ reader # Side!Nobody => handle # Side!NoChild
        /\ writing => reader # Side!Nobody /\ handle \in Side!Children
        /\ ~link.torn => Spotless

\* What a call may do to the handle: keep it, close it, or have connect_ipc leave a
\* stray descriptor.
HandleMoves ==
    /\ UNCHANGED <<port, inherited>>
    /\ handle' \in {handle, Side!NoChild} \/ (port /\ handle' = Side!Stray)

Living == InOrder /\ InHand /\ Unlinked /\ Ending /\ Left /\ Side!ConnectionIsCurrent
SideInv  == Side!TypeOK /\ Living /\ Talk

(***************************************************************************)
(* Children and links.                                                     *)
(***************************************************************************)

LEMMA NewestIs ==
    ASSUME NEW n \in Nat, NEW f, {k \in Side!Children : f[k] # "none"} = 1..n
    PROVE  Side!Cardinality({k \in Side!Children : f[k] # "none"}) = n
<1>1. Cardinality(1..n) = IF 1 > n THEN 0 ELSE n - 1 + 1
  BY FS_Interval
<1>2. Cardinality(1..n) = n
  BY <1>1
<1>3. Side!Cardinality(1..n) = Cardinality(1..n)
  BY DEF Side!Cardinality, Cardinality
<1> QED
  BY <1>2, <1>3

\* A step that forks nobody keeps the order.
LEMMA OrderKept ==
    ASSUME Side!SidecarAssumption, InOrder,
           \A k \in Side!Children : child'[k] # "none" <=> child[k] # "none"
    PROVE  InOrder' /\ Side!Newest' = Side!Newest
<1>1. {k \in Side!Children : child'[k] # "none"} = {k \in Side!Children : child[k] # "none"}
  OBVIOUS
<1>2. Side!Newest' = Side!Newest
  BY <1>1 DEF Side!Newest
<1> QED
  BY <1>2 DEF InOrder

LEMMA ForkOrder ==
    ASSUME Side!SidecarAssumption, Side!TypeOK, InOrder, Side!Fork
    PROVE  InOrder' /\ Side!Newest' = Side!Newest + 1 /\ Side!Newest + 1 \in Side!Children
<1>1. Side!Newest \in Nat /\ MaxChildren \in Nat /\ Side!Newest < MaxChildren
  BY DEF InOrder, Side!SidecarAssumption, Side!Fork
<1>2. Side!Newest + 1 \in Side!Children
  BY <1>1 DEF Side!Children
<1>3. \A k \in Side!Children : child'[k] # "none" <=> child[k] # "none" \/ k = Side!Newest + 1
  BY <1>2 DEF Side!Fork, Side!TypeOK
<1>4. \A k \in Side!Children : k \in Nat /\ (child'[k] # "none" <=> k <= Side!Newest + 1)
  BY <1>1, <1>3 DEF InOrder, Side!Children
<1>5. {k \in Side!Children : child'[k] # "none"} = 1..(Side!Newest + 1)
  BY <1>1, <1>4 DEF Side!Children
<1>6. Side!Newest' = Side!Newest + 1
  BY <1>1, <1>5, NewestIs DEF Side!Newest
<1> QED
  BY <1>1, <1>2, <1>4, <1>6 DEF InOrder

LEMMA IsSequence ==
    ASSUME NEW S, NEW n \in Nat, NEW f, \A i \in 1..n : f[i] \in S, f = [i \in 1..n |-> f[i]]
    PROVE  f \in Seq(S)
<1>1. f \in [1..n -> S]
  OBVIOUS
<1> QED
  BY <1>1

LEMMA HeadAndTail ==
    ASSUME NEW S, NEW q \in Seq(S), q # <<>>
    PROVE  Head(q) \in S /\ Tail(q) \in Seq(S)
  OBVIOUS

LEMMA ElementOf ==
    ASSUME NEW S, NEW q \in Seq(S), NEW i \in DOMAIN q
    PROVE  q[i] \in S
  OBVIOUS

LEMMA StrayIsNone ==
    ASSUME Side!SidecarAssumption
    PROVE  Side!Stray \notin Side!Children /\ Side!Stray # Side!NoChild
           /\ Side!NoChild \notin Side!Children
  BY DEF Side!SidecarAssumption, Side!Stray, Side!Children, Side!NoChild

LEMMA NewLinkTalk ==
    /\ Side!NewLink \in Links /\ ~Side!NewLink.torn
    /\ Side!NewLink.inbox = <<>> /\ Side!NewLink.owed = [s \in Side!Sources |-> 0]
  BY DEF Side!NewLink, Links, Side!Sources, Side!Parts

LEMMA LinkType == ASSUME link' \in Links
                  PROVE  /\ link'.inbox \in Seq([source : Side!Sources, part : Side!Parts])
                         /\ link'.owed \in [Side!Sources -> Nat] /\ link'.torn \in BOOLEAN
  BY DEF Links

\* The steps that touch neither the connection nor who waits on it.
LEMMA TalkKept ==
    ASSUME Talk, UNCHANGED <<link, reader, writing, handle>>
    PROVE  Talk'
  BY DEF Talk, Spotless

\* A new connection, or none, while nobody waits on the old one.
LEMMA TalkRenewed ==
    ASSUME Talk, reader = Side!Nobody, UNCHANGED <<reader, writing>>, link' = Side!NewLink
    PROVE  Talk'
  BY NewLinkTalk DEF Talk, Spotless

LEMMA InvInit == ASSUME Side!SidecarAssumption PROVE Side!Init => SideInv
<1> SUFFICES ASSUME Side!Init PROVE SideInv
  OBVIOUS
<1>1. Side!TypeOK
  <2>1. /\ link.inbox \in Seq([source : Side!Sources, part : Side!Parts])
        /\ link.owed \in [Side!Sources -> Nat] /\ link.torn \in BOOLEAN
    BY NewLinkTalk DEF Side!Init, Links
  <2>2. wants \subseteq Side!Threads /\ reader \in Side!Threads \cup {Side!Nobody}
    BY DEF Side!Init
  <2>3. child \in [Side!Children -> {"none", "booting", "serving", "leaving", "zombie", "gone"}]
    BY DEF Side!Init
  <2>4. /\ restarts \in 0..MaxRestarts
        /\ {pid, victim, pid_file} \subseteq Side!Children \cup {Side!NoChild}
        /\ handle \in Side!Children \cup {Side!NoChild, Side!Stray}
    BY DEF Side!Init, Side!SidecarAssumption
  <2>5. /\ owner \in {"fresh"} /\ monitor \in {"none"} /\ outcome \in {"none"}
        /\ running \in BOOLEAN /\ stopping \in BOOLEAN /\ autoreap \in BOOLEAN
        /\ port \in BOOLEAN /\ inherited \in BOOLEAN /\ writing \in BOOLEAN
    BY DEF Side!Init
  <2> QED
    BY <2>1, <2>2, <2>3, <2>4, <2>5 DEF Side!TypeOK
<1>2. InOrder
  <2>1. {k \in Side!Children : child[k] # "none"} = 1..0
    BY DEF Side!Init
  <2>2. Side!Newest = 0
    BY <2>1, NewestIs DEF Side!Newest
  <2> QED
    BY <2>2 DEF Side!Init, InOrder, Side!SidecarAssumption, Side!Children
<1>3. InHand
  <2>1. victim \in 0..Side!Newest
    BY <1>2 DEF Side!Init, InOrder, Side!NoChild
  <2> QED
    BY <2>1 DEF Side!Init, InHand, Side!Executes
<1>4. Living
  BY <1>2, <1>3, StrayIsNone DEF Side!Init, Living, Unlinked, Ending, Left, Side!ConnectionIsCurrent
<1>5. Talk
  BY NewLinkTalk DEF Side!Init, Talk, Spotless
<1> QED
  BY <1>1, <1>4, <1>5 DEF SideInv

(***************************************************************************)
(* The steps of callers and of children.                                   *)
(***************************************************************************)

\* Life is not disturbed by children that stop executing, nor by the end of a
\* connection.
LEMMA LifeKept ==
    ASSUME Side!SidecarAssumption, Living,
           UNCHANGED <<Side!lifeVars, monitor, restarts, pid, pid_file>>,
           \A k \in Side!Children : child'[k] # "none" <=> child[k] # "none",
           \A k \in Side!Children : Side!Executes(k)' => Side!Executes(k),
           HandleMoves
    PROVE  Living'
<1> USE DEF Side!lifeVars
<1>1. InOrder' /\ Side!Newest' = Side!Newest
  BY OrderKept DEF Living
<1>2. InHand'
  BY <1>1 DEF Living, InHand
<1>3. Unlinked' /\ Ending' /\ Left'
  BY DEF Living, Unlinked, Ending, Left, HandleMoves
<1>4. Side!ConnectionIsCurrent'
  BY StrayIsNone DEF Living, Side!ConnectionIsCurrent, HandleMoves, Side!Children
<1> QED
  BY <1>1, <1>2, <1>3, <1>4 DEF Living

\* What a call does to the life of the children is at most to end the
\* connection.
LEMMA CallLife ==
    ASSUME Side!SidecarAssumption, Living, UNCHANGED <<Side!lifeVars, monitor, restarts, Side!childVars>>,
           HandleMoves
    PROVE  Living'
<1>1. UNCHANGED <<pid, pid_file, child>>
  BY DEF Side!childVars
<1>2. \A k \in Side!Children : Side!Executes(k)' => Side!Executes(k)
  BY <1>1 DEF Side!Executes
<1> QED
  BY <1>1, <1>2, LifeKept

\* The types of what a call touches are all that can change.
LEMMA CallType ==
    ASSUME Side!TypeOK, UNCHANGED <<Side!lifeVars, monitor, restarts, Side!childVars, autoreap>>,
           HandleMoves, link' \in Links, writing' \in BOOLEAN,
           wants' \subseteq Side!Threads, reader' \in Side!Threads \cup {Side!Nobody},
           outcome' \in {"none", "error"} \cup Side!Sources
    PROVE  Side!TypeOK'
  BY DEF Side!TypeOK, Side!lifeVars, Side!childVars, Links, HandleMoves

LEMMA AskInv ==
    ASSUME Side!SidecarAssumption, SideInv, NEW t \in Side!Threads, Side!Ask(t)
    PROVE  SideInv'
<1>1. UNCHANGED <<handle, port, link, inherited, reader, writing, outcome>> /\ HandleMoves
  BY DEF Side!Ask, Side!linkVars, HandleMoves
<1>2. Living'
  BY <1>1, CallLife DEF SideInv, Side!Ask
<1>3. Talk'
  BY <1>1, TalkKept DEF SideInv, Side!Ask
<1>4. Side!TypeOK'
  BY <1>1, CallType DEF SideInv, Side!Ask, Side!TypeOK, Talk
<1> QED
  BY <1>2, <1>3, <1>4 DEF SideInv

\* What was on its way becomes that of others.
LEMMA AgedIs ==
    ASSUME link \in Links,
           ~link.torn => link.inbox = <<>> /\ link.owed = [s \in Side!Sources |-> 0]
    PROVE  /\ Side!Aged \in Links
           /\ ~Side!Aged.torn => /\ Side!Aged.inbox = <<>> /\ Side!Aged.owed["own"] = 1
                                 /\ Side!Aged.owed["other"] = 0
<1>1. Side!Aged \in Links
  <2>1. [i \in DOMAIN link.inbox |-> [link.inbox[i] EXCEPT !.source = "other"]]
            \in Seq([source : Side!Sources, part : Side!Parts])
    <3>1. link.inbox \in Seq([source : Side!Sources, part : Side!Parts])
      BY DEF Links
    <3>2. DOMAIN link.inbox = 1..Len(link.inbox) /\ Len(link.inbox) \in Nat
      BY <3>1
    <3>3. \A i \in DOMAIN link.inbox :
              [link.inbox[i] EXCEPT !.source = "other"] \in [source : Side!Sources, part : Side!Parts]
      <4> TAKE i \in DOMAIN link.inbox
      <4>1. link.inbox[i] \in [source : Side!Sources, part : Side!Parts]
        BY <3>1, ElementOf
      <4> QED
        BY <4>1 DEF Side!Sources
    <3> DEFINE f == [i \in DOMAIN link.inbox |-> [link.inbox[i] EXCEPT !.source = "other"]]
    <3>4. f = [i \in 1..Len(link.inbox) |-> f[i]]
      BY <3>2
    <3>5. \A i \in 1..Len(link.inbox) : f[i] \in [source : Side!Sources, part : Side!Parts]
      BY <3>2, <3>3
    <3> HIDE DEF f
    <3>6. f \in Seq([source : Side!Sources, part : Side!Parts])
      BY <3>2, <3>4, <3>5, IsSequence
    <3> QED
      BY <3>6 DEF f
  <2>2. [own |-> 1, other |-> link.owed.own + link.owed.other] \in [Side!Sources -> Nat]
    BY DEF Links, Side!Sources
  <2> QED
    BY <2>1, <2>2 DEF Side!Aged, Links
<1>2. ASSUME ~Side!Aged.torn
      PROVE  Side!Aged.inbox = <<>> /\ Side!Aged.owed["own"] = 1 /\ Side!Aged.owed["other"] = 0
  <2>1. ~link.torn
    BY <1>2 DEF Side!Aged, Links
  <2>2. link.inbox = <<>> /\ link.owed = [s \in Side!Sources |-> 0]
    BY <2>1
  <2>3. link.owed.own = 0 /\ link.owed.other = 0
    BY <2>2 DEF Side!Sources
  <2>4. Side!Aged.inbox = [i \in DOMAIN link.inbox |-> [link.inbox[i] EXCEPT !.source = "other"]]
    BY DEF Side!Aged, Links
  <2>5. Side!Aged.owed = [own |-> 1, other |-> link.owed.own + link.owed.other]
    BY DEF Side!Aged, Links
  <2> QED
    BY <2>2, <2>3, <2>4, <2>5
<1> QED
  BY <1>1, <1>2

\* A request takes a connection on which nothing is on its way to one on which
\* only its own answer is, or to a wait for room.
LEMMA RequestInv ==
    ASSUME Side!SidecarAssumption, SideInv, NEW t \in Side!Threads, Side!Request(t)
    PROVE  SideInv'
<1>1. /\ UNCHANGED <<Side!lifeVars, monitor, restarts, Side!childVars, autoreap>>
      /\ HandleMoves /\ wants' = wants \ {t} /\ reader = Side!Nobody
      /\ reader' \in {Side!Nobody, t} /\ outcome' \in {"none", "error"}
  BY DEF Side!Request, Side!Unconnected, Side!Send, Side!WriteFails, Side!Locks, HandleMoves
<1>2. Living'
  BY <1>1, CallLife DEF SideInv
<1>3. t # Side!Nobody /\ ~writing /\ writing \in BOOLEAN /\ link \in Links
      /\ (~link.torn => link.inbox = <<>> /\ link.owed = [s \in Side!Sources |-> 0])
  BY <1>1 DEF SideInv, Side!TypeOK, Talk, Spotless, Side!Threads, Side!SidecarAssumption,
              Side!Monitor, Side!Nobody
<1>4. CASE Side!Unconnected(t)
  <2>1. UNCHANGED <<link, writing>> /\ (handle' = Side!Stray \/ reader' = Side!Nobody)
    BY <1>1, <1>4 DEF Side!Unconnected
  <2>2. reader' # Side!Nobody => handle' = Side!Stray
    BY <2>1
  <2>3. Talk'
    BY <1>3, <2>1, <2>2, StrayIsNone DEF Talk, Spotless
  <2>4. Side!TypeOK'
    BY <1>1, <1>3, <2>1, CallType DEF SideInv, Side!TypeOK
  <2> QED
    BY <1>2, <2>3, <2>4 DEF SideInv
<1>5. CASE Side!Send(t)
  <2>1. /\ reader' = t /\ handle' = handle /\ handle \in Side!Children
        /\ \/ writing' = FALSE /\ link' = Side!Aged
           \/ writing' = TRUE /\ link' = link
    BY <1>5 DEF Side!Send
  <2>2. link' \in Links /\ writing' \in BOOLEAN
    BY <1>3, <2>1, AgedIs
  <2>3. Talk'
    BY <1>3, <2>1, <2>2, AgedIs, StrayIsNone DEF Talk, Spotless
  <2>4. Side!TypeOK'
    BY <1>1, <2>2, CallType DEF SideInv, Side!TypeOK
  <2> QED
    BY <1>2, <2>3, <2>4 DEF SideInv
<1>6. CASE Side!WriteFails(t)
  <2>1. link' = Side!NewLink /\ UNCHANGED <<reader, writing>>
    BY <1>6 DEF Side!WriteFails
  <2>2. Talk'
    BY <2>1, <1>1, TalkRenewed DEF SideInv
  <2>3. Side!TypeOK'
    BY <1>1, <1>3, <2>1, NewLinkTalk, CallType DEF SideInv, Side!TypeOK
  <2> QED
    BY <1>2, <2>2, <2>3 DEF SideInv
<1> QED
  BY <1>4, <1>5, <1>6 DEF Side!Request

\* The rest of the request is written.
LEMMA WriteGoesOnInv ==
    ASSUME Side!SidecarAssumption, SideInv, NEW t \in Side!Threads, Side!WriteGoesOn(t)
    PROVE  SideInv'
<1>1. /\ UNCHANGED <<Side!lifeVars, monitor, restarts, Side!childVars, autoreap, handle, port,
                     inherited, wants, reader, outcome>>
      /\ reader = t /\ writing /\ writing' = FALSE /\ link' = Side!Aged
  BY DEF Side!WriteGoesOn
<1>2. /\ link \in Links /\ handle \in Side!Children /\ reader # Side!Nobody
      /\ ~link.torn => link.inbox = <<>> /\ link.owed = [s \in Side!Sources |-> 0]
  BY <1>1 DEF SideInv, Talk, Spotless
<1>3. HandleMoves
  BY <1>1 DEF HandleMoves
<1>4. Living'
  BY <1>1, <1>3, CallLife DEF SideInv
<1>5. Talk'
  BY <1>1, <1>2, AgedIs, StrayIsNone DEF Talk, Spotless
<1>6. Side!TypeOK'
  BY <1>1, <1>2, <1>3, AgedIs, CallType DEF SideInv, Side!TypeOK
<1> QED
  BY <1>4, <1>5, <1>6 DEF SideInv

\* A call returns without a connection.
LEMMA EndsWithout ==
    ASSUME Side!SidecarAssumption, SideInv, NEW t \in Side!Threads,
           Side!Returns(t, "error"), handle' = Side!NoChild, link' = Side!NewLink
    PROVE  SideInv'
<1>1. /\ UNCHANGED <<Side!lifeVars, monitor, restarts, Side!childVars, autoreap, wants>>
      /\ reader' = Side!Nobody /\ outcome' = "error" /\ writing' = FALSE /\ HandleMoves
  BY DEF Side!Returns, HandleMoves
<1>2. Living'
  BY <1>1, CallLife DEF SideInv
<1>3. Talk'
  BY <1>1, NewLinkTalk DEF Talk, Spotless
<1>4. Side!TypeOK'
  BY <1>1, NewLinkTalk, CallType DEF SideInv, Side!TypeOK
<1> QED
  BY <1>2, <1>3, <1>4 DEF SideInv

\* A read of a descriptor that is not the manager's.
LEMMA ReadStrayInv ==
    ASSUME Side!SidecarAssumption, SideInv, NEW t \in Side!Threads, Side!ReadStray(t)
    PROVE  SideInv'
<1>1. /\ UNCHANGED <<Side!lifeVars, monitor, restarts, Side!childVars, autoreap, wants, link>>
      /\ reader' = Side!Nobody /\ outcome' \in {"error", "other"} /\ writing' = FALSE
      /\ handle = Side!Stray /\ HandleMoves
  BY DEF Side!ReadStray, Side!Returns, HandleMoves
<1>2. /\ link \in Links
      /\ ~link.torn => link.inbox = <<>> /\ link.owed = [s \in Side!Sources |-> 0]
  BY <1>1 DEF SideInv, Talk, Spotless
<1>3. Living'
  BY <1>1, CallLife DEF SideInv
<1>4. Talk'
  BY <1>1, <1>2 DEF Talk, Spotless
<1>5. Side!TypeOK'
  BY <1>1, <1>2, CallType DEF SideInv, Side!TypeOK, Side!Sources
<1> QED
  BY <1>3, <1>4, <1>5 DEF SideInv

\* The four ways a read ends: with the line, with a part of it, with nothing.
LEMMA ReadLineInv ==
    ASSUME Side!SidecarAssumption, SideInv, NEW t \in Side!Threads, Side!ReadLine(t),
           handle \in Side!Children, ~writing
    PROVE  SideInv'
<1>1. /\ UNCHANGED <<Side!lifeVars, monitor, restarts, Side!childVars, autoreap, wants, handle>>
      /\ reader = t /\ reader' = Side!Nobody /\ link.inbox # <<>>
      /\ writing' = FALSE /\ HandleMoves
      /\ link' = [link EXCEPT !.inbox = Tail(@)]
      /\ outcome' \in {"error", Head(link.inbox).source}
  BY DEF Side!ReadLine, Side!Returns, HandleMoves
<1>2. /\ link.inbox \in Seq([source : Side!Sources, part : Side!Parts]) /\ link \in Links
      /\ Head(link.inbox) \in [source : Side!Sources, part : Side!Parts]
      /\ Tail(link.inbox) \in Seq([source : Side!Sources, part : Side!Parts])
  <2>1. link \in Links /\ link.inbox \in Seq([source : Side!Sources, part : Side!Parts])
    BY DEF SideInv, Talk, Links
  <2> QED
    BY <2>1, <1>1, HeadAndTail
<1>3. link' \in Links /\ link'.inbox = Tail(link.inbox) /\ link'.owed = link.owed
      /\ link'.torn = link.torn
  <2>1. link' = [inbox |-> Tail(link.inbox), owed |-> link.owed, torn |-> link.torn]
    BY <1>1, <1>2 DEF Links
  <2> QED
    BY <1>2, <2>1 DEF Links
<1>4. Living'
  BY <1>1, CallLife DEF SideInv
<1>5. ASSUME ~link'.torn
      PROVE  link'.inbox = <<>> /\ link'.owed = [s \in Side!Sources |-> 0]
  <2>1. reader # Side!Nobody /\ ~link.torn
    BY <1>1, <1>3, <1>5 DEF Side!SidecarAssumption, Side!Threads, Side!Monitor, Side!Nobody
  <2>2. /\ link.owed["other"] = 0 /\ link.owed["own"] = 0
        /\ link.inbox = <<[source |-> "own", part |-> "whole"]>>
    BY <1>1, <2>1, StrayIsNone DEF SideInv, Talk, Spotless
  <2> QED
    BY <1>2, <1>3, <2>2 DEF Links, Side!Sources
<1>6. Talk'
  BY <1>1, <1>3, <1>5 DEF Talk, Spotless
<1>7. Side!TypeOK'
  BY <1>1, <1>2, <1>3, CallType DEF SideInv, Side!TypeOK
<1> QED
  BY <1>4, <1>6, <1>7 DEF SideInv

LEMMA ReadPartInv ==
    ASSUME Side!SidecarAssumption, SideInv, NEW t \in Side!Threads, Side!ReadPart(t),
           handle \in Side!Children, ~writing
    PROVE  SideInv'
<1>1. /\ UNCHANGED <<Side!lifeVars, monitor, restarts, Side!childVars, autoreap, wants, handle>>
      /\ reader' = Side!Nobody /\ link.inbox # <<>>
      /\ writing' = FALSE /\ HandleMoves
      /\ link' = [link EXCEPT !.inbox[1].part = "rest", !.torn = TRUE]
      /\ outcome' \in {"error", Head(link.inbox).source}
  BY DEF Side!ReadPart, Side!Returns, HandleMoves
<1>2. /\ link.inbox \in Seq([source : Side!Sources, part : Side!Parts]) /\ link \in Links
      /\ Head(link.inbox) \in [source : Side!Sources, part : Side!Parts]
  <2>1. link \in Links /\ link.inbox \in Seq([source : Side!Sources, part : Side!Parts])
    BY DEF SideInv, Talk, Links
  <2> QED
    BY <2>1, <1>1, HeadAndTail
<1>3. [link.inbox EXCEPT ![1].part = "rest"] \in Seq([source : Side!Sources, part : Side!Parts])
  <2>1. 1 \in DOMAIN link.inbox /\ Len(link.inbox) \in Nat
        /\ DOMAIN link.inbox = 1..Len(link.inbox)
    BY <1>1, <1>2
  <2>2. [link.inbox[1] EXCEPT !.part = "rest"] \in [source : Side!Sources, part : Side!Parts]
    BY <2>1, <1>2 DEF Side!Parts
  <2> QED
    BY <2>1, <2>2, <1>2
<1>4. link' \in Links /\ link'.torn
  <2>1. link' = [inbox |-> [link.inbox EXCEPT ![1].part = "rest"], owed |-> link.owed,
                 torn |-> TRUE]
    BY <1>1, <1>2 DEF Links
  <2> QED
    BY <1>2, <1>3, <2>1 DEF Links
<1>5. Living'
  BY <1>1, CallLife DEF SideInv
<1>6. Talk'
  BY <1>1, <1>4 DEF Talk
<1>7. Side!TypeOK'
  BY <1>1, <1>2, <1>4, CallType DEF SideInv, Side!TypeOK
<1> QED
  BY <1>5, <1>6, <1>7 DEF SideInv

LEMMA ReadNothingInv ==
    ASSUME Side!SidecarAssumption, SideInv, NEW t \in Side!Threads,
           Side!ReadNothing(t) \/ Side!WriteBreaks(t)
    PROVE  SideInv'
  BY EndsWithout DEF Side!ReadNothing, Side!WriteBreaks

\* The child answers what it owes: on a connection without a torn line that is
\* the answer the reader waits for.
LEMMA AnswerInv ==
    ASSUME Side!SidecarAssumption, SideInv, NEW s \in Side!Sources, Side!Answer(s)
    PROVE  SideInv'
<1> DEFINE it == [source |-> s, part |-> "whole"]
<1>1. /\ UNCHANGED <<Side!lifeVars, monitor, restarts, Side!childVars, autoreap, handle, port,
                     inherited, wants, reader, writing, outcome>>
      /\ link.owed[s] > 0 /\ handle \in Side!Children
      /\ link' = [link EXCEPT !.owed[s] = @ - 1, !.inbox = Append(@, it)]
      /\ HandleMoves
  BY DEF Side!Answer, Side!callVars, HandleMoves
<1>2. link \in Links /\ it \in [source : Side!Sources, part : Side!Parts]
  BY DEF SideInv, Talk, Side!Parts
<1>3. /\ [link.owed EXCEPT ![s] = @ - 1] \in [Side!Sources -> Nat]
      /\ Append(link.inbox, it) \in Seq([source : Side!Sources, part : Side!Parts])
  BY <1>1, <1>2 DEF Links
<1>4. /\ link' \in Links /\ link'.torn = link.torn
      /\ link'.owed = [link.owed EXCEPT ![s] = @ - 1]
      /\ link'.inbox = Append(link.inbox, it)
  BY <1>1, <1>2, <1>3 DEF Links
<1>5. Living'
  BY <1>1, CallLife DEF SideInv
<1>6. ASSUME ~link'.torn PROVE Spotless'
  <2>1. ~link.torn /\ Spotless
    BY <1>4, <1>6 DEF SideInv, Talk
  <2>2. reader # Side!Nobody /\ ~writing /\ handle # Side!Stray /\ s = "own"
    BY <2>1, <1>1 DEF Spotless, Side!Sources
  <2>3. link.inbox = <<>> /\ link.owed["own"] = 1 /\ link.owed["other"] = 0
    BY <2>1, <2>2, <1>1 DEF Spotless
  <2>4. link'.owed["own"] = 0 /\ link'.owed["other"] = 0
    BY <2>3, <2>2, <1>4, <1>2 DEF Links, Side!Sources
  <2>5. link'.inbox = <<[source |-> "own", part |-> "whole"]>>
    BY <2>3, <2>2, <1>4
  <2> QED
    BY <1>1, <2>2, <2>4, <2>5 DEF Spotless
<1>7. Talk'
  BY <1>1, <1>4, <1>6 DEF SideInv, Talk
<1>8. Side!TypeOK'
  BY <1>1, <1>4, CallType DEF SideInv, Side!TypeOK
<1> QED
  BY <1>5, <1>7, <1>8 DEF SideInv

\* A step of a child that has been forked and leaves it in a later stage.
LEMMA BecomesInv ==
    ASSUME Side!SidecarAssumption, SideInv, NEW k \in Side!Children, NEW stages, NEW to,
           stages \subseteq {"booting", "serving", "leaving"}, to \in {"leaving", Side!Died},
           Side!BecomesOf(k, stages, to)
    PROVE  SideInv'
<1>1. /\ UNCHANGED <<Side!lifeVars, monitor, restarts, pid, pid_file, autoreap, handle, port, link,
                     inherited, wants, reader, writing, outcome>>
      /\ child[k] \in {"booting", "serving", "leaving"}
      /\ child' = [child EXCEPT ![k] = to] /\ to \in {"leaving", "gone", "zombie"}
  BY DEF Side!BecomesOf, Side!ipcVars, Side!linkVars, Side!callVars, Side!Died
<1>2. child \in [Side!Children -> {"none", "booting", "serving", "leaving", "zombie", "gone"}]
  BY DEF SideInv, Side!TypeOK
<1>3. \A j \in Side!Children : child'[j] = IF j = k THEN to ELSE child[j]
  BY <1>1, <1>2
<1>4. \A j \in Side!Children : child'[j] # "none" <=> child[j] # "none"
  BY <1>1, <1>3
<1>5. \A j \in Side!Children : Side!Executes(j)' => Side!Executes(j)
  BY <1>1, <1>3 DEF Side!Executes, Side!Children, Side!NoChild
<1>6. Living'
  BY <1>1, <1>4, <1>5, LifeKept DEF SideInv, HandleMoves
<1>7. Talk'
  BY <1>1, TalkKept DEF SideInv
<1>8. Side!TypeOK'
  BY <1>1, <1>2 DEF SideInv, Side!TypeOK, Side!lifeVars
<1> QED
  BY <1>6, <1>7, <1>8 DEF SideInv

LEMMA HeirInv ==
    ASSUME Side!SidecarAssumption, SideInv, Side!Inherits \/ Side!HeirExits
    PROVE  SideInv'
<1>1. /\ UNCHANGED <<owner, running, stopping, victim, monitor, restarts, pid, pid_file, child,
                     autoreap, handle, port, link, wants, reader, writing, outcome>>
      /\ inherited' \in BOOLEAN
  BY DEF Side!Inherits, Side!HeirExits, Side!lifeVars, Side!childVars, Side!callVars
<1>2. Side!Newest' = Side!Newest /\ \A k \in Side!Children : Side!Executes(k)' <=> Side!Executes(k)
  BY <1>1 DEF Side!Newest, Side!Executes
<1>3. Living'
  BY <1>1, <1>2 DEF SideInv, Living, InOrder, InHand, Unlinked, Ending, Left,
                    Side!ConnectionIsCurrent
<1>4. Talk'
  BY <1>1, TalkKept DEF SideInv
<1>5. Side!TypeOK'
  BY <1>1 DEF SideInv, Side!TypeOK
<1> QED
  BY <1>3, <1>4, <1>5 DEF SideInv

LEMMA ChildInv == ASSUME Side!SidecarAssumption, SideInv, Side!ChildStep PROVE SideInv'
<1>1. CASE \E s \in Side!Sources : Side!Answer(s)
  BY <1>1, AnswerInv
<1>2. ASSUME NEW k \in Side!Children, Side!Disconnected(k) \/ Side!Exit(k) \/ Side!Crash(k)
      PROVE  SideInv'
  <2>1. CASE Side!Disconnected(k)
    BY <2>1, BecomesInv DEF Side!Disconnected
  <2>2. CASE Side!Exit(k)
    BY <2>2, BecomesInv DEF Side!Exit
  <2>3. CASE Side!Crash(k)
    BY <2>3, BecomesInv DEF Side!Crash
  <2> QED
    BY <1>2, <2>1, <2>2, <2>3
<1> QED
  BY <1>1, <1>2 DEF Side!ChildStep

\* There is a child once Start has forked.
LEMMA NewestForked == ASSUME Side!SidecarAssumption, InOrder, InHand, owner # "fresh"
                      PROVE  Side!Newest \in Side!Children
  BY DEF InOrder, InHand, Side!Children, Side!SidecarAssumption

(***************************************************************************)
(* Fork and accept, which the owner's Start and the monitor share.         *)
(***************************************************************************)

\* While pid_ names no child none executes: a fork adds the only one that does.
LEMMA ForkInHand ==
    ASSUME Side!SidecarAssumption, Side!TypeOK, InOrder, Side!Fork,
           \A k \in Side!Children : Side!Executes(k) => pid = k, pid = Side!NoChild
    PROVE  /\ InOrder' /\ pid' = Side!Newest' /\ pid' \in Side!Children /\ pid_file' \in Side!Children
           /\ \A k \in Side!Children : Side!Executes(k)' => pid' = k
           /\ child' \in [Side!Children -> {"none", "booting", "serving", "leaving",
                                       "zombie", "gone"}]
<1>1. /\ InOrder' /\ Side!Newest' = Side!Newest + 1 /\ Side!Newest + 1 \in Side!Children
  BY ForkOrder
<1>2. /\ child' = [child EXCEPT ![Side!Newest + 1] = "booting"]
      /\ pid' = Side!Newest + 1 /\ pid_file' = Side!Newest + 1
  BY DEF Side!Fork
<1>3. child \in [Side!Children -> {"none", "booting", "serving", "leaving", "zombie", "gone"}]
  BY DEF Side!TypeOK
<1>4. \A k \in Side!Children : k # Side!Newest + 1 => child'[k] = child[k]
  BY <1>2, <1>3
<1>5. \A k \in Side!Children : ~Side!Executes(k)
  BY DEF Side!Children, Side!NoChild
<1>6. \A k \in Side!Children : Side!Executes(k)' => pid' = k
  BY <1>2, <1>4, <1>5 DEF Side!Executes
<1> QED
  BY <1>1, <1>2, <1>3, <1>6

\* The newest child connects: it is the one pid_ names, if pid_ names any.
LEMMA AcceptInHand ==
    ASSUME Side!SidecarAssumption, Side!TypeOK, InOrder, InHand, Side!Newest \in Side!Children, Side!Accept(Side!Newest)
    PROVE  /\ InOrder' /\ Side!Newest' = Side!Newest /\ handle' = Side!Newest /\ link' = Side!NewLink
           /\ port' = TRUE /\ inherited' = FALSE
           /\ UNCHANGED <<pid, pid_file>>
           /\ \A k \in Side!Children : Side!Executes(k)' => Side!Executes(k)
           /\ child' \in [Side!Children -> {"none", "booting", "serving", "leaving",
                                       "zombie", "gone"}]
<1>1. /\ child[Side!Newest] = "booting" /\ child' = [child EXCEPT ![Side!Newest] = "serving"]
      /\ UNCHANGED <<pid, pid_file>> /\ handle' = Side!Newest /\ link' = Side!NewLink
      /\ port' = TRUE /\ inherited' = FALSE
  BY DEF Side!Accept
<1>2. child \in [Side!Children -> {"none", "booting", "serving", "leaving", "zombie", "gone"}]
  BY DEF Side!TypeOK
<1>3. \A k \in Side!Children : child'[k] = IF k = Side!Newest THEN "serving" ELSE child[k]
  BY <1>1, <1>2
<1>4. \A k \in Side!Children : child'[k] # "none" <=> child[k] # "none"
  BY <1>1, <1>3
<1>5. InOrder' /\ Side!Newest' = Side!Newest
  BY <1>4, OrderKept
<1>6. \A k \in Side!Children : Side!Executes(k)' => Side!Executes(k)
  BY <1>1, <1>3 DEF Side!Executes
<1> QED
  BY <1>1, <1>2, <1>5, <1>6

\* The newest child is killed, so that none executes.
LEMMA TimeoutInHand ==
    ASSUME Side!SidecarAssumption, Side!TypeOK, InOrder, InHand, Side!Newest \in Side!Children,
           Side!AcceptTimeout(Side!Newest)
    PROVE  /\ InOrder' /\ Side!Newest' = Side!Newest /\ pid' = Side!NoChild
           /\ UNCHANGED <<pid_file, handle, port, link, inherited>>
           /\ \A k \in Side!Children : ~Side!Executes(k)'
           /\ child' \in [Side!Children -> {"none", "booting", "serving", "leaving",
                                       "zombie", "gone"}]
<1>1. /\ child' = [child EXCEPT ![Side!Newest] = "gone"]
      /\ UNCHANGED <<pid_file, handle, port, link, inherited>> /\ pid' = Side!NoChild
  BY DEF Side!AcceptTimeout, Side!linkVars
<1>2. child \in [Side!Children -> {"none", "booting", "serving", "leaving", "zombie", "gone"}]
  BY DEF Side!TypeOK
<1>3. \A k \in Side!Children : child'[k] = IF k = Side!Newest THEN "gone" ELSE child[k]
  BY <1>1, <1>2
<1>4. child[Side!Newest] # "none"
  BY DEF InOrder, Side!Children
<1>5. \A k \in Side!Children : child'[k] # "none" <=> child[k] # "none"
  BY <1>3, <1>4
<1>6. InOrder' /\ Side!Newest' = Side!Newest
  BY <1>5, OrderKept
<1>7. \A k \in Side!Children : ~Side!Executes(k)'
  <2> TAKE k \in Side!Children
  <2>1. Side!Executes(k) => k = Side!Newest
    BY DEF InHand, Side!Children, Side!NoChild
  <2> QED
    BY <1>3, <2>1 DEF Side!Executes
<1> QED
  BY <1>1, <1>2, <1>6, <1>7

(***************************************************************************)
(* The owner.                                                              *)
(***************************************************************************)

LEMMA StartForksInv == ASSUME Side!SidecarAssumption, SideInv, Side!StartForks PROVE SideInv'
<1>1. /\ owner = "fresh" /\ owner' = "accepting" /\ Side!Fork
      /\ UNCHANGED <<running, stopping, victim, monitor, restarts, autoreap,
                     handle, port, link, inherited, wants, reader, writing, outcome>>
  BY DEF Side!StartForks, Side!ipcVars, Side!linkVars, Side!callVars
<1>2. pid = Side!NoChild /\ handle = Side!NoChild /\ ~port /\ monitor = "none"
  BY <1>1 DEF SideInv, Living, InHand, Unlinked, Ending
<1>3. /\ InOrder' /\ pid' = Side!Newest' /\ pid' \in Side!Children /\ pid_file' \in Side!Children
      /\ \A k \in Side!Children : Side!Executes(k)' => pid' = k
      /\ child' \in [Side!Children -> {"none", "booting", "serving", "leaving",
                                  "zombie", "gone"}]
  BY <1>1, <1>2, ForkInHand DEF SideInv, Living, InHand
<1>4. InHand' /\ Unlinked' /\ Ending' /\ Left' /\ Side!ConnectionIsCurrent'
  <2>1. Side!Newest' # 0
    BY <1>3 DEF Side!Children, Side!SidecarAssumption
  <2>3. victim' \in 0..Side!Newest'
    BY <1>1, ForkOrder DEF SideInv, Living, InHand, InOrder, Side!SidecarAssumption
  <2>2. InHand'
    BY <1>1, <1>2, <1>3, <2>1, <2>3 DEF InHand
  <2> QED
    BY <2>2, <1>1, <1>2, StrayIsNone DEF Unlinked, Ending, Left, Side!ConnectionIsCurrent
<1>5. Talk'
  BY <1>1, TalkKept DEF SideInv
<1>6. Side!TypeOK'
  BY <1>1, <1>3 DEF SideInv, Side!TypeOK
<1> QED
  BY <1>3, <1>4, <1>5, <1>6 DEF SideInv, Living

LEMMA StartSucceedsInv == ASSUME Side!SidecarAssumption, SideInv, Side!StartSucceeds PROVE SideInv'
<1>1. /\ owner = "accepting" /\ owner' = "up" /\ monitor' = "sleeping"
      /\ running' = TRUE /\ stopping' = FALSE /\ restarts' = 0 /\ Side!Accept(Side!Newest)
      /\ UNCHANGED <<victim, autoreap, wants, reader, writing, outcome>>
  BY DEF Side!StartSucceeds, Side!callVars
<1>2. Side!Newest \in Side!Children
  BY <1>1, NewestForked DEF SideInv, Living
<1>3. handle = Side!NoChild /\ reader = Side!Nobody
  BY <1>1 DEF SideInv, Living, Unlinked, Talk
<1>4. /\ InOrder' /\ Side!Newest' = Side!Newest /\ handle' = Side!Newest /\ link' = Side!NewLink
      /\ port' = TRUE /\ inherited' = FALSE
      /\ UNCHANGED <<pid, pid_file>>
      /\ \A k \in Side!Children : Side!Executes(k)' => Side!Executes(k)
      /\ child' \in [Side!Children -> {"none", "booting", "serving", "leaving",
                                  "zombie", "gone"}]
  BY <1>1, <1>2, AcceptInHand DEF SideInv, Living
<1>5. InHand' /\ Side!ConnectionIsCurrent'
  BY <1>1, <1>4 DEF SideInv, Living, InHand, Side!ConnectionIsCurrent
<1>6. Unlinked' /\ Ending' /\ Left'
  BY <1>1 DEF Unlinked, Ending, Left
<1>7. Talk'
  BY <1>1, <1>3, <1>4, TalkRenewed DEF SideInv
<1>8. Side!TypeOK'
  <2>1. /\ link'.inbox \in Seq([source : Side!Sources, part : Side!Parts])
        /\ link'.owed \in [Side!Sources -> Nat] /\ link'.torn \in BOOLEAN
    BY <1>4, NewLinkTalk, LinkType
  <2>2. restarts' \in 0..MaxRestarts
    BY <1>1 DEF Side!SidecarAssumption
  <2> QED
    BY <1>1, <1>2, <1>4, <2>1, <2>2 DEF SideInv, Side!TypeOK
<1> QED
  BY <1>4, <1>5, <1>6, <1>7, <1>8 DEF SideInv, Living

LEMMA StartFailsInv == ASSUME Side!SidecarAssumption, SideInv, Side!StartFails PROVE SideInv'
<1>1. /\ owner = "accepting" /\ owner' = "failed" /\ Side!AcceptTimeout(Side!Newest)
      /\ UNCHANGED <<running, stopping, victim, monitor, restarts, autoreap,
                     wants, reader, writing, outcome>>
  BY DEF Side!StartFails, Side!callVars
<1>2. /\ InOrder' /\ Side!Newest' = Side!Newest /\ pid' = Side!NoChild
      /\ UNCHANGED <<pid_file, handle, port, link, inherited>>
      /\ \A k \in Side!Children : ~Side!Executes(k)'
      /\ child' \in [Side!Children -> {"none", "booting", "serving", "leaving",
                                  "zombie", "gone"}]
  BY <1>1, NewestForked, TimeoutInHand DEF SideInv, Living
<1>3. InHand'
  BY <1>1, <1>2 DEF SideInv, Living, InHand
<1>4. Unlinked' /\ Ending' /\ Left' /\ Side!ConnectionIsCurrent'
  BY <1>1, <1>2 DEF SideInv, Living, Unlinked, Ending, Left, Side!ConnectionIsCurrent
<1>5. Talk'
  BY <1>1, <1>2, TalkKept DEF SideInv
<1>6. Side!TypeOK'
  BY <1>1, <1>2 DEF SideInv, Side!TypeOK
<1> QED
  BY <1>2, <1>3, <1>4, <1>5, <1>6 DEF SideInv, Living

\* Steps that change neither a child nor pid_ nor the connection.
LEMMA FlagsKeep ==
    ASSUME Side!SidecarAssumption, InOrder, UNCHANGED child
    PROVE  /\ InOrder' /\ Side!Newest' = Side!Newest
           /\ \A k \in Side!Children : Side!Executes(k)' <=> Side!Executes(k)
  BY OrderKept DEF Side!Executes

\* The types, where the owner or the monitor moves and the connection stays.
LEMMA TypeKept ==
    ASSUME Side!TypeOK,
           UNCHANGED <<restarts, autoreap, handle, port, link, inherited, wants, reader,
                       writing, outcome>>,
           owner' = owner \/ owner' \in {"killing", "joining"},
           monitor' = monitor \/ monitor' \in {"exited", "backoff"},
           running' \in BOOLEAN, stopping' \in BOOLEAN,
           {pid', victim', pid_file'} \subseteq Side!Children \cup {Side!NoChild},
           child' = child \/ child' \in [Side!Children -> {"none", "booting", "serving",
                                                        "leaving", "zombie", "gone"}]
    PROVE  Side!TypeOK'
  BY DEF Side!TypeOK

LEMMA StopBeginsInv == ASSUME Side!SidecarAssumption, SideInv, Side!StopBegins PROVE SideInv'
<1>1. /\ owner = "up" /\ owner' = "killing" /\ stopping' = TRUE /\ running' = FALSE
      /\ UNCHANGED <<victim, monitor, restarts, pid, pid_file, child, autoreap,
                     handle, port, link, inherited, wants, reader, writing, outcome>>
  BY DEF Side!StopBegins, Side!childVars, Side!ipcVars, Side!linkVars, Side!callVars
<1>2. /\ InOrder' /\ Side!Newest' = Side!Newest /\ \A k \in Side!Children : Side!Executes(k)' <=> Side!Executes(k)
  BY <1>1, FlagsKeep DEF SideInv, Living
<1>3. InHand' /\ Unlinked' /\ Ending' /\ Left' /\ Side!ConnectionIsCurrent'
  BY <1>1, <1>2 DEF SideInv, Living, InHand, Unlinked, Ending, Left, Side!ConnectionIsCurrent
<1>4. Talk'
  BY <1>1, TalkKept DEF SideInv
<1>5. Side!TypeOK'
  <2>1. /\ owner' \in {"killing", "joining"} /\ running' \in BOOLEAN /\ stopping' \in BOOLEAN
        /\ {pid', victim', pid_file'} \subseteq Side!Children \cup {Side!NoChild}
        /\ child' \in [Side!Children -> {"none", "booting", "serving", "leaving",
                                    "zombie", "gone"}]
    BY <1>1 DEF SideInv, Side!TypeOK
  <2> QED
    BY <1>1, <2>1, TypeKept DEF SideInv
<1> QED
  BY <1>2, <1>3, <1>4, <1>5 DEF SideInv, Living

LEMMA StopAbortsInv == ASSUME Side!SidecarAssumption, SideInv, Side!StopAborts PROVE SideInv'
<1>1. /\ owner = "up" /\ owner' = "aborted"
      /\ UNCHANGED <<running, stopping, victim, monitor, restarts, pid, pid_file, child,
                     autoreap, handle, port, link, inherited, wants, reader, writing, outcome>>
  BY DEF Side!StopAborts, Side!childVars, Side!ipcVars, Side!linkVars, Side!callVars
<1>2. /\ InOrder' /\ Side!Newest' = Side!Newest /\ \A k \in Side!Children : Side!Executes(k)' <=> Side!Executes(k)
  BY <1>1, FlagsKeep DEF SideInv, Living
<1>3. InHand' /\ Unlinked' /\ Ending' /\ Left' /\ Side!ConnectionIsCurrent'
  BY <1>1, <1>2 DEF SideInv, Living, InHand, Unlinked, Ending, Left, Side!ConnectionIsCurrent
<1>4. Talk'
  BY <1>1, TalkKept DEF SideInv
<1>5. Side!TypeOK'
  BY <1>1 DEF SideInv, Side!TypeOK
<1> QED
  BY <1>2, <1>3, <1>4, <1>5 DEF SideInv, Living

\* While a child is waited for the monitor cannot have found it dead, for it
\* looks at stopping_ first.
LEMMA TerminateInv == ASSUME Side!SidecarAssumption, SideInv, Side!Terminate PROVE SideInv'
<1> DEFINE signalled(k) == IF k # pid THEN child[k]
                           ELSE IF child[k] = "booting" THEN Side!Died
                           ELSE IF child[k] = "serving" THEN "leaving" ELSE child[k]
<1>1. /\ owner = "killing" /\ owner' = (IF pid = Side!NoChild THEN "joining" ELSE "waiting")
      /\ victim' = pid /\ child' = [k \in Side!Children |-> signalled(k)]
      /\ UNCHANGED <<running, stopping, monitor, restarts, pid, pid_file, autoreap,
                     handle, port, link, inherited, wants, reader, writing, outcome>>
  BY DEF Side!Terminate, Side!ipcVars, Side!linkVars, Side!callVars
<1>2. /\ child \in [Side!Children -> {"none", "booting", "serving", "leaving", "zombie", "gone"}]
      /\ \A k \in Side!Children : child'[k] = signalled(k)
      /\ Side!Died \in {"zombie", "gone"}
  BY <1>1 DEF SideInv, Side!TypeOK, Side!Died
<1>3. \A k \in Side!Children : Side!Executes(k)' => Side!Executes(k)
  BY <1>2 DEF Side!Executes
<1>4. InOrder' /\ Side!Newest' = Side!Newest
  <2>1. \A k \in Side!Children : child'[k] # "none" <=> child[k] # "none"
    BY <1>2
  <2>2. InOrder
    BY DEF SideInv, Living
  <2> HIDE DEF signalled
  <2> QED
    BY <2>1, <2>2, OrderKept
<1>5. InHand'
  <2>1. victim' \in 0..Side!Newest'
    BY <1>1, <1>4 DEF SideInv, Living, InHand, InOrder, Side!NoChild
  <2> QED
    BY <1>1, <1>3, <1>4, <2>1 DEF SideInv, Living, InHand
<1>6. Unlinked' /\ Ending' /\ Left' /\ Side!ConnectionIsCurrent'
  BY <1>1 DEF SideInv, Living, InHand, Unlinked, Ending, Left, Side!ConnectionIsCurrent
<1>7. Talk'
  BY <1>1, TalkKept DEF SideInv
<1>8. child' \in [Side!Children -> {"none", "booting", "serving", "leaving", "zombie", "gone"}]
  BY <1>1, <1>2, <1>3
<1>9. Side!TypeOK'
  BY <1>1, <1>8 DEF SideInv, Side!TypeOK
<1> QED
  BY <1>4, <1>5, <1>7, <1>9, <1>6 DEF SideInv, Living

LEMMA WaitEndsInv == ASSUME Side!SidecarAssumption, SideInv, Side!WaitEnds PROVE SideInv'
<1>1. /\ owner = "waiting" /\ owner' = "joining" /\ pid' = Side!NoChild
      /\ child' = [child EXCEPT ![victim] = "gone"]
      /\ UNCHANGED <<running, stopping, victim, monitor, restarts, pid_file,
                     autoreap, handle, port, link, inherited, wants, reader, writing, outcome>>
  BY DEF Side!WaitEnds, Side!ipcVars, Side!linkVars, Side!callVars
<1>2. /\ child \in [Side!Children -> {"none", "booting", "serving", "leaving", "zombie", "gone"}]
      /\ \A k \in Side!Children : child'[k] = IF k = victim THEN "gone" ELSE child[k]
  BY <1>1 DEF SideInv, Side!TypeOK
<1>3. victim # Side!NoChild => child[victim] # "none"
  BY <1>1 DEF SideInv, Living, Side!TypeOK, InOrder, InHand, Side!Children, Side!NoChild
<1>4. \A k \in Side!Children : child'[k] # "none" <=> child[k] # "none"
  BY <1>2, <1>3 DEF Side!Children, Side!NoChild
<1>5. InOrder' /\ Side!Newest' = Side!Newest
  BY <1>4, OrderKept DEF SideInv, Living
<1>6. \A k \in Side!Children : ~Side!Executes(k)'
  <2> TAKE k \in Side!Children
  <2>1. Side!Executes(k) => k = victim
    BY <1>1 DEF SideInv, Living, InHand, Ending, Side!Children, Side!NoChild
  <2> QED
    BY <1>2, <2>1 DEF Side!Executes
<1>7. InHand' /\ Unlinked' /\ Ending' /\ Left' /\ Side!ConnectionIsCurrent'
  BY <1>1, <1>5, <1>6
     DEF SideInv, Living, InHand, Unlinked, Ending, Left, Side!ConnectionIsCurrent
<1>8. Talk'
  BY <1>1, TalkKept DEF SideInv
<1>9. Side!TypeOK'
  <2>1. /\ owner' \in {"killing", "joining"} /\ running' \in BOOLEAN /\ stopping' \in BOOLEAN
        /\ {pid', victim', pid_file'} \subseteq Side!Children \cup {Side!NoChild}
        /\ child' \in [Side!Children -> {"none", "booting", "serving", "leaving",
                                    "zombie", "gone"}]
    BY <1>1, <1>2 DEF SideInv, Side!TypeOK
  <2> QED
    BY <1>1, <2>1, TypeKept DEF SideInv
<1> QED
  BY <1>5, <1>7, <1>8, <1>9 DEF SideInv, Living

LEMMA JoinMonitorInv == ASSUME Side!SidecarAssumption, SideInv, Side!JoinMonitor PROVE SideInv'
<1>1. /\ owner = "joining" /\ monitor = "exited" /\ owner' = "closing"
      /\ UNCHANGED <<running, stopping, victim, monitor, restarts, pid, pid_file, child,
                     autoreap, handle, port, link, inherited, wants, reader, writing, outcome>>
  BY DEF Side!JoinMonitor, Side!childVars, Side!ipcVars, Side!linkVars, Side!callVars
<1>2. /\ InOrder' /\ Side!Newest' = Side!Newest /\ \A k \in Side!Children : Side!Executes(k)' <=> Side!Executes(k)
  BY <1>1, FlagsKeep DEF SideInv, Living
<1>3. InHand' /\ Unlinked' /\ Ending' /\ Left' /\ Side!ConnectionIsCurrent'
  BY <1>1, <1>2 DEF SideInv, Living, InHand, Unlinked, Ending, Left, Side!ConnectionIsCurrent
<1>4. Talk'
  BY <1>1, TalkKept DEF SideInv
<1>5. Side!TypeOK'
  BY <1>1 DEF SideInv, Side!TypeOK
<1> QED
  BY <1>2, <1>3, <1>4, <1>5 DEF SideInv, Living

LEMMA StopClosesInv == ASSUME Side!SidecarAssumption, SideInv, Side!StopCloses PROVE SideInv'
<1>1. /\ owner = "closing" /\ reader = Side!Nobody /\ owner' = "down"
      /\ handle' = Side!NoChild /\ ~port' /\ UNCHANGED inherited
      /\ link' = Side!NewLink /\ pid_file' = Side!NoChild /\ port' \in BOOLEAN
      /\ UNCHANGED <<running, stopping, victim, monitor, restarts, pid, child,
                     autoreap, wants, reader, writing, outcome>>
  BY DEF Side!StopCloses, Side!HangUp, Side!callVars
<1>2. /\ InOrder' /\ Side!Newest' = Side!Newest /\ \A k \in Side!Children : Side!Executes(k)' <=> Side!Executes(k)
  BY <1>1, FlagsKeep DEF SideInv, Living
<1>3. InHand' /\ Unlinked' /\ Ending' /\ Left' /\ Side!ConnectionIsCurrent'
  BY <1>1, <1>2, StrayIsNone DEF SideInv, Living, InHand, Unlinked, Ending, Left, Side!ConnectionIsCurrent
<1>4. Talk'
  BY <1>1, TalkRenewed DEF SideInv
<1>5. Side!TypeOK'
  <2>1. /\ link'.inbox \in Seq([source : Side!Sources, part : Side!Parts])
        /\ link'.owed \in [Side!Sources -> Nat] /\ link'.torn \in BOOLEAN
    BY <1>1, NewLinkTalk, LinkType
  <2> QED
    BY <1>1, <2>1 DEF SideInv, Side!TypeOK
<1> QED
  BY <1>2, <1>3, <1>4, <1>5 DEF SideInv, Living

\* A signal ends a child early; that is a step of the child.
LEMMA ReloadInv == ASSUME Side!SidecarAssumption, SideInv, Side!Reload PROVE SideInv'
<1>1. /\ pid # Side!NoChild /\ child[pid] = "booting" /\ child' = [child EXCEPT ![pid] = Side!Died]
      /\ UNCHANGED <<Side!lifeVars, monitor, restarts, pid, pid_file, autoreap, Side!ipcVars>>
  BY DEF Side!Reload, Side!Alive
<1>2. pid \in Side!Children
  BY <1>1 DEF SideInv, Side!TypeOK
<1>3. Side!BecomesOf(pid, {"booting"}, Side!Died)
  BY <1>1 DEF Side!BecomesOf
<1> QED
  BY <1>2, <1>3, BecomesInv

LEMMA OwnerInv == ASSUME Side!SidecarAssumption, SideInv, Side!Owner PROVE SideInv'
  BY StartForksInv, StartSucceedsInv, StartFailsInv, StopBeginsInv, StopAbortsInv,
     TerminateInv, WaitEndsInv, JoinMonitorInv, StopClosesInv, ReloadInv DEF Side!Owner

(***************************************************************************)
(* The monitor.                                                            *)
(***************************************************************************)

\* The steps of the monitor that leave the children and the connection alone.
LEMMA MonitorOnly ==
    ASSUME Side!SidecarAssumption, SideInv, owner \notin {"fresh", "accepting", "failed"},
           UNCHANGED <<Side!lifeVars, restarts, pid, pid_file, child, autoreap, handle, port, link,
                       inherited, reader, writing, outcome>>,
           wants' \subseteq Side!Threads,
           monitor # "exited",
           \/ monitor' \in {"sleeping", "calling", "exited"}
           \/ monitor = "backoff" /\ monitor' = "reopening"
    PROVE  SideInv'
<1> USE DEF Side!lifeVars
<1>1. /\ InOrder' /\ Side!Newest' = Side!Newest /\ \A k \in Side!Children : Side!Executes(k)' <=> Side!Executes(k)
  BY FlagsKeep DEF SideInv, Living
<1>2. InHand'
  BY <1>1 DEF SideInv, Living, InHand
<1>3. Unlinked' /\ Ending' /\ Left' /\ Side!ConnectionIsCurrent'
  BY DEF SideInv, Living, Unlinked, Ending, Left, Side!ConnectionIsCurrent
<1>4. Talk'
  BY TalkKept DEF SideInv
<1>5. Side!TypeOK'
  BY DEF SideInv, Side!TypeOK
<1> QED
  BY <1>1, <1>2, <1>3, <1>4, <1>5 DEF SideInv, Living

\* While the monitor does anything its owner has started and not yet joined it.
LEMMA MonitorLives ==
    ASSUME SideInv, monitor \notin {"none", "exited"}
    PROVE  owner \notin {"fresh", "accepting", "failed", "closing", "down"}
  BY DEF SideInv, Living, Ending

LEMMA LoopsIn == Side!Loops \in {"sleeping", "exited"}
  BY DEF Side!Loops

LEMMA MonitorWakesInv == ASSUME Side!SidecarAssumption, SideInv, Side!MonitorWakes PROVE SideInv'
<1>1. /\ monitor = "sleeping"
      /\ UNCHANGED <<owner, stopping, victim, restarts, pid_file, child, autoreap,
                     handle, port, link, inherited, reader, writing, outcome>>
  BY DEF Side!MonitorWakes, Side!linkVars
<1>2. owner \notin {"fresh", "accepting", "failed", "closing", "down"}
  BY <1>1, MonitorLives
<1>3. CASE UNCHANGED <<running, pid>> /\ monitor' \in {"exited", "calling"}
           /\ wants' \subseteq Side!Threads
  <2>1. /\ UNCHANGED <<Side!lifeVars, restarts, pid, pid_file, child, autoreap, handle, port, link,
                       inherited, reader, writing, outcome>>
        /\ monitor # "exited" /\ owner \notin {"fresh", "accepting", "failed"}
    BY <1>1, <1>2, <1>3 DEF Side!lifeVars
  <2>2. monitor' \in {"sleeping", "calling", "exited"}
    BY <1>3
  <2> QED
    BY <1>3, <2>1, <2>2, MonitorOnly
<1>4. CASE /\ ~stopping /\ ~Side!Alive(pid) /\ pid' = Side!NoChild /\ UNCHANGED wants
           /\ \/ monitor' = "exited" /\ running' = FALSE
              \/ ~Side!GivesUp /\ monitor' = "backoff" /\ UNCHANGED running
  <2>1. /\ InOrder' /\ Side!Newest' = Side!Newest /\ \A k \in Side!Children : Side!Executes(k)' <=> Side!Executes(k)
    BY <1>1, FlagsKeep DEF SideInv, Living
  <2>2. \A k \in Side!Children : ~Side!Executes(k)
    BY <1>4, StrayIsNone DEF SideInv, Living, InHand, Side!Alive, Side!Executes
  <2>3. InHand'
    BY <1>1, <1>2, <1>4, <2>1, <2>2 DEF SideInv, Living, InHand
  <2>4. owner \notin {"killing", "waiting", "joining", "closing", "down"}
    BY <1>4 DEF SideInv, Living, Ending
  <2>5. Unlinked' /\ Ending' /\ Side!ConnectionIsCurrent'
    BY <1>1, <1>2, <1>4, <2>4 DEF SideInv, Living, Unlinked, Ending, Side!ConnectionIsCurrent
  <2>6. Left'
    BY <1>1, <1>4 DEF SideInv, Side!TypeOK, Side!SidecarAssumption, Left, Side!GivesUp
  <2>7. Talk'
    BY <1>1, TalkKept DEF SideInv
  <2>8. Side!TypeOK'
    <3>1. /\ owner' = owner /\ running' \in BOOLEAN /\ stopping' \in BOOLEAN
          /\ monitor' \in {"exited", "backoff"}
          /\ {pid', victim', pid_file'} \subseteq Side!Children \cup {Side!NoChild}
      BY <1>1, <1>4 DEF SideInv, Side!TypeOK
    <3> QED
      BY <1>1, <1>4, <3>1, TypeKept DEF SideInv
  <2> QED
    BY <2>1, <2>3, <2>5, <2>6, <2>7, <2>8 DEF SideInv, Living
<1>5. wants \subseteq Side!Threads /\ Side!Monitor \in Side!Threads
  BY DEF SideInv, Side!TypeOK, Side!Threads
<1> QED
  BY <1>3, <1>4, <1>5 DEF Side!MonitorWakes

LEMMA MonitorCalledInv == ASSUME Side!SidecarAssumption, SideInv, Side!MonitorCalled PROVE SideInv'
<1>1. /\ monitor = "calling" /\ monitor' = Side!Loops
      /\ UNCHANGED <<Side!lifeVars, restarts, Side!childVars, autoreap, Side!ipcVars>>
  BY DEF Side!MonitorCalled
<1>2. owner \notin {"fresh", "accepting", "failed"}
  BY <1>1, MonitorLives
<1>3. wants' \subseteq Side!Threads
  BY <1>1 DEF SideInv, Side!TypeOK, Side!ipcVars, Side!linkVars, Side!callVars
<1>4. /\ UNCHANGED <<Side!lifeVars, restarts, pid, pid_file, child, autoreap, handle, port, link,
                     inherited, reader, writing, outcome>>
      /\ monitor # "exited"
  BY <1>1 DEF Side!childVars, Side!ipcVars, Side!linkVars, Side!callVars
<1>5. \/ monitor' \in {"sleeping", "calling", "exited"}
      \/ monitor = "backoff" /\ monitor' = "reopening"
  BY <1>1, LoopsIn
<1> QED
  BY <1>2, <1>3, <1>4, <1>5, MonitorOnly

LEMMA BackoffEndsInv == ASSUME Side!SidecarAssumption, SideInv, Side!BackoffEnds PROVE SideInv'
<1>1. /\ monitor = "backoff" /\ monitor' \in {"exited", "reopening"}
      /\ UNCHANGED <<Side!lifeVars, restarts, Side!childVars, autoreap, Side!ipcVars>>
  BY DEF Side!BackoffEnds
<1>2. owner \notin {"fresh", "accepting", "failed"}
  BY <1>1, MonitorLives
<1>3. wants' \subseteq Side!Threads
  BY <1>1 DEF SideInv, Side!TypeOK, Side!ipcVars, Side!linkVars, Side!callVars
<1>4. /\ UNCHANGED <<Side!lifeVars, restarts, pid, pid_file, child, autoreap, handle, port, link,
                     inherited, reader, writing, outcome>>
      /\ monitor # "exited"
  BY <1>1 DEF Side!childVars, Side!ipcVars, Side!linkVars, Side!callVars
<1>5. \/ monitor' \in {"sleeping", "calling", "exited"}
      \/ monitor = "backoff" /\ monitor' = "reopening"
  BY <1>1
<1> QED
  BY <1>2, <1>3, <1>4, <1>5, MonitorOnly

LEMMA MonitorCannotForkInv == ASSUME Side!SidecarAssumption, SideInv, Side!MonitorCannotFork PROVE SideInv'
<1>1. /\ monitor = "spawning" /\ monitor' = Side!Loops
      /\ UNCHANGED <<Side!lifeVars, restarts, Side!childVars, autoreap, Side!ipcVars>>
  BY DEF Side!MonitorCannotFork
<1>2. owner \notin {"fresh", "accepting", "failed"}
  BY <1>1, MonitorLives
<1>3. wants' \subseteq Side!Threads
  BY <1>1 DEF SideInv, Side!TypeOK, Side!ipcVars, Side!linkVars, Side!callVars
<1>4. /\ UNCHANGED <<Side!lifeVars, restarts, pid, pid_file, child, autoreap, handle, port, link,
                     inherited, reader, writing, outcome>>
      /\ monitor # "exited"
  BY <1>1 DEF Side!childVars, Side!ipcVars, Side!linkVars, Side!callVars
<1>5. \/ monitor' \in {"sleeping", "calling", "exited"}
      \/ monitor = "backoff" /\ monitor' = "reopening"
  BY <1>1, LoopsIn
<1> QED
  BY <1>2, <1>3, <1>4, <1>5, MonitorOnly

LEMMA ReopenInv == ASSUME Side!SidecarAssumption, SideInv, Side!Reopen PROVE SideInv'
<1>1. /\ monitor = "reopening" /\ reader = Side!Nobody /\ monitor' = "spawning"
      /\ handle' = Side!NoChild /\ ~port' /\ port' \in BOOLEAN
      /\ link' = Side!NewLink /\ UNCHANGED inherited
      /\ UNCHANGED <<owner, running, stopping, victim, restarts, pid, pid_file, child,
                     autoreap, wants, reader, writing, outcome>>
  BY DEF Side!Reopen, Side!HangUp, Side!lifeVars, Side!childVars, Side!callVars
<1>2. owner \notin {"fresh", "accepting", "failed", "closing", "down"}
  BY <1>1, MonitorLives
<1>3. /\ InOrder' /\ Side!Newest' = Side!Newest /\ \A k \in Side!Children : Side!Executes(k)' <=> Side!Executes(k)
  BY <1>1, FlagsKeep DEF SideInv, Living
<1>4. InHand' /\ Unlinked' /\ Ending' /\ Left' /\ Side!ConnectionIsCurrent'
  BY <1>1, <1>2, <1>3 DEF SideInv, Living, InHand, Unlinked, Ending, Left, Side!ConnectionIsCurrent
<1>5. Talk'
  BY <1>1, TalkRenewed DEF SideInv
<1>6. Side!TypeOK'
  <2>1. /\ link'.inbox \in Seq([source : Side!Sources, part : Side!Parts])
        /\ link'.owed \in [Side!Sources -> Nat] /\ link'.torn \in BOOLEAN
    BY <1>1, NewLinkTalk, LinkType
  <2> QED
    BY <1>1, <2>1 DEF SideInv, Side!TypeOK
<1> QED
  BY <1>3, <1>4, <1>5, <1>6 DEF SideInv, Living

LEMMA MonitorForksInv == ASSUME Side!SidecarAssumption, SideInv, Side!MonitorForks PROVE SideInv'
<1>1. /\ monitor = "spawning" /\ monitor' = "accepting" /\ Side!Fork
      /\ UNCHANGED <<owner, running, stopping, victim, restarts, autoreap,
                     handle, port, link, inherited, wants, reader, writing, outcome>>
  BY DEF Side!MonitorForks, Side!lifeVars, Side!ipcVars, Side!linkVars, Side!callVars
<1>2. /\ pid = Side!NoChild /\ handle = Side!NoChild
      /\ owner \notin {"fresh", "accepting", "failed", "waiting", "closing", "down"}
  BY <1>1, MonitorLives DEF SideInv, Living, InHand, Unlinked, Ending
<1>3. /\ InOrder' /\ pid' = Side!Newest' /\ pid' \in Side!Children /\ pid_file' \in Side!Children
      /\ \A k \in Side!Children : Side!Executes(k)' => pid' = k
      /\ child' \in [Side!Children -> {"none", "booting", "serving", "leaving",
                                  "zombie", "gone"}]
  BY <1>1, <1>2, ForkInHand DEF SideInv, Living, InHand
<1>4. InHand'
  <2>1. Side!Newest' # 0
    BY <1>3 DEF Side!Children, Side!SidecarAssumption
  <2>2. victim' \in 0..Side!Newest'
    BY <1>1, ForkOrder DEF SideInv, Living, InHand, InOrder, Side!SidecarAssumption
  <2> QED
    BY <1>1, <1>2, <1>3, <2>1, <2>2 DEF InHand
<1>5. Unlinked' /\ Ending' /\ Left' /\ Side!ConnectionIsCurrent'
  BY <1>1, <1>2, StrayIsNone DEF SideInv, Living, Unlinked, Ending, Left, Side!ConnectionIsCurrent
<1>6. Talk'
  BY <1>1, TalkKept DEF SideInv
<1>7. Side!TypeOK'
  BY <1>1, <1>3 DEF SideInv, Side!TypeOK
<1> QED
  BY <1>3, <1>4, <1>5, <1>6, <1>7 DEF SideInv, Living

LEMMA MonitorAcceptsInv == ASSUME Side!SidecarAssumption, SideInv, Side!MonitorAccepts PROVE SideInv'
<1>1. /\ monitor = "accepting" /\ Side!Accept(Side!Newest) /\ monitor' \in {"sleeping", "exited"}
      /\ restarts' = restarts + 1
      /\ UNCHANGED <<owner, running, stopping, victim, autoreap, wants, reader, writing, outcome>>
  BY LoopsIn DEF Side!MonitorAccepts, Side!lifeVars, Side!callVars
<1>2. owner \notin {"fresh", "accepting", "failed", "closing", "down"}
  BY <1>1, MonitorLives
<1>3. Side!Newest \in Side!Children
  BY <1>2, NewestForked DEF SideInv, Living
<1>4. handle = Side!NoChild /\ reader = Side!Nobody
  BY <1>1 DEF SideInv, Living, Unlinked, Talk
<1>5. /\ InOrder' /\ Side!Newest' = Side!Newest /\ handle' = Side!Newest /\ link' = Side!NewLink
      /\ port' = TRUE /\ inherited' = FALSE
      /\ UNCHANGED <<pid, pid_file>>
      /\ \A k \in Side!Children : Side!Executes(k)' => Side!Executes(k)
      /\ child' \in [Side!Children -> {"none", "booting", "serving", "leaving",
                                  "zombie", "gone"}]
  BY <1>1, <1>3, AcceptInHand DEF SideInv, Living
<1>6. InHand' /\ Side!ConnectionIsCurrent'
  BY <1>1, <1>2, <1>5 DEF SideInv, Living, InHand, Side!ConnectionIsCurrent
<1>7. Unlinked' /\ Ending' /\ Left'
  BY <1>1, <1>2, <1>5 DEF SideInv, Living, Unlinked, Ending, Left
<1>8. Talk'
  BY <1>1, <1>4, <1>5, TalkRenewed DEF SideInv
<1>9. Side!TypeOK'
  <2>1. /\ link'.inbox \in Seq([source : Side!Sources, part : Side!Parts])
        /\ link'.owed \in [Side!Sources -> Nat] /\ link'.torn \in BOOLEAN
    BY <1>5, NewLinkTalk, LinkType
  <2>2. restarts' \in 0..MaxRestarts
    BY <1>1 DEF SideInv, Living, Left, Side!TypeOK, Side!SidecarAssumption
  <2>3. /\ owner' = owner /\ running' = running /\ stopping' = stopping
        /\ victim' = victim /\ pid' = pid /\ pid_file' = pid_file /\ autoreap' = autoreap
        /\ wants' = wants /\ reader' = reader /\ writing' = writing /\ outcome' = outcome
        /\ monitor' \in {"sleeping", "exited"}
    BY <1>1, <1>5
  <2>4. /\ handle' \in Side!Children /\ port' \in BOOLEAN /\ inherited' \in BOOLEAN
        /\ child' \in [Side!Children -> {"none", "booting", "serving", "leaving",
                                         "zombie", "gone"}]
    BY <1>3, <1>5
  <2> QED
    BY <2>1, <2>2, <2>3, <2>4 DEF SideInv, Side!TypeOK
<1> QED
  BY <1>5, <1>6, <1>7, <1>8, <1>9 DEF SideInv, Living

LEMMA MonitorAcceptFailsInv == ASSUME Side!SidecarAssumption, SideInv, Side!MonitorAcceptFails PROVE SideInv'
<1>1. /\ monitor = "accepting" /\ Side!AcceptTimeout(Side!Newest)
      /\ monitor' \in {"sleeping", "exited"}
      /\ UNCHANGED <<owner, running, stopping, victim, restarts, autoreap, wants, reader,
                     writing, outcome>>
  BY LoopsIn DEF Side!MonitorAcceptFails, Side!lifeVars, Side!callVars
<1>2. owner \notin {"fresh", "accepting", "failed", "closing", "down"}
  BY <1>1, MonitorLives
<1>3. /\ InOrder' /\ Side!Newest' = Side!Newest /\ pid' = Side!NoChild
      /\ UNCHANGED <<pid_file, handle, port, link, inherited>>
      /\ \A k \in Side!Children : ~Side!Executes(k)'
      /\ child' \in [Side!Children -> {"none", "booting", "serving", "leaving",
                                  "zombie", "gone"}]
  BY <1>1, <1>2, NewestForked, TimeoutInHand DEF SideInv, Living
<1>4. InHand'
  BY <1>1, <1>2, <1>3 DEF SideInv, Living, InHand
<1>5. Unlinked' /\ Ending' /\ Left' /\ Side!ConnectionIsCurrent'
  BY <1>1, <1>2, <1>3 DEF SideInv, Living, Unlinked, Ending, Left, Side!ConnectionIsCurrent
<1>6. Talk'
  BY <1>1, <1>3, TalkKept DEF SideInv
<1>7. Side!TypeOK'
  BY <1>1, <1>3 DEF SideInv, Side!TypeOK
<1> QED
  BY <1>3, <1>4, <1>5, <1>6, <1>7 DEF SideInv, Living

LEMMA MonitorInv == ASSUME Side!SidecarAssumption, SideInv, Side!MonitorStep PROVE SideInv'
  BY MonitorWakesInv, MonitorCalledInv, BackoffEndsInv, ReopenInv, MonitorForksInv,
     MonitorCannotForkInv, MonitorAcceptsInv, MonitorAcceptFailsInv DEF Side!MonitorStep

LEMMA CallInv == ASSUME Side!SidecarAssumption, SideInv, NEW t \in Side!Threads, Side!CallStep(t) PROVE SideInv'
  BY AskInv, RequestInv, WriteGoesOnInv, ReadLineInv, ReadPartInv, ReadNothingInv, ReadStrayInv
     DEF Side!CallStep, Side!Read

(***************************************************************************)
(* The theorems.                                                           *)
(***************************************************************************)

LEMMA InvNext == ASSUME Side!SidecarAssumption, SideInv, [Side!Next]_Side!vars PROVE SideInv'
<1>1. CASE Side!Next
  BY <1>1, OwnerInv, MonitorInv, CallInv, ChildInv, HeirInv DEF Side!Next
<1>2. CASE UNCHANGED Side!vars
  <2>1. UNCHANGED <<owner, running, stopping, victim, monitor, restarts, pid, pid_file,
                    child, autoreap, handle, port, link, inherited, wants, reader, writing, outcome>>
    BY <1>2 DEF Side!vars, Side!lifeVars, Side!childVars, Side!ipcVars, Side!linkVars, Side!callVars
  <2>2. Living'
    BY <2>1, CallLife DEF SideInv, Side!lifeVars, Side!childVars, HandleMoves
  <2>3. Talk'
    BY <2>1, TalkKept DEF SideInv
  <2>4. Side!TypeOK'
    BY <2>1 DEF SideInv, Side!TypeOK
  <2> QED
    BY <2>2, <2>3, <2>4 DEF SideInv
<1> QED
  BY <1>1, <1>2

\* The invariant the theorems below are drawn from.
THEOREM InvAlways == ASSUME Side!SidecarAssumption PROVE Side!Spec => []SideInv
<1>1. Side!Init => SideInv
  BY InvInit
<1>2. SideInv /\ [Side!Next]_Side!vars => SideInv'
  BY InvNext
<1> QED
  BY <1>1, <1>2, PTL DEF Side!Spec

\* Every variable of the manager, the connection and the children keeps to its
\* type: in particular the counter of restarts never passes its limit.
THEOREM TypeCorrect == ASSUME Side!SidecarAssumption PROVE Side!Spec => []Side!TypeOK
<1>1. SideInv => Side!TypeOK
  BY DEF SideInv
<1> QED
  BY <1>1, InvAlways, PTL

\* A connection to a child is to the one pid_ names, no two children execute at
\* once, and nothing is left of either when Stop has returned, in whatever order the
\* owner, the monitor, the callers and the children take their steps; a handle that
\* is a closed descriptor leads to no child of the manager (sidecar_manager.cpp).
THEOREM SidecarAlwaysAgrees == ASSUME Side!SidecarAssumption PROVE Side!Spec => []Side!SidecarAgrees
<1>1. ASSUME SideInv
      PROVE  Side!SidecarAgrees
  <2>1. Side!OneChildAtATime
    BY <1>1 DEF SideInv, Living, InHand, Side!OneChildAtATime
  <2>2. Side!StoppedIsClean
    BY <1>1 DEF SideInv, Living, Ending, Side!StoppedIsClean
  <2> QED
    BY <1>1, <2>1, <2>2 DEF SideInv, Living, Side!SidecarAgrees
<1> QED
  BY <1>1, InvAlways, PTL

\* A call that returns an answer returns its own, though Call never compares ids,
\* unless an earlier read stopped half way on this connection, or the handle is a
\* stray one that connect_ipc has left (SidecarManager::Call).
THEOREM AnswerAlwaysOwn == ASSUME Side!SidecarAssumption PROVE Side!Spec => Side!AnswerIsOwn
<1> DEFINE Own == reader # Side!Nobody /\ reader' = Side!Nobody /\ outcome' = "other"
                    => link.torn \/ handle = Side!Stray
<1>1. ASSUME SideInv, [Side!Next]_Side!vars
      PROVE  [Own]_Side!vars
  <2> SUFFICES ASSUME Side!Next, reader # Side!Nobody, reader' = Side!Nobody, outcome' = "other",
                      ~link.torn, handle # Side!Stray
               PROVE  FALSE
    BY <1>1
  <2>1. CASE Side!Owner \/ Side!MonitorStep \/ Side!ChildStep \/ Side!Inherits \/ Side!HeirExits
    BY <2>1 DEF Side!Owner, Side!MonitorStep, Side!ChildStep, Side!ipcVars, Side!callVars,
         Side!StartForks, Side!StartSucceeds, Side!StartFails, Side!StopBegins,
         Side!StopAborts, Side!Terminate, Side!WaitEnds, Side!JoinMonitor, Side!StopCloses,
         Side!Reload, Side!MonitorWakes, Side!MonitorCalled, Side!BackoffEnds, Side!Reopen,
         Side!MonitorForks, Side!MonitorCannotFork, Side!MonitorAccepts,
         Side!MonitorAcceptFails, Side!Answer, Side!Disconnected, Side!Exit, Side!Crash,
         Side!BecomesOf, Side!Inherits, Side!HeirExits
  <2>2. ASSUME NEW t \in Side!Threads,
               Side!Ask(t) \/ Side!Request(t) \/ Side!WriteGoesOn(t) \/ Side!WriteBreaks(t)
        PROVE  FALSE
    BY <2>2 DEF Side!Ask, Side!Request, Side!Unconnected, Side!Send, Side!WriteFails, Side!Locks,
                Side!WriteGoesOn, Side!WriteBreaks, Side!Returns
  <2>3. ~writing /\ link.inbox # <<>> => Head(link.inbox).source = "own"
    BY <1>1 DEF SideInv, Talk, Spotless
  <2>4. ASSUME NEW t \in Side!Threads, Side!Read(t)
        PROVE  FALSE
    BY <2>3, <2>4 DEF Side!Read, Side!ReadLine, Side!ReadPart, Side!ReadNothing, Side!Returns
  <2>5. ASSUME NEW t \in Side!Threads, Side!ReadStray(t)
        PROVE  FALSE
    BY <2>5 DEF Side!ReadStray
  <2> QED
    BY <2>1, <2>2, <2>4, <2>5 DEF Side!Next, Side!CallStep
<1> QED
  BY <1>1, InvAlways, PTL DEF Side!Spec, Side!AnswerIsOwn

(***************************************************************************)
(* Among the other parts.                                                  *)
(***************************************************************************)

\* A step is one of the part that runs, and leaves the others alone.
LEMMA StepOfPart ==
    [Next]_vars =>
      /\ Side!Next \/ UNCHANGED sideVars
      /\ Serving!Next \/ UNCHANGED servingVars
      /\ Peer!Next \/ UNCHANGED peerVars
      /\ Jobs!Next \/ UNCHANGED jobVars
      /\ Exec!Next \/ UNCHANGED execVars
      /\ Adapt!Next \/ UNCHANGED adaptVars
      /\ Life!Next \/ UNCHANGED lifeVars
      /\ Reload!Next \/ UNCHANGED reloadVars
      /\ Stream!Next \/ UNCHANGED streamVars
      /\ Index!Next \/ UNCHANGED indexVars
<1>1. ASSUME NEW p, OthersKeep(p)
      PROVE  /\ p = "sidecar" \/ UNCHANGED sideVars
             /\ p = "serving" \/ UNCHANGED servingVars
             /\ p = "peer" \/ UNCHANGED peerVars
             /\ p = "jobs" \/ UNCHANGED jobVars
             /\ p = "exec" \/ UNCHANGED execVars
             /\ p = "adapters" \/ UNCHANGED adaptVars
             /\ p = "life" \/ UNCHANGED lifeVars
             /\ p = "reload" \/ UNCHANGED reloadVars
             /\ p = "stream" \/ UNCHANGED streamVars
             /\ p = "index" \/ UNCHANGED indexVars
  BY <1>1 DEF OthersKeep
<1>2. Next => \E p : /\ OthersKeep(p)
                     /\ p = "sidecar" => Side!Next
                     /\ p = "serving" => Serving!Next
                     /\ p = "peer" => Peer!Next
                     /\ p = "jobs" => Jobs!Next
                     /\ p = "exec" => Exec!Next
                     /\ p = "adapters" => Adapt!Next
                     /\ p = "life" => Life!Next
                     /\ p = "reload" => Reload!Next
                     /\ p = "stream" => Stream!Next
                     /\ p = "index" => Index!Next
  BY DEF Next, SideStep, ServingStep, PeerStep, JobsStep, ExecStep, AdaptStep, LifeStep,
         ReloadStep, StreamStep, IndexStep
<1>3. UNCHANGED vars => UNCHANGED <<sideVars, servingVars, peerVars, jobVars, execVars, adaptVars,
                                    lifeVars, reloadVars, streamVars, indexVars>>
  BY DEF vars
<1> QED
  BY <1>1, <1>2, <1>3

LEMMA SideBehaves == Spec => Side!Spec
<1>1. Init => Side!Init
  BY DEF Init
<1>2. [Next]_vars => [Side!Next]_(Side!vars)
  BY StepOfPart DEF sideVars, Side!vars, Side!lifeVars, Side!childVars, Side!ipcVars, Side!linkVars, Side!callVars
<1> QED
  BY <1>1, <1>2, PTL DEF Spec, Side!Spec

\* SidecarAlwaysAgrees of the program as it is checked (sidecar_manager.cpp).
THEOREM SidecarOfProcessesAgrees == Spec => []SidecarAgrees
<1>1. Side!SidecarAssumption
  BY ProcessesAssumption DEF ProcessesAssumption
<1>2. Side!SidecarAgrees <=> SidecarAgrees
  BY DEF SidecarAgrees
<1> QED
  BY <1>1, <1>2, SideBehaves, SidecarAlwaysAgrees, PTL

\* AnswerAlwaysOwn of the program as it is checked (SidecarManager::Call).
THEOREM AnswerOfProcessesIsOwn == Spec => AnswerIsOwn
<1>1. Side!SidecarAssumption
  BY ProcessesAssumption DEF ProcessesAssumption
<1> QED
  BY <1>1, SideBehaves, AnswerAlwaysOwn DEF AnswerIsOwn

(***************************************************************************)
(* The other parts: commands in the background.                            *)
(***************************************************************************)

\* A call holds one session from where it starts or finds it to where it leaves.
OneHeld == \A t \in ToolCall :
    IF use[t].stage \in {"starting", "found", "polling", "leaving"}
    THEN \E i \in Jobs!Job : use[t].holds = {i}
    ELSE use[t].holds = {}

\* The table is locked beyond a step only by a call that lists it, a session only
\* by one that polls it.
LocksHeld ==
    /\ \A t \in ToolCall : bgMu = t => use[t].stage = "listing"
    /\ \A t \in ToolCall, i \in Jobs!Job :
         mu[i] = t => use[t].stage = "polling" /\ i \in use[t].holds

\* A session is destroyed only when neither the table nor a call holds it, and
\* then nothing can lead to it again.
HeldAlive ==
    /\ \A i \in table : job[i].future \notin {"none", "destroyed"}
    /\ \A t \in ToolCall : \A i \in use[t].holds : job[i].future \notin {"none", "destroyed"}

Reports ==
    \A i \in Jobs!Job :
      /\ job[i].exited => job[i].future \in {"taken", "destroyed"} \/ job[i].killed
      /\ job[i].output => job[i].future \in {"taken", "destroyed"}

JobsInv == Jobs!TypeOK /\ OneHeld /\ LocksHeld /\ HeldAlive /\ Reports

Futures == {"none", "running", "ready", "taken", "destroyed"}
JobTable    == [future : Futures, exited : BOOLEAN, killed : BOOLEAN, output : BOOLEAN]
Uses    == [stage : {"idle", "starting", "listing", "found", "polling", "leaving", "done"},
            op : Jobs!Ops \cup {"start"}, holds : SUBSET Jobs!Job, todo : SUBSET Jobs!Job]

LEMMA JobTypes ==
    ASSUME Jobs!TypeOK
    PROVE  /\ table \subseteq Jobs!Job /\ job \in [Jobs!Job -> JobTable] /\ use \in [ToolCall -> Uses]
           /\ mu \in [Jobs!Job -> ToolCall \cup {Jobs!Free}] /\ bgMu \in ToolCall \cup {Jobs!Free}
  BY DEF Jobs!TypeOK, JobTable, Futures, Uses

\* What one command becomes, the calls, the locks and the table being as they were:
\* its future goes on and its reports stay true.
Advances(i) ==
    /\ job' \in [Jobs!Job -> JobTable]
    /\ \A j \in Jobs!Job : j # i => job'[j] = job[j]
    /\ job'[i].future = "destroyed" <=> job[i].future = "destroyed"
    /\ job'[i].future = "none" <=> job[i].future = "none"
    /\ job'[i].exited => job'[i].future \in {"taken", "destroyed"} \/ job'[i].killed
    /\ job'[i].output => job'[i].future \in {"taken", "destroyed"}

LEMMA CollectedAdvances ==
    ASSUME JobsInv, NEW i \in Jobs!Job, job' = Jobs!Collected(i)
    PROVE  Advances(i)
<1>1. job \in [Jobs!Job -> JobTable]
  BY JobTypes DEF JobsInv
<1>2. CASE ~job[i].exited /\ job[i].future = "ready"
  <2> DEFINE collected == [job[i] EXCEPT !.future = "taken", !.exited = TRUE, !.output = TRUE]
  <2>1. job' = [job EXCEPT ![i] = collected]
    BY <1>2 DEF Jobs!Collected
  <2>2. /\ collected \in JobTable /\ collected.future = "taken"
        /\ job[i].future = "ready"
    BY <1>1, <1>2 DEF JobTable, Futures
  <2> HIDE DEF collected
  <2>3. job'[i] = collected /\ job' \in [Jobs!Job -> JobTable] /\ \A j \in Jobs!Job : j # i => job'[j] = job[j]
    BY <1>1, <2>1, <2>2
  <2> QED
    BY <2>2, <2>3 DEF Advances
<1>3. CASE ~(~job[i].exited /\ job[i].future = "ready")
  BY <1>1, <1>3 DEF Jobs!Collected, Advances, JobsInv, Reports
<1> QED
  BY <1>2, <1>3

\* Such a step keeps every part that speaks of commands.
LEMMA AdvancesKeep ==
    ASSUME JobsInv, NEW i \in Jobs!Job, Advances(i)
    PROVE  /\ Reports'
           /\ \A j \in Jobs!Job : job[j].future \notin {"none", "destroyed"}
                                 => job'[j].future \notin {"none", "destroyed"}
  BY DEF Advances, Reports, JobsInv

\* What a call becomes, when it holds what it held and locks nothing it did not.
LEMMA CallMoves ==
    ASSUME JobsInv, NEW t \in ToolCall, NEW u \in Uses, use' = [use EXCEPT ![t] = u],
           u.holds = use[t].holds,
           u.stage \in {"starting", "found", "polling", "leaving"}
               <=> use[t].stage \in {"starting", "found", "polling", "leaving"}
    PROVE  /\ use' \in [ToolCall -> Uses] /\ OneHeld' /\ use'[t] = u
           /\ \A v \in ToolCall : v # t => use'[v] = use[v]
           /\ \A v \in ToolCall : use'[v].holds = use[v].holds
<1>1. /\ use \in [ToolCall -> Uses] /\ OneHeld
  BY JobTypes DEF JobsInv
<1>2. /\ use' \in [ToolCall -> Uses] /\ use'[t] = u
      /\ \A v \in ToolCall : v # t => use'[v] = use[v]
  BY <1>1
<1>3. \A v \in ToolCall : use'[v].holds = use[v].holds
  BY <1>2
<1>4. OneHeld'
  BY <1>1, <1>2, <1>3 DEF OneHeld
<1> QED
  BY <1>2, <1>3, <1>4

LEMMA JobTypesBack ==
    ASSUME table' \subseteq Jobs!Job, job' \in [Jobs!Job -> JobTable], use' \in [ToolCall -> Uses],
           mu' \in [Jobs!Job -> ToolCall \cup {Jobs!Free}], bgMu' \in ToolCall \cup {Jobs!Free}
    PROVE  Jobs!TypeOK'
  BY DEF Jobs!TypeOK, JobTable, Futures, Uses

(***************************************************************************)
(* start and list.                                                         *)
(***************************************************************************)

LEMMA StartJobInv == ASSUME JobsInv, NEW t \in ToolCall, Jobs!StartJob(t) PROVE JobsInv'
<1>1. PICK i \in Jobs!Job :
         /\ job[i].future = "none" /\ job' = [job EXCEPT ![i].future = "running"]
         /\ use' = [use EXCEPT ![t] = [@ EXCEPT !.stage = "starting", !.op = "start",
                                                !.holds = {i}]]
  BY DEF Jobs!StartJob
<1>2. use[t].stage = "idle" /\ UNCHANGED <<table, bgMu, mu>>
  BY DEF Jobs!StartJob
<1>3. /\ job \in [Jobs!Job -> JobTable] /\ use \in [ToolCall -> Uses]
  BY JobTypes DEF JobsInv
<1> DEFINE u == [use[t] EXCEPT !.stage = "starting", !.op = "start", !.holds = {i}]
           e == [job[i] EXCEPT !.future = "running"]
<1>4. u \in Uses /\ u.stage = "starting" /\ u.holds = {i}
  BY <1>3 DEF Uses
<1>5. /\ e \in JobTable /\ e.future = "running" /\ e.exited = job[i].exited
      /\ e.killed = job[i].killed /\ e.output = job[i].output
  BY <1>3 DEF JobTable, Futures
<1>6. job' = [job EXCEPT ![i] = e] /\ use' = [use EXCEPT ![t] = u]
  BY <1>1
<1> HIDE DEF u, e
<1>7. /\ job' \in [Jobs!Job -> JobTable] /\ job'[i] = e /\ \A j \in Jobs!Job : j # i => job'[j] = job[j]
      /\ use' \in [ToolCall -> Uses] /\ use'[t] = u
      /\ \A v \in ToolCall : v # t => use'[v] = use[v]
  BY <1>3, <1>4, <1>5, <1>6
<1>8. Jobs!TypeOK'
  BY <1>2, <1>7, JobTypes, JobTypesBack DEF JobsInv
<1>9. OneHeld'
  BY <1>4, <1>7 DEF JobsInv, OneHeld
<1>10. LocksHeld'
  BY <1>2, <1>7 DEF JobsInv, LocksHeld
<1>11. HeldAlive'
  <2>1. \A j \in Jobs!Job : job[j].future \notin {"none", "destroyed"}
                           => job'[j].future \notin {"none", "destroyed"}
    BY <1>1, <1>7
  <2>2. table \subseteq Jobs!Job /\ \A v \in ToolCall : use[v].holds \subseteq Jobs!Job
    BY <1>3, JobTypes DEF JobsInv, Uses
  <2>3. job'[i].future \notin {"none", "destroyed"}
    BY <1>5, <1>7
  <2> QED
    BY <1>2, <1>4, <1>7, <2>1, <2>2, <2>3 DEF JobsInv, HeldAlive
<1>12. Reports'
  BY <1>1, <1>5, <1>7 DEF JobsInv, Reports
<1> QED
  BY <1>8, <1>9, <1>10, <1>11, <1>12 DEF JobsInv

LEMMA InsertJobInv == ASSUME JobsInv, NEW t \in ToolCall, Jobs!InsertJob(t) PROVE JobsInv'
<1> DEFINE u == [use[t] EXCEPT !.stage = "done", !.holds = {}]
<1>1. /\ use[t].stage = "starting" /\ table' = table \cup use[t].holds
      /\ use' = [use EXCEPT ![t] = u] /\ UNCHANGED <<job, bgMu, mu>>
  BY DEF Jobs!InsertJob
<1>2. /\ table \subseteq Jobs!Job /\ use \in [ToolCall -> Uses]
  BY JobTypes DEF JobsInv
<1>3. u \in Uses /\ u.stage = "done" /\ u.holds = {} /\ use[t].holds \subseteq Jobs!Job
  BY <1>2 DEF Uses
<1> HIDE DEF u
<1>4. /\ use' \in [ToolCall -> Uses] /\ use'[t] = u
      /\ \A v \in ToolCall : v # t => use'[v] = use[v]
  BY <1>1, <1>2, <1>3
<1>5. Jobs!TypeOK'
  BY <1>1, <1>2, <1>3, <1>4, JobTypes, JobTypesBack DEF JobsInv
<1>6. OneHeld' /\ LocksHeld'
  BY <1>1, <1>3, <1>4 DEF JobsInv, OneHeld, LocksHeld
<1>7. HeldAlive' /\ Reports'
  BY <1>1, <1>3, <1>4 DEF JobsInv, HeldAlive, Reports
<1> QED
  BY <1>5, <1>6, <1>7 DEF JobsInv

LEMMA ListBeginsInv == ASSUME JobsInv, NEW t \in ToolCall, Jobs!ListBegins(t) PROVE JobsInv'
<1> DEFINE u == [use[t] EXCEPT !.stage = "listing", !.op = "list", !.todo = table]
<1>1. /\ use[t].stage = "idle" /\ bgMu' = t
      /\ use' = [use EXCEPT ![t] = u] /\ UNCHANGED <<table, job, mu>>
  BY DEF Jobs!ListBegins
<1>2. table \subseteq Jobs!Job /\ use \in [ToolCall -> Uses]
  BY JobTypes DEF JobsInv
<1>3. u \in Uses /\ u.stage = "listing" /\ u.holds = use[t].holds
  BY <1>2 DEF Uses, Jobs!Ops
<1> HIDE DEF u
<1>4. /\ use' \in [ToolCall -> Uses] /\ OneHeld' /\ use'[t] = u
      /\ \A v \in ToolCall : v # t => use'[v] = use[v]
      /\ \A v \in ToolCall : use'[v].holds = use[v].holds
  BY <1>1, <1>3, CallMoves
<1>5. Jobs!TypeOK'
  BY <1>1, <1>4, JobTypes, JobTypesBack DEF JobsInv
<1>6. LocksHeld'
  BY <1>1, <1>3, <1>4 DEF JobsInv, LocksHeld
<1>7. HeldAlive' /\ Reports'
  BY <1>1, <1>4 DEF JobsInv, HeldAlive, Reports
<1> QED
  BY <1>4, <1>5, <1>6, <1>7 DEF JobsInv

LEMMA ListOneInv == ASSUME JobsInv, NEW t \in ToolCall, Jobs!ListOne(t) PROVE JobsInv'
<1>1. PICK i \in use[t].todo : job' = Jobs!Collected(i) /\ use' = [use EXCEPT ![t].todo = @ \ {i}]
  BY DEF Jobs!ListOne
<1>2. use[t].stage = "listing" /\ UNCHANGED <<table, bgMu, mu>>
  BY DEF Jobs!ListOne
<1> DEFINE u == [use[t] EXCEPT !.todo = @ \ {i}]
<1>3. table \subseteq Jobs!Job /\ use \in [ToolCall -> Uses]
  BY JobTypes DEF JobsInv
<1>4. /\ u \in Uses /\ u.stage = "listing" /\ u.holds = use[t].holds /\ i \in Jobs!Job
      /\ use' = [use EXCEPT ![t] = u]
  BY <1>1, <1>2, <1>3 DEF Uses
<1> HIDE DEF u
<1>5. /\ use' \in [ToolCall -> Uses] /\ OneHeld' /\ use'[t] = u
      /\ \A v \in ToolCall : v # t => use'[v] = use[v]
      /\ \A v \in ToolCall : use'[v].holds = use[v].holds
  BY <1>2, <1>4, CallMoves
<1>6. Advances(i)
  BY <1>1, <1>4, CollectedAdvances
<1>7. Jobs!TypeOK'
  BY <1>2, <1>5, <1>6, JobTypes, JobTypesBack DEF JobsInv, Advances
<1>8. LocksHeld'
  BY <1>2, <1>4, <1>5 DEF JobsInv, LocksHeld
<1>9. HeldAlive' /\ Reports'
  <2>1. \A v \in ToolCall : use[v].holds \subseteq Jobs!Job
    BY <1>3 DEF Uses
  <2> QED
    BY <1>2, <1>3, <1>4, <1>5, <1>6, <2>1, AdvancesKeep DEF JobsInv, HeldAlive
<1> QED
  BY <1>5, <1>7, <1>8, <1>9 DEF JobsInv

LEMMA ListEndsInv ==
    ASSUME Jobs!BackgroundAssumption, JobsInv, NEW t \in ToolCall, Jobs!ListEnds(t)
    PROVE  JobsInv'
<1> DEFINE u == [use[t] EXCEPT !.stage = "done"]
<1>1. /\ use[t].stage = "listing" /\ bgMu' = Jobs!Free
      /\ use' = [use EXCEPT ![t] = u] /\ UNCHANGED <<table, job, mu>>
  BY DEF Jobs!ListEnds
<1>2. use \in [ToolCall -> Uses]
  BY JobTypes DEF JobsInv
<1>3. u \in Uses /\ u.stage = "done" /\ u.holds = use[t].holds
  BY <1>2 DEF Uses
<1> HIDE DEF u
<1>4. /\ use' \in [ToolCall -> Uses] /\ OneHeld' /\ use'[t] = u
      /\ \A v \in ToolCall : v # t => use'[v] = use[v]
      /\ \A v \in ToolCall : use'[v].holds = use[v].holds
  BY <1>1, <1>3, CallMoves
<1>5. Jobs!TypeOK'
  BY <1>1, <1>4, JobTypes, JobTypesBack DEF JobsInv
<1>6. LocksHeld'
  BY <1>1, <1>3, <1>4 DEF Jobs!BackgroundAssumption, JobsInv, LocksHeld
<1>7. HeldAlive' /\ Reports'
  BY <1>1, <1>4 DEF JobsInv, HeldAlive, Reports
<1> QED
  BY <1>4, <1>5, <1>6, <1>7 DEF JobsInv

(***************************************************************************)
(* The actions on one session.                                             *)
(***************************************************************************)

LEMMA LookupInv == ASSUME JobsInv, NEW t \in ToolCall, Jobs!Lookup(t) PROVE JobsInv'
<1>1. PICK i \in table, op \in Jobs!Ops \ {"list"} :
         use' = [use EXCEPT ![t] = [@ EXCEPT !.stage = "found", !.op = op, !.holds = {i}]]
  BY DEF Jobs!Lookup
<1>2. use[t].stage = "idle" /\ UNCHANGED <<table, job, bgMu, mu>>
  BY DEF Jobs!Lookup
<1> DEFINE u == [use[t] EXCEPT !.stage = "found", !.op = op, !.holds = {i}]
<1>3. table \subseteq Jobs!Job /\ use \in [ToolCall -> Uses]
  BY JobTypes DEF JobsInv
<1>4. /\ u \in Uses /\ u.stage = "found" /\ u.holds = {i} /\ i \in Jobs!Job
      /\ use' = [use EXCEPT ![t] = u]
  BY <1>1, <1>3 DEF Uses
<1> HIDE DEF u
<1>5. /\ use' \in [ToolCall -> Uses] /\ use'[t] = u
      /\ \A v \in ToolCall : v # t => use'[v] = use[v]
  BY <1>3, <1>4
<1>6. Jobs!TypeOK'
  BY <1>2, <1>5, JobTypes, JobTypesBack DEF JobsInv
<1>7. OneHeld' /\ LocksHeld'
  BY <1>2, <1>4, <1>5 DEF JobsInv, OneHeld, LocksHeld
<1>8. HeldAlive' /\ Reports'
  BY <1>2, <1>4, <1>5 DEF JobsInv, HeldAlive, Reports
<1> QED
  BY <1>6, <1>7, <1>8 DEF JobsInv

LEMMA PollBeginsInv ==
    ASSUME JobsInv, NEW t \in ToolCall, NEW i \in Jobs!Job, Jobs!PollBegins(t, i)
    PROVE  JobsInv'
<1> DEFINE u == [use[t] EXCEPT !.stage = "polling"]
<1>1. /\ use[t].stage = "found" /\ i \in use[t].holds /\ mu' = [mu EXCEPT ![i] = t]
      /\ use' = [use EXCEPT ![t] = u] /\ UNCHANGED <<table, job, bgMu>>
  BY DEF Jobs!PollBegins, Jobs!Found
<1>2. use \in [ToolCall -> Uses] /\ mu \in [Jobs!Job -> ToolCall \cup {Jobs!Free}]
  BY JobTypes DEF JobsInv
<1>3. u \in Uses /\ u.stage = "polling" /\ u.holds = use[t].holds
  BY <1>2 DEF Uses
<1> HIDE DEF u
<1>4. /\ use' \in [ToolCall -> Uses] /\ OneHeld' /\ use'[t] = u
      /\ \A v \in ToolCall : v # t => use'[v] = use[v]
      /\ \A v \in ToolCall : use'[v].holds = use[v].holds
  BY <1>1, <1>3, CallMoves
<1>5. /\ mu' \in [Jobs!Job -> ToolCall \cup {Jobs!Free}] /\ mu'[i] = t
      /\ \A j \in Jobs!Job : j # i => mu'[j] = mu[j]
  BY <1>1, <1>2
<1>6. Jobs!TypeOK'
  BY <1>1, <1>4, <1>5, JobTypes, JobTypesBack DEF JobsInv
<1>7. LocksHeld'
  BY <1>1, <1>3, <1>4, <1>5 DEF JobsInv, LocksHeld
<1>8. HeldAlive' /\ Reports'
  BY <1>1, <1>4 DEF JobsInv, HeldAlive, Reports
<1> QED
  BY <1>4, <1>6, <1>7, <1>8 DEF JobsInv

\* A call that has done its work on the session leaves with no lock.
LEMMA LeavesInv ==
    ASSUME Jobs!BackgroundAssumption, JobsInv, NEW t \in ToolCall, NEW i \in Jobs!Job, i \in use[t].holds,
           use[t].stage \in {"found", "polling"}, Jobs!Leaves(t), Advances(i),
           (mu' = mu /\ use[t].stage = "found") \/ mu' = [mu EXCEPT ![i] = Jobs!Free],
           table' \subseteq table, UNCHANGED bgMu
    PROVE  JobsInv'
<1> DEFINE u == [use[t] EXCEPT !.stage = "leaving"]
<1>1. table \subseteq Jobs!Job /\ use \in [ToolCall -> Uses] /\ mu \in [Jobs!Job -> ToolCall \cup {Jobs!Free}]
  BY JobTypes DEF JobsInv
<1>2. u \in Uses /\ u.stage = "leaving" /\ u.holds = use[t].holds /\ use' = [use EXCEPT ![t] = u]
  BY <1>1 DEF Uses, Jobs!Leaves
<1> HIDE DEF u
<1>3. /\ use' \in [ToolCall -> Uses] /\ OneHeld' /\ use'[t] = u
      /\ \A v \in ToolCall : v # t => use'[v] = use[v]
      /\ \A v \in ToolCall : use'[v].holds = use[v].holds
  BY <1>2, CallMoves
<1>4. Jobs!TypeOK'
  <2>1. mu' \in [Jobs!Job -> ToolCall \cup {Jobs!Free}]
    BY <1>1
  <2> QED
    BY <1>1, <1>3, <2>1, JobTypes, JobTypesBack DEF JobsInv, Advances
<1>5. use[t].holds = {i}
  BY DEF JobsInv, OneHeld
<1>6. \A j \in Jobs!Job : mu'[j] # t /\ (mu'[j] = mu[j] \/ mu'[j] = Jobs!Free)
  <2> TAKE j \in Jobs!Job
  <2>1. mu[j] = t => use[t].stage = "polling" /\ j = i
    BY <1>5 DEF JobsInv, LocksHeld
  <2>2. t # Jobs!Free
    BY DEF Jobs!BackgroundAssumption
  <2> QED
    BY <1>1, <2>1, <2>2
<1>7. LocksHeld'
  <2>1. \A v \in ToolCall : v # Jobs!Free
    BY DEF Jobs!BackgroundAssumption
  <2> QED
    BY <1>3, <1>6, <2>1 DEF JobsInv, LocksHeld
<1>8. HeldAlive' /\ Reports'
  <2>1. \A v \in ToolCall : use[v].holds \subseteq Jobs!Job
    BY <1>1 DEF Uses
  <2> QED
    BY <1>1, <1>3, <2>1, AdvancesKeep DEF JobsInv, HeldAlive
<1> QED
  BY <1>3, <1>4, <1>7, <1>8 DEF JobsInv

LEMMA PollEndsInv ==
    ASSUME Jobs!BackgroundAssumption, JobsInv, NEW t \in ToolCall, NEW i \in Jobs!Job, Jobs!PollEnds(t, i)
    PROVE  JobsInv'
<1>1. /\ use[t].stage = "polling" /\ i \in use[t].holds /\ job' = Jobs!Collected(i)
      /\ mu' = [mu EXCEPT ![i] = Jobs!Free] /\ Jobs!Leaves(t) /\ UNCHANGED <<table, bgMu>>
  BY DEF Jobs!PollEnds
<1>2. Advances(i)
  BY <1>1, CollectedAdvances
<1> QED
  BY <1>1, <1>2, LeavesInv

LEMMA ActsInv ==
    ASSUME Jobs!BackgroundAssumption, JobsInv, NEW t \in ToolCall, NEW i \in Jobs!Job,
           Jobs!Kill(t, i) \/ Jobs!Clear(t, i) \/ Jobs!Remove(t, i)
    PROVE  JobsInv'
<1>1. /\ use[t].stage = "found" /\ i \in use[t].holds /\ Jobs!Leaves(t) /\ UNCHANGED <<bgMu, mu>>
      /\ table' \subseteq table
  BY DEF Jobs!Kill, Jobs!Clear, Jobs!Remove, Jobs!Found
<1>2. Advances(i)
  <2>1. job \in [Jobs!Job -> JobTable]
    BY JobTypes DEF JobsInv
  <2>2. CASE Jobs!Kill(t, i)
    <3> DEFINE e == [job[i] EXCEPT !.exited = TRUE, !.killed = TRUE]
    <3>1. /\ e \in JobTable /\ e.future = job[i].future /\ e.killed /\ e.output = job[i].output
          /\ job' = [job EXCEPT ![i] = e]
      BY <2>1, <2>2 DEF Jobs!Kill, JobTable
    <3> HIDE DEF e
    <3>2. job'[i] = e /\ job' \in [Jobs!Job -> JobTable] /\ \A j \in Jobs!Job : j # i => job'[j] = job[j]
      BY <2>1, <3>1
    <3> QED
      BY <3>1, <3>2 DEF Advances, JobsInv, Reports
  <2>3. CASE Jobs!Clear(t, i)
    <3> DEFINE e == [job[i] EXCEPT !.output = FALSE]
    <3>1. /\ e \in JobTable /\ e.future = job[i].future /\ e.killed = job[i].killed
          /\ e.exited = job[i].exited /\ ~e.output /\ job' = [job EXCEPT ![i] = e]
      BY <2>1, <2>3 DEF Jobs!Clear, JobTable
    <3> HIDE DEF e
    <3>2. job'[i] = e /\ job' \in [Jobs!Job -> JobTable] /\ \A j \in Jobs!Job : j # i => job'[j] = job[j]
      BY <2>1, <3>1
    <3> QED
      BY <3>1, <3>2 DEF Advances, JobsInv, Reports
  <2>4. CASE Jobs!Remove(t, i)
    BY <2>1, <2>4 DEF Jobs!Remove, Advances, JobsInv, Reports
  <2> QED
    BY <2>2, <2>3, <2>4
<1> QED
  BY <1>1, <1>2, LeavesInv

\* What the returning call destroys nobody else holds and the table does not list.
LEMMA ReturnInv ==
    ASSUME Jobs!BackgroundAssumption, JobsInv, NEW t \in ToolCall, Jobs!Return(t)
    PROVE  JobsInv'
<1> DEFINE u == [use[t] EXCEPT !.stage = "done", !.holds = {}]
           last == use[t].holds \ Jobs!KeptWithout(t)
           ended(i) == [job[i] EXCEPT !.future = "destroyed"]
<1>1. /\ use[t].stage = "leaving" /\ job' = [i \in Jobs!Job |-> IF i \in last THEN ended(i) ELSE job[i]]
      /\ use' = [use EXCEPT ![t] = u] /\ bgMu' \in {bgMu, Jobs!Free} /\ UNCHANGED <<table, mu>>
  BY DEF Jobs!Return
<1>2. /\ table \subseteq Jobs!Job /\ use \in [ToolCall -> Uses] /\ job \in [Jobs!Job -> JobTable]
  BY JobTypes DEF JobsInv
<1>3. u \in Uses /\ u.stage = "done" /\ u.holds = {}
  BY <1>2 DEF Uses
<1> HIDE DEF u
<1>4. /\ use' \in [ToolCall -> Uses] /\ use'[t] = u
      /\ \A v \in ToolCall : v # t => use'[v] = use[v]
  BY <1>1, <1>2, <1>3
<1>5. \A i \in Jobs!Job : /\ ended(i) \in JobTable /\ ended(i).future = "destroyed"
                     /\ ended(i).exited = job[i].exited /\ ended(i).killed = job[i].killed
                     /\ ended(i).output = job[i].output
  BY <1>2 DEF JobTable, Futures
<1>6. /\ \A i \in table : i \notin last
      /\ \A v \in ToolCall \ {t} : \A i \in use[v].holds : i \notin last
  BY DEF Jobs!KeptWithout
<1> HIDE DEF ended, last
<1>7. job' \in [Jobs!Job -> JobTable] /\ \A i \in Jobs!Job : job'[i] = IF i \in last THEN ended(i) ELSE job[i]
  BY <1>1, <1>2, <1>5
<1>8. Jobs!TypeOK'
  BY <1>1, <1>2, <1>4, <1>7, JobTypes, JobTypesBack DEF JobsInv
<1>9. OneHeld'
  BY <1>3, <1>4 DEF JobsInv, OneHeld
<1>10. LocksHeld'
  <2>1. \A v \in ToolCall : v # Jobs!Free
    BY DEF Jobs!BackgroundAssumption
  <2> QED
    BY <1>1, <1>4, <2>1 DEF JobsInv, LocksHeld
<1>11. HeldAlive'
  <2>1. \A v \in ToolCall : use[v].holds \subseteq Jobs!Job
    BY <1>2 DEF Uses
  <2> QED
    BY <1>1, <1>2, <1>3, <1>4, <1>6, <1>7, <2>1 DEF JobsInv, HeldAlive
<1>12. Reports'
  BY <1>5, <1>7 DEF JobsInv, Reports
<1> QED
  BY <1>8, <1>9, <1>10, <1>11, <1>12 DEF JobsInv

LEMMA JobEndsInv == ASSUME JobsInv, NEW i \in Jobs!Job, Jobs!JobEnds(i) PROVE JobsInv'
<1> DEFINE e == [job[i] EXCEPT !.future = "ready"]
<1>1. /\ job[i].future = "running" /\ job' = [job EXCEPT ![i] = e]
      /\ UNCHANGED <<table, bgMu, mu, use>>
  BY DEF Jobs!JobEnds
<1>2. table \subseteq Jobs!Job /\ use \in [ToolCall -> Uses] /\ job \in [Jobs!Job -> JobTable]
  BY JobTypes DEF JobsInv
<1>3. /\ e \in JobTable /\ e.future = "ready" /\ e.exited = job[i].exited
      /\ e.killed = job[i].killed /\ e.output = job[i].output
  BY <1>2 DEF JobTable, Futures
<1> HIDE DEF e
<1>4. job'[i] = e /\ job' \in [Jobs!Job -> JobTable] /\ \A j \in Jobs!Job : j # i => job'[j] = job[j]
  BY <1>1, <1>2, <1>3
<1>5. Advances(i)
  BY <1>1, <1>3, <1>4 DEF Advances, JobsInv, Reports
<1>6. Jobs!TypeOK' /\ OneHeld' /\ LocksHeld'
  BY <1>1, <1>4, JobTypes, JobTypesBack DEF JobsInv, OneHeld, LocksHeld
<1>7. HeldAlive' /\ Reports'
  <2>1. \A v \in ToolCall : use[v].holds \subseteq Jobs!Job
    BY <1>2 DEF Uses
  <2> QED
    BY <1>1, <1>2, <1>5, <2>1, AdvancesKeep DEF JobsInv, HeldAlive
<1> QED
  BY <1>6, <1>7 DEF JobsInv

(***************************************************************************)
(* The theorems.                                                           *)
(***************************************************************************)

LEMMA JobsNext == ASSUME Jobs!BackgroundAssumption, JobsInv, [Jobs!Next]_Jobs!bgVars PROVE JobsInv'
<1>1. CASE Jobs!Next
  BY <1>1, StartJobInv, InsertJobInv, ListBeginsInv, ListOneInv, ListEndsInv, LookupInv,
     PollBeginsInv, PollEndsInv, ActsInv, ReturnInv, JobEndsInv DEF Jobs!Next, Jobs!Works
<1>2. CASE UNCHANGED Jobs!bgVars
  BY <1>2, JobTypes, JobTypesBack DEF Jobs!bgVars, JobsInv, OneHeld, LocksHeld, HeldAlive, Reports
<1> QED
  BY <1>1, <1>2

\* The invariant the theorem below is drawn from.
THEOREM JobsInvAlways == ASSUME Jobs!BackgroundAssumption PROVE Jobs!Spec => []JobsInv
<1>1. ASSUME Jobs!Init
      PROVE  JobsInv
  <2>1. Jobs!TypeOK
    BY <1>1 DEF Jobs!Init, Jobs!TypeOK, Jobs!Ops
  <2>2. OneHeld /\ LocksHeld
    BY <1>1 DEF Jobs!Init, OneHeld, LocksHeld, Jobs!BackgroundAssumption
  <2>3. HeldAlive /\ Reports
    BY <1>1 DEF Jobs!Init, HeldAlive, Reports
  <2> QED
    BY <2>1, <2>2, <2>3 DEF JobsInv
<1>2. JobsInv /\ [Jobs!Next]_Jobs!bgVars => JobsInv'
  BY JobsNext
<1> QED
  BY <1>1, <1>2, PTL DEF Jobs!Spec

\* No call of the process tool waits in the destructor of a future with a lock in
\* its hands (a poll does wait, for its caller's time, with that of its session),
\* what is reported of a command is true, and no listed session is destroyed, for
\* any number of calls and commands and any order of their steps
\* (tool_registry_exec_tools.cpp).
THEOREM BackgroundAlwaysAgrees ==
    ASSUME Jobs!BackgroundAssumption PROVE Jobs!Spec => []Jobs!BackgroundAgrees
<1>1. ASSUME JobsInv
      PROVE  Jobs!BackgroundAgrees
  <2>1. \A t \in ToolCall : Jobs!Joining(t) => bgMu # t /\ \A i \in Jobs!Job : mu[i] # t
    BY <1>1 DEF JobsInv, LocksHeld, Jobs!Joining
  <2> QED
    BY <1>1, <2>1 DEF JobsInv, Reports, HeldAlive, Jobs!BackgroundAgrees
<1> QED
  BY <1>1, JobsInvAlways, PTL

LEMMA JobsBehave == Spec => Jobs!Spec
<1>1. Init => Jobs!Init
  BY DEF Init
<1>2. [Next]_vars => [Jobs!Next]_(Jobs!bgVars)
  BY StepOfPart DEF jobVars, Jobs!bgVars
<1> QED
  BY <1>1, <1>2, PTL DEF Spec, Jobs!Spec

\* BackgroundAlwaysAgrees of the program as it is checked.
THEOREM BackgroundOfProcessesAgrees == Spec => []BackgroundAgrees
<1>1. Jobs!BackgroundAssumption
  BY ProcessesAssumption DEF ProcessesAssumption
<1>2. Jobs!BackgroundAgrees <=> BackgroundAgrees
  BY DEF BackgroundAgrees
<1> QED
  BY <1>1, <1>2, JobsBehave, BackgroundAlwaysAgrees, PTL

(***************************************************************************)
(* The client of the gateway.                                              *)
(***************************************************************************)

\* The library's thread wants the lock of a call that is pending.
ReaderPends == readers \subseteq pending

\* The connection is not up before Connect began, and while it is down the server
\* has nothing to answer.
DownIsDown ==
    /\ connect = "new" => wire = "new"
    /\ wire \in {"new", "connecting"} => atServer = {}
    /\ wire = "open" => opens > 0

\* A hello that is under way is that of the connection that opened last.
HelloIsOfNow ==
    wire \in {"new", "connecting", "open"} =>
      /\ \A r \in atServer : r.kind = "hello" => r.id = opens
      /\ wire = "open" => \A f \in inbox : f.kind = "hello" => f.id = opens

PeerInv == Peer!TypeOK /\ Peer!ClientAgrees /\ ReaderPends /\ DownIsDown /\ HelloIsOfNow

\* Frames and requests are told from one another by their kind.
LEMMA FramesTyped ==
    ASSUME Peer!TypeOK
    PROVE  /\ \A r \in atServer : r \in Peer!Request
           /\ \A r, ok : /\ Peer!Answer(r, ok).kind = r.kind /\ Peer!Answer(r, ok).id = r.id
                         /\ Peer!Answer(r, ok).ok = ok
  BY DEF Peer!TypeOK, Peer!Answer

LEMMA ConnectSteps ==
    ASSUME Peer!ClientAssumption, PeerInv,
           \/ Peer!ConnectBegins \/ Peer!ConnectPolls \/ Peer!ConnectNotes
           \/ Peer!ConnectGivesUp \/ Peer!HandshakeEnds \/ Peer!Disconnect
    PROVE  PeerInv'
<1>1. CASE Peer!ConnectBegins
  BY <1>1 DEF PeerInv, Peer!TypeOK, Peer!ClientAgrees, ReaderPends, DownIsDown, HelloIsOfNow,
              Peer!ConnectBegins, Peer!netVars, Peer!Challenge, Peer!Answer, Peer!Request
<1>2. CASE Peer!ConnectPolls
  BY <1>2 DEF PeerInv, Peer!TypeOK, Peer!ClientAgrees, ReaderPends, DownIsDown, HelloIsOfNow,
              Peer!ConnectPolls, Peer!netVars, Peer!Challenge, Peer!Answer, Peer!Request
<1>3. CASE Peer!ConnectNotes
  BY <1>3 DEF PeerInv, Peer!TypeOK, Peer!ClientAgrees, ReaderPends, DownIsDown, HelloIsOfNow,
              Peer!ConnectNotes, Peer!netVars, Peer!Challenge, Peer!Answer, Peer!Request
<1>4. CASE Peer!ConnectGivesUp
  BY <1>4 DEF PeerInv, Peer!TypeOK, Peer!ClientAgrees, ReaderPends, DownIsDown, HelloIsOfNow,
              Peer!ConnectGivesUp, Peer!netVars, Peer!Challenge, Peer!Answer, Peer!Request
<1>5. CASE Peer!HandshakeEnds
  BY <1>5 DEF PeerInv, Peer!TypeOK, Peer!ClientAgrees, ReaderPends, DownIsDown, HelloIsOfNow,
              Peer!HandshakeEnds, Peer!netVars, Peer!Challenge, Peer!Answer, Peer!Request
<1>6. CASE Peer!Disconnect
  <2>1. /\ connect = "ok" /\ connect' = "over"
        /\ \/ /\ wire' = "stopped" /\ connected' = FALSE /\ authenticated' = FALSE
           \/ UNCHANGED <<wire, connected, authenticated>>
        /\ UNCHANGED <<opens, hello, call, pending, atServer, inbox, readers>>
    BY <1>6 DEF Peer!Disconnect, Peer!netVars
  <2>5. connected \in BOOLEAN /\ authenticated \in BOOLEAN
        /\ wire \in {"new", "connecting", "open", "stopped"}
    BY DEF PeerInv, Peer!TypeOK
  <2>2. connected' \in BOOLEAN /\ authenticated' \in BOOLEAN
        /\ wire' \in {"new", "connecting", "open", "stopped"}
    <3>1. CASE wire' = "stopped" /\ connected' = FALSE /\ authenticated' = FALSE
      BY <3>1
    <3>2. CASE UNCHANGED <<wire, connected, authenticated>>
      BY <2>5, <3>2
    <3> QED
      BY <2>1, <3>1, <3>2
  <2>3. Peer!TypeOK'
    BY <2>1, <2>2 DEF PeerInv, Peer!TypeOK, Peer!Challenge, Peer!Answer, Peer!Request
  <2>4. Peer!ClientAgrees'
    BY <2>1 DEF PeerInv, Peer!ClientAgrees
  <2> QED
    BY <2>1, <2>3, <2>4 DEF PeerInv, ReaderPends, DownIsDown, HelloIsOfNow
<1> QED
  BY <1>1, <1>2, <1>3, <1>4, <1>5, <1>6

LEMMA CallStepsKeep ==
    ASSUME Peer!ClientAssumption, PeerInv, NEW c \in Caller,
           \/ Peer!CallBegins(c) \/ Peer!CallTimesOut(c) \/ Peer!CallReturns(c)
           \/ Peer!Deliver(c)
    PROVE  PeerInv'
<1> DEFINE r == [kind |-> "call", id |-> c]
<1>1. /\ r \in Peer!Request /\ r.kind = "call"
  BY DEF Peer!Request
<1>2. UNCHANGED <<wire, opens, connected, authenticated, hello, connect, inbox>>
  BY DEF Peer!CallBegins, Peer!CallTimesOut, Peer!CallReturns, Peer!Deliver, Peer!netVars
<1>3. /\ atServer' = atServer \/ (wire = "open" /\ atServer' = atServer \cup {r})
  BY DEF Peer!CallBegins, Peer!CallTimesOut, Peer!CallReturns, Peer!Deliver, Peer!netVars
<1> HIDE DEF r
<1>4. /\ \E s \in {"waiting", "late", "answered", "timeout", "returned", "refused"} :
           /\ call' = [call EXCEPT ![c] = s]
           /\ pending' = IF s \in {"waiting", "late", "answered"} THEN pending \cup {c}
                         ELSE pending \ {c}
      /\ readers' \subseteq readers
      /\ pending \subseteq pending' \/ readers = {}
  BY DEF Peer!CallBegins, Peer!CallTimesOut, Peer!CallReturns, Peer!Deliver, Peer!netVars,
         PeerInv, ReaderPends, Peer!ClientAgrees, Peer!TypeOK
<1>5. Peer!TypeOK'
  BY <1>1, <1>2, <1>3, <1>4 DEF PeerInv, Peer!TypeOK, Peer!Challenge, Peer!Answer, Peer!Request
<1>6. pending' = {d \in Caller : call'[d] \in {"waiting", "answered", "late"}}
  BY <1>4 DEF PeerInv, Peer!TypeOK, Peer!ClientAgrees
<1>7. Peer!ClientAgrees'
  BY <1>2, <1>6 DEF PeerInv, Peer!ClientAgrees
<1>8. ReaderPends'
  BY <1>4 DEF PeerInv, ReaderPends
<1>9. DownIsDown' /\ HelloIsOfNow'
  BY <1>1, <1>2, <1>3 DEF PeerInv, DownIsDown, HelloIsOfNow
<1> QED
  BY <1>5, <1>7, <1>8, <1>9 DEF PeerInv

LEMMA OpensAndCloses ==
    ASSUME Peer!ClientAssumption, PeerInv, Peer!Opens \/ Peer!Closes
    PROVE  PeerInv'
<1>1. CASE Peer!Opens
  <2>1. /\ wire = "connecting" /\ wire' = "open" /\ opens < MaxOpens /\ opens' = opens + 1
        /\ connected' = TRUE /\ inbox' = {Peer!Challenge} /\ atServer = {} /\ ~authenticated
        /\ UNCHANGED <<authenticated, hello, connect, call, pending, atServer, readers>>
    BY <1>1 DEF Peer!Opens, PeerInv, DownIsDown, Peer!ClientAgrees
  <2>2. opens \in 0..MaxOpens /\ opens' \in 0..MaxOpens /\ opens' > 0
    BY <2>1 DEF PeerInv, Peer!TypeOK, Peer!ClientAssumption
  <2>3. Peer!TypeOK'
    BY <2>1, <2>2 DEF PeerInv, Peer!TypeOK, Peer!Challenge, Peer!Answer, Peer!Request
  <2>4. HelloIsOfNow'
    BY <2>1 DEF HelloIsOfNow, Peer!Challenge
  <2> QED
    BY <2>1, <2>2, <2>3, <2>4 DEF PeerInv, Peer!ClientAgrees, ReaderPends, DownIsDown
<1>2. CASE Peer!Closes
  <2>1. /\ wire = "open" /\ wire' = "connecting" /\ atServer' = {} /\ inbox' = {}
        /\ ~authenticated' /\ ~connected' /\ hello' = [hello EXCEPT !.done = TRUE]
        /\ connected' \in BOOLEAN /\ authenticated' \in BOOLEAN
        /\ UNCHANGED <<opens, connect, call, pending, readers>>
    BY <1>2 DEF Peer!Closes
  <2>4. hello \in [id : 0..MaxOpens, done : BOOLEAN]
    BY DEF PeerInv, Peer!TypeOK
  <2>2. hello' \in [id : 0..MaxOpens, done : BOOLEAN]
    BY <2>1, <2>4
  <2>3. Peer!TypeOK'
    BY <2>1, <2>2 DEF PeerInv, Peer!TypeOK, Peer!Challenge, Peer!Answer, Peer!Request
  <2> QED
    BY <2>1, <2>3 DEF PeerInv, Peer!ClientAgrees, ReaderPends, DownIsDown, HelloIsOfNow
<1> QED
  BY <1>1, <1>2

\* A request stays of the kind and the id it had when it becomes an answer.
LEMMA ServerAnswersKeeps ==
    ASSUME Peer!ClientAssumption, PeerInv, Peer!ServerAnswers
    PROVE  PeerInv'
<1>1. PICK r \in atServer, ok \in BOOLEAN :
         atServer' = atServer \ {r} /\ inbox' = inbox \cup {Peer!Answer(r, ok)}
  BY DEF Peer!ServerAnswers
<1>2. wire = "open" /\ UNCHANGED <<wire, opens, connected, authenticated, hello, connect, call,
                                   pending, readers>>
  BY DEF Peer!ServerAnswers
<1>3. r \in Peer!Request /\ Peer!Answer(r, ok).kind = r.kind /\ Peer!Answer(r, ok).id = r.id
  BY FramesTyped DEF PeerInv
<1>4. Peer!TypeOK'
  BY <1>1, <1>2, <1>3 DEF PeerInv, Peer!TypeOK, Peer!Challenge, Peer!Request
<1>5. HelloIsOfNow'
  BY <1>1, <1>2, <1>3 DEF PeerInv, HelloIsOfNow
<1> QED
  BY <1>1, <1>2, <1>4, <1>5 DEF PeerInv, Peer!ClientAgrees, ReaderPends, DownIsDown

LEMMA HandleChallengeKeeps ==
    ASSUME Peer!ClientAssumption, PeerInv, Peer!HandleChallenge
    PROVE  PeerInv'
<1> DEFINE r == [kind |-> "hello", id |-> opens]
<1>1. /\ wire = "open" /\ inbox' = inbox \ {Peer!Challenge}
      /\ hello' = [hello EXCEPT !.id = opens] /\ atServer' = atServer \cup {r}
      /\ UNCHANGED <<wire, opens, connected, authenticated, connect, call, pending, readers>>
  BY DEF Peer!HandleChallenge, Peer!Receives
<1>2. opens \in 1..MaxOpens /\ opens \in 0..MaxOpens
  BY <1>1 DEF PeerInv, Peer!TypeOK, DownIsDown, Peer!ClientAssumption
<1>3. r \in Peer!Request /\ r.kind = "hello" /\ r.id = opens
  BY <1>2 DEF Peer!Request
<1> HIDE DEF r
<1>4. Peer!TypeOK'
  BY <1>1, <1>2, <1>3 DEF PeerInv, Peer!TypeOK, Peer!Challenge, Peer!Answer, Peer!Request
<1>5. HelloIsOfNow'
  BY <1>1, <1>3 DEF PeerInv, HelloIsOfNow
<1>6. hello' = [id |-> opens, done |-> hello.done]
  BY <1>1 DEF PeerInv, Peer!TypeOK
<1>7. Peer!ClientAgrees'
  <2>1. authenticated => hello.done = TRUE
    BY DEF PeerInv, Peer!ClientAgrees
  <2>2. authenticated' => wire' = "open" /\ hello' = [id |-> opens', done |-> TRUE]
    BY <1>1, <1>6, <2>1
  <2> QED
    BY <1>1, <2>2 DEF PeerInv, Peer!ClientAgrees
<1> QED
  BY <1>1, <1>4, <1>5, <1>7 DEF PeerInv, ReaderPends, DownIsDown

LEMMA HandleHelloKeeps ==
    ASSUME Peer!ClientAssumption, PeerInv, NEW f \in inbox, Peer!HandleHello(f)
    PROVE  PeerInv'
<1>1. /\ wire = "open" /\ f.kind = "hello" /\ inbox' = inbox \ {f} /\ f.id = opens
      /\ UNCHANGED <<wire, opens, connected, connect, call, pending, atServer, readers>>
  BY DEF Peer!HandleHello, Peer!Receives, PeerInv, HelloIsOfNow
<1>2. hello \in [id : 0..MaxOpens, done : BOOLEAN] /\ authenticated \in BOOLEAN
  BY DEF PeerInv, Peer!TypeOK
<1>3. /\ hello' \in [id : 0..MaxOpens, done : BOOLEAN] /\ authenticated' \in BOOLEAN
      /\ authenticated' => hello' = [id |-> opens, done |-> TRUE]
  <2>1. CASE ~hello.done /\ f.id = hello.id
    <3>1. hello' = [hello EXCEPT !.done = TRUE] /\ authenticated' = (authenticated \/ f.ok)
      BY <2>1 DEF Peer!HandleHello
    <3>2. hello' = [id |-> opens, done |-> TRUE] /\ opens \in 0..MaxOpens
      BY <1>1, <1>2, <2>1, <3>1
    <3>3. hello' \in [id : 0..MaxOpens, done : BOOLEAN]
      BY <3>2
    <3>4. authenticated' \in BOOLEAN
      BY <3>1
    <3> QED
      BY <3>2, <3>3, <3>4
  <2>2. CASE ~(~hello.done /\ f.id = hello.id)
    <3>1. UNCHANGED <<authenticated, hello>>
      BY <2>2 DEF Peer!HandleHello
    <3> QED
      BY <1>2, <3>1 DEF PeerInv, Peer!ClientAgrees
  <2> QED
    BY <2>1, <2>2
<1>4. Peer!TypeOK'
  BY <1>1, <1>3 DEF PeerInv, Peer!TypeOK, Peer!Challenge, Peer!Answer, Peer!Request
<1> QED
  BY <1>1, <1>3, <1>4 DEF PeerInv, Peer!ClientAgrees, ReaderPends, DownIsDown, HelloIsOfNow

LEMMA HandleAnswerKeeps ==
    ASSUME Peer!ClientAssumption, PeerInv, NEW f \in inbox, Peer!HandleAnswer(f)
    PROVE  PeerInv'
<1>1. /\ inbox' = inbox \ {f} /\ readers' = pending \cap {f.id}
      /\ UNCHANGED <<wire, opens, connected, authenticated, hello, connect, call, pending,
                     atServer>>
  BY DEF Peer!HandleAnswer, Peer!Receives
<1>2. Peer!TypeOK'
  BY <1>1 DEF PeerInv, Peer!TypeOK, Peer!Challenge, Peer!Answer, Peer!Request
<1> QED
  BY <1>1, <1>2 DEF PeerInv, Peer!ClientAgrees, ReaderPends, DownIsDown, HelloIsOfNow

LEMMA PeerUnchanged ==
    ASSUME PeerInv, UNCHANGED Peer!clientVars
    PROVE  PeerInv'
BY DEF PeerInv, Peer!clientVars, Peer!TypeOK, Peer!ClientAgrees, ReaderPends, DownIsDown,
       HelloIsOfNow, Peer!Challenge, Peer!Answer, Peer!Request

\* The client's record of its calls and of its connection is right, whatever times
\* out, is answered, or reconnects in between: hello_done_ is never reset and the
\* callbacks of an old connection are gone when the next one opens
\* (gateway_client.cpp).
THEOREM ClientAlwaysAgrees ==
    ASSUME Peer!ClientAssumption
    PROVE  Peer!Spec => [](Peer!TypeOK /\ Peer!ClientAgrees)
<1>1. Peer!Init => PeerInv
  <2> SUFFICES ASSUME Peer!Init
               PROVE  PeerInv
    OBVIOUS
  <2>1. 0 \in 0..MaxOpens
    BY DEF Peer!ClientAssumption
  <2>2. hello \in [id : 0..MaxOpens, done : BOOLEAN]
    BY <2>1 DEF Peer!Init
  <2>5. call \in [Caller -> {"idle", "waiting", "answered", "late",
                            "returned", "timeout", "refused"}]
    BY DEF Peer!Init
  <2>6. connected \in BOOLEAN /\ authenticated \in BOOLEAN
    BY DEF Peer!Init
  <2>3. Peer!TypeOK
    BY <2>1, <2>2, <2>5, <2>6 DEF Peer!Init, Peer!TypeOK
  <2>4. Peer!ClientAgrees
    BY DEF Peer!Init, Peer!ClientAgrees
  <2> QED
    BY <2>3, <2>4 DEF Peer!Init, PeerInv, ReaderPends, DownIsDown, HelloIsOfNow
<1>2. PeerInv /\ [Peer!Next]_(Peer!clientVars) => PeerInv'
  BY ConnectSteps, CallStepsKeep, OpensAndCloses, ServerAnswersKeeps, HandleChallengeKeeps,
     HandleHelloKeeps, HandleAnswerKeeps, PeerUnchanged DEF Peer!Next, Peer!CallStep
<1>3. PeerInv => Peer!TypeOK /\ Peer!ClientAgrees
  BY DEF PeerInv
<1> QED
  BY <1>1, <1>2, <1>3, PTL DEF Peer!Spec

LEMMA PeerBehaves == Spec => Peer!Spec
<1>1. Init => Peer!Init
  BY DEF Init
<1>2. [Next]_vars => [Peer!Next]_(Peer!clientVars)
  BY StepOfPart DEF peerVars, Peer!clientVars
<1> QED
  BY <1>1, <1>2, PTL DEF Spec, Peer!Spec

\* ClientAlwaysAgrees of the program as it is checked.
THEOREM ClientOfProcessesAgrees == Spec => []ClientAgrees
<1>1. Peer!ClientAssumption
  BY ProcessesAssumption DEF ProcessesAssumption
<1>2. Peer!ClientAgrees <=> ClientAgrees
  BY DEF ClientAgrees
<1> QED
  BY <1>1, <1>2, PeerBehaves, ClientAlwaysAgrees, PTL

(***************************************************************************)
(* A captured command.                                                     *)
(***************************************************************************)

\* How much has been read from the pipe.
ReadSoFar == written - Len(pipe)

\* What is in the pipe is what was written last, in order.
PipeInOrder ==
    /\ Len(pipe) <= written
    /\ \A i \in 1..Len(pipe) : pipe[i] = ReadSoFar + i

\* The head is the beginning of what was read, as far as it goes.
HeadIsFirst ==
    /\ \A i \in 1..Len(head) : head[i] = i
    /\ Len(head) = IF OutputCap = 0 \/ ReadSoFar <= Exec!HeadCap THEN ReadSoFar ELSE Exec!HeadCap

\* The tail is the end of the rest, as far as it goes, and something is missing between
\* the two only if there is too much of it.
TailIsLast ==
    /\ \A i \in 1..Len(tail) : tail[i] = ReadSoFar - Len(tail) + i
    /\ Len(tail) = IF ReadSoFar - Len(head) <= Exec!TailCap THEN ReadSoFar - Len(head)
                   ELSE Exec!TailCap
    /\ truncated <=> OutputCap > 0 /\ ReadSoFar > OutputCap

\* Nothing comes out of the pipe after its end.
EndIsEnd ==
    /\ (stage = "reap" \/ result = "status") /\ ~pollFailed => writers = {} /\ pipe = <<>>
    /\ stage # "done" => result = "none"
    /\ stage = "done" => command \in {"none", "reaped"}
    /\ stage = "fork" => command = "none"
    /\ stage \in {"reap", "poll", "kill"} => command # "none"

ExecInv == Exec!TypeOK /\ PipeInOrder /\ HeadIsFirst /\ TailIsLast /\ EndIsEnd

LEMMA Caps ==
    ASSUME Exec!ExecAssumption
    PROVE  /\ OutputCap \in Nat /\ ExecWrites \in Nat
           /\ Exec!HeadCap \in Nat /\ Exec!TailCap \in Nat
           /\ Exec!HeadCap + Exec!TailCap = OutputCap
           /\ OutputCap > 0 => Exec!TailCap > 0
  BY DEF Exec!ExecAssumption, Exec!HeadCap, Exec!TailCap

LEMMA ExecTyped ==
    ASSUME Exec!ExecAssumption, Exec!TypeOK
    PROVE  /\ pipe \in Seq(1..ExecWrites) /\ head \in Seq(1..ExecWrites)
           /\ tail \in Seq(1..ExecWrites)
           /\ Len(pipe) \in Nat /\ Len(head) \in Nat /\ Len(tail) \in Nat
           /\ written \in Nat /\ written <= ExecWrites /\ ExecWrites \in Nat
           /\ truncated \in BOOLEAN /\ limited \in BOOLEAN /\ ignored \in BOOLEAN
           /\ expired \in BOOLEAN /\ pollFailed \in BOOLEAN
<1>1. pipe \in Seq(1..ExecWrites) /\ head \in Seq(1..ExecWrites) /\ tail \in Seq(1..ExecWrites)
  BY DEF Exec!TypeOK
<1> QED
  BY <1>1 DEF Exec!TypeOK, Exec!ExecAssumption

\* A step that leaves the pipe and the output alone.
LEMMA OutputKept ==
    ASSUME ExecInv, UNCHANGED <<pipe, written, head, tail, truncated>>
    PROVE  PipeInOrder' /\ HeadIsFirst' /\ TailIsLast'
  BY DEF ExecInv, PipeInOrder, HeadIsFirst, TailIsLast, ReadSoFar

LEMMA WritesKeeps ==
    ASSUME Exec!ExecAssumption, ExecInv, Exec!Writes
    PROVE  ExecInv'
<1>1. /\ written < ExecWrites /\ written' = written + 1 /\ pipe' = Append(pipe, written + 1)
      /\ writers # {}
      /\ UNCHANGED <<stage, writers, command, head, tail, truncated, limited, ignored,
                     expired, pollFailed, result>>
  BY DEF Exec!Writes, Exec!outVars, Exec!timeVars
<1>2. /\ pipe \in Seq(1..ExecWrites) /\ Len(pipe) \in Nat /\ written \in Nat
      /\ ExecWrites \in Nat
  BY ExecTyped DEF ExecInv
<1>3. /\ pipe' \in Seq(1..ExecWrites) /\ Len(pipe') = Len(pipe) + 1
      /\ \A i \in 1..Len(pipe') : pipe'[i] = IF i = Len(pipe) + 1 THEN written + 1 ELSE pipe[i]
  BY <1>1, <1>2
<1>4. ReadSoFar' = ReadSoFar
  BY <1>1, <1>2, <1>3 DEF ReadSoFar
<1>5. PipeInOrder'
  <2>1. Len(pipe') <= written'
    BY <1>1, <1>2, <1>3 DEF ExecInv, PipeInOrder
  <2>2. ASSUME NEW i \in 1..Len(pipe')
        PROVE  pipe'[i] = ReadSoFar + i
    <3>1. CASE i = Len(pipe) + 1
      BY <1>2, <1>3, <3>1 DEF ReadSoFar
    <3>2. CASE i # Len(pipe) + 1
      <4>1. i \in 1..Len(pipe)
        BY <1>2, <1>3, <3>2
      <4> QED
        BY <1>3, <3>2, <4>1 DEF ExecInv, PipeInOrder
    <3> QED
      BY <3>1, <3>2
  <2> QED
    BY <1>4, <2>1, <2>2 DEF PipeInOrder
<1>6. HeadIsFirst' /\ TailIsLast'
  BY <1>1, <1>4 DEF ExecInv, HeadIsFirst, TailIsLast
<1>7. Exec!TypeOK'
  BY <1>1, <1>2, <1>3 DEF ExecInv, Exec!TypeOK
<1>8. EndIsEnd'
  BY <1>1 DEF ExecInv, EndIsEnd
<1> QED
  BY <1>5, <1>6, <1>7, <1>8 DEF ExecInv

\* The head is filled, then the tail is moved on by what is read.
LEMMA ReadOutputKeeps ==
    ASSUME Exec!ExecAssumption, ExecInv, Exec!ReadOutput
    PROVE  ExecInv'
<1> DEFINE w == Head(pipe)
           n == ReadSoFar
           H == Exec!HeadCap
           T == Exec!TailCap
           longer == Append(tail, w)
<1>1. /\ stage = "poll" /\ pipe # <<>> /\ pipe' = Tail(pipe) /\ Exec!Keep(w)
      /\ UNCHANGED <<stage, writers, command, written, limited, ignored, expired,
                     pollFailed, result>>
  BY DEF Exec!ReadOutput, Exec!timeVars
<1>2. /\ pipe \in Seq(1..ExecWrites) /\ head \in Seq(1..ExecWrites) /\ tail \in Seq(1..ExecWrites)
      /\ Len(pipe) \in Nat /\ Len(head) \in Nat /\ Len(tail) \in Nat
      /\ written \in Nat /\ ExecWrites \in Nat /\ truncated \in BOOLEAN
      /\ limited \in BOOLEAN /\ ignored \in BOOLEAN
      /\ expired \in BOOLEAN /\ pollFailed \in BOOLEAN
  BY ExecTyped DEF ExecInv
<1>3. /\ pipe' \in Seq(1..ExecWrites) /\ Len(pipe') = Len(pipe) - 1 /\ Len(pipe) > 0
      /\ \A i \in 1..Len(pipe') : pipe'[i] = pipe[i + 1]
      /\ w = pipe[1] /\ w \in 1..ExecWrites
  BY <1>1, <1>2
<1>4. n' = n + 1 /\ n \in Nat /\ w = n + 1
  BY <1>1, <1>2, <1>3 DEF ExecInv, PipeInOrder, ReadSoFar
<1>5. PipeInOrder'
  <2>1. Len(pipe') <= written'
    BY <1>1, <1>2, <1>3 DEF ExecInv, PipeInOrder
  <2>2. ASSUME NEW i \in 1..Len(pipe')
        PROVE  pipe'[i] = n' + i
    <3>1. i + 1 \in 1..Len(pipe) /\ pipe'[i] = pipe[i + 1]
      BY <1>2, <1>3
    <3>2. pipe[i + 1] = n + (i + 1)
      BY <3>1 DEF ExecInv, PipeInOrder
    <3> QED
      BY <1>4, <3>1, <3>2
  <2> QED
    BY <2>1, <2>2 DEF PipeInOrder
<1>6. /\ H \in Nat /\ T \in Nat /\ H + T = OutputCap /\ OutputCap \in Nat
      /\ OutputCap > 0 => T > 0
  BY Caps
<1>7. /\ \A i \in 1..Len(head) : head[i] = i
      /\ Len(head) = IF OutputCap = 0 \/ n <= H THEN n ELSE H
      /\ \A i \in 1..Len(tail) : tail[i] = n - Len(tail) + i
      /\ Len(tail) = IF n - Len(head) <= T THEN n - Len(head) ELSE T
      /\ truncated <=> OutputCap > 0 /\ n > OutputCap
  BY DEF ExecInv, HeadIsFirst, TailIsLast
<1> HIDE DEF n, H, T, w
<1>8. /\ head' \in Seq(1..ExecWrites) /\ tail' \in Seq(1..ExecWrites) /\ truncated' \in BOOLEAN
      /\ \A i \in 1..Len(head') : head'[i] = i
      /\ Len(head') = IF OutputCap = 0 \/ n' <= H THEN n' ELSE H
      /\ \A i \in 1..Len(tail') : tail'[i] = n' - Len(tail') + i
      /\ Len(tail') = IF n' - Len(head') <= T THEN n' - Len(head') ELSE T
      /\ truncated' <=> OutputCap > 0 /\ n' > OutputCap
  <2>1. CASE OutputCap = 0 \/ Len(head) < H
    <3>1. head' = Append(head, w) /\ tail' = tail /\ truncated' = truncated
      BY <1>1, <2>1 DEF Exec!Keep, H
    <3>2. /\ head' \in Seq(1..ExecWrites) /\ Len(head') = Len(head) + 1
          /\ \A i \in 1..Len(head') : head'[i] = IF i = Len(head) + 1 THEN w ELSE head[i]
      BY <1>2, <1>3, <3>1
    <3>3. n = Len(head) /\ Len(tail) = 0
      BY <1>2, <1>4, <1>6, <1>7, <2>1
    <3>4. /\ Len(head') = IF OutputCap = 0 \/ n' <= H THEN n' ELSE H
          /\ Len(head') = n'
      BY <1>2, <1>4, <1>6, <2>1, <3>2, <3>3
    <3>5. truncated' <=> OutputCap > 0 /\ n' > OutputCap
      <4>1. OutputCap = 0 \/ (n < H /\ H <= OutputCap)
        BY <1>2, <1>6, <2>1, <3>3
      <4>2. ~(OutputCap > 0 /\ n > OutputCap) /\ ~(OutputCap > 0 /\ n' > OutputCap)
        BY <1>4, <1>6, <4>1
      <4>3. ~truncated
        BY <1>7, <4>2, Zenon
      <4> QED
        BY <3>1, <4>2, <4>3, ZenonT(90)
    <3>6. \A i \in 1..Len(head') : head'[i] = i
      <4> SUFFICES ASSUME NEW i \in 1..Len(head')
                   PROVE  head'[i] = i
        OBVIOUS
      <4>1. i \in 1..(Len(head) + 1) /\ head'[i] = IF i = Len(head) + 1 THEN w ELSE head[i]
        BY <3>2
      <4>2. CASE i = Len(head) + 1
        BY <1>4, <3>3, <4>1, <4>2
      <4>3. CASE i # Len(head) + 1
        <5> DEFINE k == Len(head)
        <5>1. k \in Nat /\ i \in 1..(k + 1) /\ i # k + 1
          BY <1>2, <4>1, <4>3
        <5>2. i \in 1..k
          <6> HIDE DEF k
          <6> QED
            BY <5>1
        <5> QED
          BY <1>7, <4>1, <4>3, <5>2
      <4> QED
        BY <4>2, <4>3
    <3>7. Len(tail') = 0 /\ n' - Len(head') = 0
      BY <1>2, <1>4, <3>1, <3>3, <3>4
    <3>8. Len(tail') = IF n' - Len(head') <= T THEN n' - Len(head') ELSE T
      BY <1>6, <3>7
    <3> QED
      BY <1>2, <3>1, <3>2, <3>4, <3>5, <3>6, <3>7, <3>8
  <2>2. CASE ~(OutputCap = 0 \/ Len(head) < H)
    <3>1. /\ head' = head
          /\ tail' = IF Len(longer) > T THEN Tail(longer) ELSE longer
          /\ truncated' = (truncated \/ Len(longer) > T)
      BY <1>1, <2>2 DEF Exec!Keep, T, H, w
    <3>2. /\ longer \in Seq(1..ExecWrites) /\ Len(longer) = Len(tail) + 1
          /\ \A i \in 1..Len(longer) : longer[i] = IF i = Len(tail) + 1 THEN w ELSE tail[i]
      <4>1. w \in 1..ExecWrites /\ tail \in Seq(1..ExecWrites)
        BY <1>2, <1>3
      <4> QED
        BY <4>1
    <3> HIDE DEF longer
    <3>3. Len(head) = H /\ n >= H /\ OutputCap > 0 /\ T > 0
      BY <1>2, <1>4, <1>6, <1>7, <2>2
    <3>4. /\ Len(head') = H /\ n' > H
          /\ Len(head') = IF OutputCap = 0 \/ n' <= H THEN n' ELSE H
      BY <1>4, <1>6, <3>1, <3>3
    <3>5. \A i \in 1..Len(longer) : longer[i] = n' - Len(longer) + i
      <4>1. ASSUME NEW i \in 1..Len(longer)
            PROVE  longer[i] = n' - Len(longer) + i
        <5>1. CASE i = Len(tail) + 1
          BY <1>2, <1>4, <3>2, <5>1
        <5>2. CASE i # Len(tail) + 1
          <6>1. i \in 1..Len(tail)
            BY <1>2, <3>2, <5>2
          <6>2. longer[i] = tail[i] /\ tail[i] = n - Len(tail) + i
            BY <1>7, <3>2, <5>2, <6>1
          <6> QED
            BY <1>2, <1>4, <3>2, <6>2
        <5> QED
          BY <5>1, <5>2
      <4> QED
        BY <4>1
    <3>6. CASE Len(longer) > T
      <4>1. tail' = Tail(longer) /\ truncated' = TRUE
        BY <3>1, <3>6
      <4>2. /\ tail' \in Seq(1..ExecWrites) /\ Len(tail') = Len(longer) - 1
            /\ \A i \in 1..Len(tail') : tail'[i] = longer[i + 1]
        BY <1>2, <3>2, <3>6, <4>1
      <4>3. Len(tail) = T /\ n - H >= T
        BY <1>2, <1>4, <1>6, <1>7, <3>2, <3>3, <3>6
      <4>4. Len(tail') = T /\ n' - Len(head') > T /\ n' > OutputCap
        BY <1>4, <1>6, <3>2, <3>4, <4>2, <4>3
      <4>5. ASSUME NEW i \in 1..Len(tail')
            PROVE  tail'[i] = n' - Len(tail') + i
        <5>1. i + 1 \in 1..Len(longer)
          BY <1>2, <3>2, <4>2
        <5>2. tail'[i] = n' - Len(longer) + (i + 1)
          BY <3>5, <4>2, <5>1
        <5> QED
          BY <1>2, <1>4, <3>2, <4>2, <5>2
      <4>6. Len(tail') = IF n' - Len(head') <= T THEN n' - Len(head') ELSE T
        BY <1>4, <1>6, <3>4, <4>4
      <4> QED
        BY <1>2, <1>7, <3>1, <3>3, <3>4, <4>1, <4>2, <4>4, <4>5, <4>6
    <3>7. CASE ~(Len(longer) > T)
      <4>1. tail' = longer /\ truncated' = truncated
        BY <1>2, <3>1, <3>7
      <4>2. Len(tail) = n - H /\ n < OutputCap
        BY <1>2, <1>4, <1>6, <1>7, <3>2, <3>3, <3>7
      <4>3. Len(tail') = n' - Len(head') /\ n' - Len(head') <= T /\ ~(n' > OutputCap)
        BY <1>2, <1>4, <1>6, <3>2, <3>4, <3>7, <4>1, <4>2
      <4>4. ~truncated
        BY <1>4, <1>6, <1>7, <4>2
      <4>5. Len(tail') = IF n' - Len(head') <= T THEN n' - Len(head') ELSE T
        BY <4>3
      <4> QED
        BY <1>2, <1>7, <3>1, <3>2, <3>4, <3>5, <4>1, <4>3, <4>4, <4>5
    <3> QED
      BY <3>6, <3>7
  <2> QED
    BY <2>1, <2>2
<1>9. HeadIsFirst' /\ TailIsLast'
  BY <1>8 DEF HeadIsFirst, TailIsLast, n, H, T
<1>10. Exec!TypeOK'
  BY <1>1, <1>2, <1>3, <1>8 DEF ExecInv, Exec!TypeOK
<1>11. EndIsEnd'
  BY <1>1 DEF ExecInv, EndIsEnd
<1> QED
  BY <1>5, <1>9, <1>10, <1>11 DEF ExecInv

\* The steps of the processes and of the call that read nothing.
LEMMA ExecStepsKeep ==
    ASSUME Exec!ExecAssumption, ExecInv,
           \/ Exec!StrangerForks \/ Exec!StrangerExecs \/ Exec!ChildActs
           \/ Exec!DescendantEnds \/ Exec!DeadlinePasses \/ Exec!PollFails \/ Exec!Fork
           \/ Exec!ReadEof \/ Exec!TimesOut \/ Exec!KillChild \/ Exec!ReapChild
    PROVE  ExecInv'
<1>1. /\ stage \in {"fork", "poll", "kill", "reap", "done"} /\ writers \subseteq Exec!Holders
      /\ command \in {"none", "running", "zombie", "reaped"}
      /\ result \in {"none", "failed", "timeout", "status"}
      /\ limited \in BOOLEAN /\ ignored \in BOOLEAN
      /\ expired \in BOOLEAN /\ pollFailed \in BOOLEAN
  BY ExecTyped DEF ExecInv, Exec!TypeOK
<1>2. UNCHANGED <<pipe, written, head, tail, truncated>>
  BY DEF Exec!StrangerForks, Exec!StrangerExecs, Exec!ChildActs, Exec!DescendantEnds,
         Exec!DeadlinePasses, Exec!PollFails, Exec!Fork, Exec!ReadEof, Exec!TimesOut,
         Exec!KillChild, Exec!ReapChild, Exec!outVars, Exec!timeVars
<1>3. EndIsEnd
  BY DEF ExecInv
<1>4. /\ stage' \in {"fork", "poll", "kill", "reap", "done"} /\ writers' \subseteq Exec!Holders
      /\ command' \in {"none", "running", "zombie", "reaped"}
      /\ result' \in {"none", "failed", "timeout", "status"}
      /\ limited' \in BOOLEAN /\ ignored' \in BOOLEAN
      /\ expired' \in BOOLEAN /\ pollFailed' \in BOOLEAN
      /\ EndIsEnd'
  <2>1. CASE Exec!StrangerForks
    BY <1>1, <1>2, <1>3, <2>1 DEF Exec!StrangerForks, Exec!timeVars, Exec!Holders, EndIsEnd
  <2>2. CASE Exec!StrangerExecs
    BY <1>1, <1>2, <1>3, <2>2 DEF Exec!StrangerExecs, Exec!timeVars, Exec!Holders, EndIsEnd
  <2>3. CASE Exec!ChildActs
    BY <1>1, <1>2, <1>3, <2>3 DEF Exec!ChildActs, Exec!timeVars, Exec!Holders, EndIsEnd
  <2>4. CASE Exec!DescendantEnds
    BY <1>1, <1>2, <1>3, <2>4 DEF Exec!DescendantEnds, Exec!timeVars, Exec!Holders, EndIsEnd
  <2>5. CASE Exec!DeadlinePasses
    BY <1>1, <1>2, <1>3, <2>5 DEF Exec!DeadlinePasses, Exec!timeVars, Exec!Holders, EndIsEnd
  <2>6. CASE Exec!PollFails
    BY <1>1, <1>2, <1>3, <2>6 DEF Exec!PollFails, Exec!timeVars, Exec!Holders, EndIsEnd
  <2>7. CASE Exec!Fork
    BY <1>1, <1>2, <1>3, <2>7 DEF Exec!Fork, Exec!timeVars, Exec!Holders, EndIsEnd
  <2>8. CASE Exec!ReadEof
    BY <1>1, <1>2, <1>3, <2>8 DEF Exec!ReadEof, Exec!timeVars, Exec!Holders, EndIsEnd
  <2>9. CASE Exec!TimesOut
    BY <1>1, <1>2, <1>3, <2>9 DEF Exec!TimesOut, Exec!timeVars, Exec!Holders, EndIsEnd
  <2>10. CASE Exec!KillChild
    BY <1>1, <1>2, <1>3, <2>10 DEF Exec!KillChild, Exec!timeVars, Exec!Holders, EndIsEnd
  <2>11. CASE Exec!ReapChild
    BY <1>1, <1>2, <1>3, <2>11 DEF Exec!ReapChild, Exec!timeVars, Exec!Holders, EndIsEnd
  <2> QED
    BY <2>1, <2>2, <2>3, <2>4, <2>5, <2>6, <2>7, <2>8, <2>9, <2>10, <2>11
<1>5. Exec!TypeOK'
  <2>1. written' \in 0..ExecWrites /\ {pipe', head', tail'} \subseteq Seq(1..ExecWrites)
        /\ truncated' \in BOOLEAN
    BY <1>2 DEF ExecInv, Exec!TypeOK
  <2> QED
    BY <1>4, <2>1 DEF Exec!TypeOK
<1> QED
  BY <1>2, <1>4, <1>5, OutputKept DEF ExecInv

LEMMA ExecUnchanged ==
    ASSUME ExecInv, UNCHANGED Exec!execVars
    PROVE  ExecInv'
BY OutputKept DEF ExecInv, Exec!execVars, Exec!TypeOK, EndIsEnd

\* A call leaves no shell behind, running or not reaped, and a status comes with
\* the whole output but for its middle, however the command writes, forks and
\* closes its pipe; what the shell has started may live on with the pipe
\* (exec_capture of process_unix.cpp).
THEOREM ExecAlwaysAgrees ==
    ASSUME Exec!ExecAssumption PROVE Exec!Spec => [](Exec!TypeOK /\ Exec!ExecAgrees)
<1>1. ASSUME Exec!Init
      PROVE  ExecInv
  <2>1. Exec!TypeOK
    <3>1. <<>> \in Seq(1..ExecWrites) /\ 0 \in 0..ExecWrites
      BY DEF Exec!ExecAssumption
    <3> QED
      BY <1>1, <3>1 DEF Exec!Init, Exec!TypeOK, Exec!Holders
  <2>2. Len(pipe) = 0 /\ Len(head) = 0 /\ Len(tail) = 0 /\ written = 0 /\ ~truncated
    BY <1>1 DEF Exec!Init
  <2>3. PipeInOrder /\ HeadIsFirst /\ TailIsLast
    BY <2>2, Caps DEF PipeInOrder, HeadIsFirst, TailIsLast, ReadSoFar
  <2>4. EndIsEnd
    BY <1>1 DEF Exec!Init, EndIsEnd
  <2> QED
    BY <2>1, <2>3, <2>4 DEF ExecInv
<1>2. ExecInv /\ [Exec!Next]_(Exec!execVars) => ExecInv'
  BY WritesKeeps, ReadOutputKeeps, ExecStepsKeep, ExecUnchanged DEF Exec!Next, Exec!CallStep
<1>3. ASSUME ExecInv
      PROVE  Exec!ExecAgrees
  <2>1. stage = "done" => command \in {"none", "reaped"}
    BY <1>3 DEF ExecInv, EndIsEnd
  <2>2. ASSUME result = "status", ~pollFailed
        PROVE  /\ head = Exec!FirstOf(Len(head))
               /\ truncated <=> OutputCap > 0 /\ written > OutputCap
               /\ tail = [i \in 1..Len(tail) |-> written - Len(tail) + i]
               /\ Len(head) + Len(tail) = IF truncated THEN OutputCap ELSE written
    <3>1. ReadSoFar = written
      <4>1. pipe = <<>> /\ written \in Nat
        BY <1>3, <2>2, ExecTyped DEF ExecInv, EndIsEnd
      <4> QED
        BY <4>1 DEF ReadSoFar
    <3>2. /\ head \in Seq(1..ExecWrites) /\ tail \in Seq(1..ExecWrites) /\ written \in Nat
          /\ Len(head) \in Nat /\ Len(tail) \in Nat
      BY <1>3, ExecTyped DEF ExecInv
    <3>3. /\ \A i \in 1..Len(head) : head[i] = i
          /\ Len(head) = IF OutputCap = 0 \/ written <= Exec!HeadCap THEN written
                         ELSE Exec!HeadCap
          /\ \A i \in 1..Len(tail) : tail[i] = written - Len(tail) + i
          /\ Len(tail) = IF written - Len(head) <= Exec!TailCap THEN written - Len(head)
                         ELSE Exec!TailCap
          /\ truncated <=> OutputCap > 0 /\ written > OutputCap
      BY <1>3, <3>1 DEF ExecInv, HeadIsFirst, TailIsLast
    <3>4. head = Exec!FirstOf(Len(head))
      BY <3>2, <3>3 DEF Exec!FirstOf
    <3>5. tail = [i \in 1..Len(tail) |-> written - Len(tail) + i]
      BY <3>2, <3>3
    <3>6. Len(head) + Len(tail) = IF truncated THEN OutputCap ELSE written
      BY <3>2, <3>3, Caps
    <3> QED
      BY <3>3, <3>4, <3>5, <3>6
  <2> QED
    BY <2>1, <2>2 DEF Exec!ExecAgrees
<1>4. ExecInv => Exec!TypeOK /\ Exec!ExecAgrees
  BY <1>3 DEF ExecInv
<1> QED
  BY <1>1, <1>2, <1>4, PTL DEF Exec!Spec

LEMMA ExecBehaves == Spec => Exec!Spec
<1>1. Init => Exec!Init
  BY DEF Init
<1>2. [Next]_vars => [Exec!Next]_(Exec!execVars)
  BY StepOfPart DEF execVars, Exec!execVars
<1> QED
  BY <1>1, <1>2, PTL DEF Spec, Exec!Spec

\* ExecAlwaysAgrees of the program as it is checked.
THEOREM ExecOfProcessesAgrees == Spec => []ExecAgrees
<1>1. Exec!ExecAssumption
  BY ProcessesAssumption DEF ProcessesAssumption
<1>2. Exec!ExecAgrees <=> ExecAgrees
  BY DEF ExecAgrees
<1> QED
  BY <1>1, <1>2, ExecBehaves, ExecAlwaysAgrees, PTL

(***************************************************************************)
(* The processes of the channel adapters.                                  *)
(***************************************************************************)

Worker(stages) == [stage : stages, todo : SUBSET Channel, at : SUBSET Channel]

\* TypeOK, and that the two threads' records have these fields and no other.
AdaptTyped ==
    /\ Adapt!TypeOK
    /\ watcher \in Worker({"none", "asleep", "scan", "restart", "ended"})
    /\ keeper \in Worker({"new", "up", "killing", "waiting", "joining", "stopped"})

\* The record names a process of the channel, or none.
Recorded ==
    \A c \in Channel :
      /\ adapter[c].running <=> adapter[c].pid # Adapt!None
      /\ adapter[c].pid # Adapt!None =>
           /\ adapter[c].pid \in DOMAIN process
           /\ process[adapter[c].pid].channel = c

\* Whatever is alive is on record.
LiveOnRecord ==
    \A p \in DOMAIN process :
      process[p].state = "alive" => adapter[process[p].channel].pid = p

\* What the two threads have still to do, and with which channels.
StagesAgree ==
    /\ up => keeper.stage = "up"
    /\ keeper.stage = "new" => watcher.stage = "none"
    /\ keeper.stage \in {"new", "up"} =>
         /\ watcher.todo \cup watcher.at \subseteq listed
         /\ \A c \in Channel : adapter[c].pid # Adapt!None => c \in listed
    /\ watcher.stage = "restart" => \A c \in watcher.at : adapter[c].pid = Adapt!None
    /\ keeper.stage # "waiting" => keeper.at = {}
    /\ \A c, d \in keeper.at : c = d
    /\ keeper.stage \in {"joining", "stopped"} => keeper.todo = {}

\* At most one process is launched when Stop has begun, and the record of a channel
\* that Stop has passed names no other.
LateIsOne ==
    /\ \A p, q \in DOMAIN process : process[p].late /\ process[q].late => p = q
    /\ watcher.stage = "restart" \/ keeper.stage \in {"new", "up"} =>
         \A p \in DOMAIN process : ~process[p].late
    /\ keeper.stage \notin {"new", "up"} =>
         \A c \in Channel : adapter[c].pid # Adapt!None =>
           c \in keeper.todo \cup keeper.at \/ process[adapter[c].pid].late

AdaptInv == AdaptTyped /\ Recorded /\ LiveOnRecord /\ StagesAgree /\ LateIsOne

LEMMA AdaptTypes ==
    ASSUME Adapt!AdaptersAssumption, AdaptTyped
    PROVE  /\ process \in Seq(Adapt!ProcessState) /\ Len(process) \in Nat /\ MaxProcesses \in Nat
           /\ DOMAIN process = 1..Len(process) /\ Len(process) <= MaxProcesses
           /\ \A p \in DOMAIN process :
                /\ process[p] \in Adapt!ProcessState /\ p # Adapt!None
                /\ process[p].channel \in Channel /\ process[p].late \in BOOLEAN
                /\ process[p].state \in {"alive", "zombie", "gone"}
           /\ adapter \in [Channel -> [pid : Adapt!Pid, running : BOOLEAN]]
<1>1. process \in Seq(Adapt!ProcessState) /\ Len(process) <= MaxProcesses
      /\ adapter \in [Channel -> [pid : Adapt!Pid, running : BOOLEAN]]
  BY DEF AdaptTyped, Adapt!TypeOK
<1>2. MaxProcesses \in Nat
  BY DEF Adapt!AdaptersAssumption
<1>3. \A s \in Adapt!ProcessState :
        /\ s.channel \in Channel /\ s.late \in BOOLEAN
        /\ s.state \in {"alive", "zombie", "gone"}
  BY DEF Adapt!ProcessState
<1>4. DOMAIN process = 1..Len(process) /\ Len(process) \in Nat
      /\ \A p \in 1..Len(process) : process[p] \in Adapt!ProcessState
  BY <1>1
<1> QED
  BY <1>1, <1>2, <1>3, <1>4 DEF Adapt!None

\* A process is launched for a channel whose record names none.
LEMMA LaunchedKeeps ==
    ASSUME Adapt!AdaptersAssumption, AdaptInv, NEW c \in Channel,
           adapter[c].pid = Adapt!None, Adapt!Launched(c)
    PROVE  /\ process' \in Seq(Adapt!ProcessState) /\ Len(process') <= MaxProcesses
           /\ adapter' \in [Channel -> [pid : Adapt!Pid, running : BOOLEAN]]
           /\ Recorded' /\ LiveOnRecord'
           /\ DOMAIN process' = DOMAIN process \cup {adapter'[c].pid}
           /\ adapter'[c].pid \notin DOMAIN process /\ adapter'[c].pid # Adapt!None
           /\ process'[adapter'[c].pid].late <=> keeper.stage \notin {"new", "up"}
           /\ \A p \in DOMAIN process : process'[p] = process[p]
           /\ \A d \in Channel : d # c => adapter'[d] = adapter[d]
<1> DEFINE n == Len(process) + 1
           s == [state |-> "alive", channel |-> c, late |-> keeper.stage \notin {"new", "up"}]
           a == [pid |-> n, running |-> TRUE]
<1>1. /\ Len(process) < MaxProcesses /\ process' = Append(process, s)
      /\ adapter' = [adapter EXCEPT ![c] = a]
  BY DEF Adapt!Launched
<1>2. /\ process \in Seq(Adapt!ProcessState) /\ Len(process) \in Nat /\ MaxProcesses \in Nat
      /\ DOMAIN process = 1..Len(process)
      /\ adapter \in [Channel -> [pid : Adapt!Pid, running : BOOLEAN]]
  BY AdaptTypes DEF AdaptInv
<1>3. /\ s \in Adapt!ProcessState /\ s.state = "alive" /\ s.channel = c
      /\ s.late <=> keeper.stage \notin {"new", "up"}
  BY DEF Adapt!ProcessState
<1>4. n \in Adapt!Pid /\ n # Adapt!None /\ n \notin DOMAIN process /\ n \in Nat
  BY <1>1, <1>2 DEF Adapt!Pid, Adapt!None
<1>5. a \in [pid : Adapt!Pid, running : BOOLEAN] /\ a.pid = n /\ a.running
  BY <1>4
<1> HIDE DEF s, a
<1>6. /\ process' \in Seq(Adapt!ProcessState) /\ Len(process') = n
      /\ DOMAIN process' = 1..n /\ process'[n] = s
      /\ \A p \in 1..Len(process) : process'[p] = process[p]
  BY <1>1, <1>2, <1>3
<1>7. DOMAIN process' = DOMAIN process \cup {n}
  BY <1>2, <1>6
<1>8. /\ adapter' \in [Channel -> [pid : Adapt!Pid, running : BOOLEAN]]
      /\ adapter'[c] = a /\ \A d \in Channel : d # c => adapter'[d] = adapter[d]
  BY <1>1, <1>2, <1>5
<1>9. n <= MaxProcesses
  BY <1>1, <1>2
<1> HIDE DEF n
<1>10. Recorded'
  <2>1. ASSUME NEW d \in Channel
        PROVE  /\ adapter'[d].running <=> adapter'[d].pid # Adapt!None
               /\ adapter'[d].pid # Adapt!None =>
                    adapter'[d].pid \in DOMAIN process' /\ process'[adapter'[d].pid].channel = d
    <3>1. CASE d = c
      BY <1>3, <1>4, <1>5, <1>6, <1>7, <1>8, <3>1
    <3>2. CASE d # c
      BY <1>2, <1>6, <1>7, <1>8, <3>2 DEF AdaptInv, Recorded
    <3> QED
      BY <3>1, <3>2
  <2> QED
    BY <2>1 DEF Recorded
<1>11. LiveOnRecord'
  <2>1. ASSUME NEW p \in DOMAIN process', process'[p].state = "alive"
        PROVE  adapter'[process'[p].channel].pid = p
    <3>1. CASE p = n
      BY <1>3, <1>5, <1>6, <1>8, <3>1
    <3>2. CASE p \in DOMAIN process
      <4>1. /\ process'[p] = process[p] /\ adapter[process[p].channel].pid = p
            /\ process[p].channel \in Channel /\ p # Adapt!None
        BY <1>2, <1>6, <2>1, <3>2, AdaptTypes DEF AdaptInv, LiveOnRecord
      <4> QED
        BY <1>8, <4>1
    <3> QED
      BY <1>7, <3>1, <3>2
  <2> QED
    BY <2>1 DEF LiveOnRecord
<1> QED
  BY <1>2, <1>3, <1>4, <1>5, <1>6, <1>7, <1>8, <1>9, <1>10, <1>11

\* Nothing is launched: processes die, and the record of a channel may be cleared
\* when it names none that lives.
FewerAdapters ==
    /\ process' \in Seq(Adapt!ProcessState) /\ DOMAIN process' = DOMAIN process
    /\ Len(process') <= MaxProcesses
    /\ \A p \in DOMAIN process :
         /\ process'[p].channel = process[p].channel /\ process'[p].late = process[p].late
         /\ process'[p].state = "alive" => process[p].state = "alive"
    /\ adapter' \in [Channel -> [pid : Adapt!Pid, running : BOOLEAN]]
    /\ \A c \in Channel :
         \/ adapter'[c] = adapter[c]
         \/ /\ adapter'[c] = [pid |-> Adapt!None, running |-> FALSE]
            /\ adapter[c].pid # Adapt!None => process'[adapter[c].pid].state # "alive"

LEMMA FewerKeeps ==
    ASSUME Adapt!AdaptersAssumption, AdaptInv, FewerAdapters
    PROVE  /\ Recorded' /\ LiveOnRecord'
           /\ \A p, q \in DOMAIN process' : process'[p].late /\ process'[q].late => p = q
           /\ \A c \in Channel : adapter'[c].pid # Adapt!None =>
                /\ adapter'[c].pid = adapter[c].pid
                /\ process'[adapter'[c].pid].late = process[adapter[c].pid].late
<1>1. \A c \in Channel : \/ adapter'[c] = adapter[c]
                         \/ adapter'[c].pid = Adapt!None /\ ~adapter'[c].running
  BY DEF FewerAdapters
<1>2. Recorded'
  BY <1>1 DEF FewerAdapters, AdaptInv, Recorded
<1>3. LiveOnRecord'
  <2>1. ASSUME NEW p \in DOMAIN process', process'[p].state = "alive"
        PROVE  adapter'[process'[p].channel].pid = p
    <3>1. /\ p \in DOMAIN process /\ process'[p].channel = process[p].channel
          /\ adapter[process[p].channel].pid = p
      BY <2>1 DEF FewerAdapters, AdaptInv, LiveOnRecord
    <3>2. process[p].channel \in Channel /\ p # Adapt!None
      BY <3>1, AdaptTypes DEF AdaptInv
    <3> QED
      BY <2>1, <3>1, <3>2 DEF FewerAdapters
  <2> QED
    BY <2>1 DEF LiveOnRecord
<1>4. \A p, q \in DOMAIN process' : process'[p].late /\ process'[q].late => p = q
  BY DEF FewerAdapters, AdaptInv, LateIsOne
<1>5. ASSUME NEW c \in Channel, adapter'[c].pid # Adapt!None
      PROVE  /\ adapter'[c].pid = adapter[c].pid
             /\ process'[adapter'[c].pid].late = process[adapter[c].pid].late
  <2>1. adapter'[c] = adapter[c]
    BY <1>1, <1>5
  <2>2. adapter[c].pid \in DOMAIN process
    BY <1>5, <2>1 DEF AdaptInv, Recorded
  <2> QED
    BY <2>1, <2>2 DEF FewerAdapters
<1> QED
  BY <1>2, <1>3, <1>4, <1>5

\* A step that leaves the processes and their record alone.
LEMMA NoneFewer ==
    ASSUME Adapt!AdaptersAssumption, AdaptInv, UNCHANGED <<process, adapter>>
    PROVE  FewerAdapters
BY DEF FewerAdapters, AdaptInv, AdaptTyped, Adapt!TypeOK

(***************************************************************************)
(* The steps.                                                              *)
(***************************************************************************)

LEMMA StartKeeps ==
    ASSUME Adapt!AdaptersAssumption, AdaptInv,
           (\E c \in Channel : Adapt!StartLaunches(c)) \/ Adapt!StartReturns
    PROVE  AdaptInv'
<1>1. ASSUME NEW c \in Channel, Adapt!StartLaunches(c)
      PROVE  AdaptInv'
  <2>1. /\ keeper.stage = "new" /\ c \notin listed /\ Adapt!Launched(c)
        /\ listed' = listed \cup {c} /\ UNCHANGED <<up, autoReap, watcher, keeper>>
    BY <1>1 DEF Adapt!StartLaunches
  <2>2. adapter[c].pid = Adapt!None
    BY <2>1 DEF AdaptInv, StagesAgree
  <2>3. /\ process' \in Seq(Adapt!ProcessState) /\ Len(process') <= MaxProcesses
        /\ adapter' \in [Channel -> [pid : Adapt!Pid, running : BOOLEAN]]
        /\ Recorded' /\ LiveOnRecord'
        /\ DOMAIN process' = DOMAIN process \cup {adapter'[c].pid}
        /\ ~process'[adapter'[c].pid].late
        /\ \A p \in DOMAIN process : process'[p] = process[p]
        /\ \A d \in Channel : d # c => adapter'[d] = adapter[d]
    BY <2>1, <2>2, LaunchedKeeps
  <2>4. AdaptTyped'
    BY <2>1, <2>3 DEF AdaptInv, AdaptTyped, Adapt!TypeOK
  <2>5. StagesAgree'
    <3>1. watcher.stage = "none"
      BY <2>1 DEF AdaptInv, StagesAgree
    <3> QED
      BY <2>1, <2>3, <3>1 DEF AdaptInv, StagesAgree
  <2>6. \A p \in DOMAIN process' : ~process'[p].late
    BY <2>1, <2>3 DEF AdaptInv, LateIsOne
  <2>7. LateIsOne'
    BY <2>1, <2>6 DEF LateIsOne
  <2> QED
    BY <2>3, <2>4, <2>5, <2>7 DEF AdaptInv
<1>2. CASE Adapt!StartReturns
  <2>1. /\ keeper.stage = "new" /\ keeper' = [keeper EXCEPT !.stage = "up"]
        /\ watcher' = [watcher EXCEPT !.stage = IF listed # {} THEN "asleep" ELSE "none"]
        /\ up' \in BOOLEAN
        /\ UNCHANGED <<adapter, listed, process, autoReap>>
    BY <1>2 DEF Adapt!StartReturns
  <2>2. /\ keeper' \in Worker({"new", "up", "killing", "waiting", "joining", "stopped"})
        /\ keeper'.stage = "up" /\ keeper'.todo = keeper.todo /\ keeper'.at = keeper.at
    BY <2>1 DEF AdaptInv, AdaptTyped, Worker
  <2>3. /\ watcher' \in Worker({"none", "asleep", "scan", "restart", "ended"})
        /\ watcher'.stage # "restart"
        /\ watcher'.todo = watcher.todo /\ watcher'.at = watcher.at
    BY <2>1 DEF AdaptInv, AdaptTyped, Worker
  <2>4. AdaptTyped'
    BY <2>1, <2>2, <2>3 DEF AdaptInv, AdaptTyped, Adapt!TypeOK, Worker
  <2>5. StagesAgree'
    BY <2>1, <2>2, <2>3 DEF AdaptInv, StagesAgree
  <2>6. LateIsOne'
    BY <2>1, <2>2 DEF AdaptInv, LateIsOne
  <2> QED
    BY <2>1, <2>4, <2>5, <2>6 DEF AdaptInv, Recorded, LiveOnRecord
<1> QED
  BY <1>1, <1>2

LEMMA DiesKeeps ==
    ASSUME Adapt!AdaptersAssumption, AdaptInv, NEW p \in DOMAIN process, Adapt!Dies(p)
    PROVE  AdaptInv'
<1> DEFINE s == [process[p] EXCEPT !.state = Adapt!Died]
<1>1. /\ process' = [process EXCEPT ![p] = s]
      /\ UNCHANGED <<up, adapter, listed, autoReap, watcher, keeper>>
  BY DEF Adapt!Dies
<1>2. /\ process[p] \in Adapt!ProcessState /\ process \in Seq(Adapt!ProcessState)
      /\ DOMAIN process = 1..Len(process) /\ Len(process) <= MaxProcesses
      /\ Len(process) \in Nat
  BY AdaptTypes DEF AdaptInv
<1>3. /\ s \in Adapt!ProcessState /\ s.state # "alive"
      /\ s.channel = process[p].channel /\ s.late = process[p].late
  BY <1>2 DEF Adapt!ProcessState, Adapt!Died
<1> HIDE DEF s
<1>4. /\ process' \in Seq(Adapt!ProcessState) /\ DOMAIN process' = DOMAIN process
      /\ Len(process') = Len(process)
      /\ \A q \in DOMAIN process : process'[q] = IF q = p THEN s ELSE process[q]
  BY <1>1, <1>2, <1>3
<1>5. FewerAdapters
  BY <1>1, <1>2, <1>3, <1>4 DEF FewerAdapters, AdaptInv, AdaptTyped, Adapt!TypeOK
<1>6. AdaptTyped'
  BY <1>1, <1>2, <1>4 DEF AdaptInv, AdaptTyped, Adapt!TypeOK
<1>7. StagesAgree'
  BY <1>1 DEF AdaptInv, StagesAgree
<1>8. LateIsOne'
  BY <1>1, <1>5, FewerKeeps DEF AdaptInv, LateIsOne, FewerAdapters
<1> QED
  BY <1>5, <1>6, <1>7, <1>8, FewerKeeps DEF AdaptInv

\* The monitor's sleep and the end of its walk.
LEMMA MonitorWaitsKeep ==
    ASSUME Adapt!AdaptersAssumption, AdaptInv, Adapt!MonitorWakes \/ Adapt!ScanEnds
    PROVE  AdaptInv'
<1>1. UNCHANGED <<up, adapter, listed, process, autoReap, keeper>>
  BY DEF Adapt!MonitorWakes, Adapt!ScanEnds
<1>2. watcher \in Worker({"none", "asleep", "scan", "restart", "ended"})
      /\ listed \subseteq Channel
  BY DEF AdaptInv, AdaptTyped, Adapt!TypeOK
<1>3. /\ watcher' \in Worker({"none", "asleep", "scan", "restart", "ended"})
      /\ watcher'.stage \in {"scan", "ended", "asleep"} /\ watcher.stage \in {"asleep", "scan"}
      /\ watcher'.todo \in {watcher.todo, listed} /\ watcher'.at = watcher.at
  <2>1. CASE watcher.stage = "asleep" /\ watcher' = [watcher EXCEPT !.stage = "scan", !.todo = listed]
    BY <1>2, <2>1, Zenon DEF Worker
  <2>2. CASE watcher.stage = "asleep" /\ watcher' = [watcher EXCEPT !.stage = "ended"]
    BY <1>2, <2>2 DEF Worker
  <2>3. CASE watcher.stage = "scan" /\ watcher' = [watcher EXCEPT !.stage = "asleep"]
    BY <1>2, <2>3 DEF Worker
  <2> QED
    BY <2>1, <2>2, <2>3, Zenon DEF Adapt!MonitorWakes, Adapt!ScanEnds
<1>4. AdaptTyped'
  BY <1>1, <1>3 DEF AdaptInv, AdaptTyped, Adapt!TypeOK, Worker
<1>5. StagesAgree'
  BY <1>1, <1>3 DEF AdaptInv, StagesAgree
<1>6. LateIsOne'
  BY <1>1, <1>3 DEF AdaptInv, LateIsOne
<1> QED
  BY <1>1, <1>4, <1>5, <1>6 DEF AdaptInv, Recorded, LiveOnRecord

\* A restart is decided while the manager is up, when none was launched late.
LEMMA ScanKeeps ==
    ASSUME Adapt!AdaptersAssumption, AdaptInv, NEW c \in Channel, Adapt!Scan(c)
    PROVE  AdaptInv'
<1> DEFINE none == [pid |-> Adapt!None, running |-> FALSE]
<1>1. /\ watcher.stage = "scan" /\ c \in watcher.todo
      /\ UNCHANGED <<up, listed, process, autoReap, keeper>>
  BY DEF Adapt!Scan
<1>2. adapter \in [Channel -> [pid : Adapt!Pid, running : BOOLEAN]]
      /\ watcher \in Worker({"none", "asleep", "scan", "restart", "ended"})
  BY DEF AdaptInv, AdaptTyped, Adapt!TypeOK
<1>3. none \in [pid : Adapt!Pid, running : BOOLEAN] /\ none.pid = Adapt!None
  BY DEF Adapt!Pid, Adapt!None, Adapt!AdaptersAssumption
<1>4. Adapt!Crashed(c) /\ adapter[c].pid # Adapt!None => process[adapter[c].pid].state # "alive"
  BY DEF Adapt!Crashed, Adapt!LooksAlive
<1>5. \/ UNCHANGED adapter
      \/ Adapt!Crashed(c) /\ adapter' = [adapter EXCEPT ![c] = none]
  BY DEF Adapt!Scan
<1>6. adapter' \in [Channel -> [pid : Adapt!Pid, running : BOOLEAN]]
  BY <1>2, <1>3, <1>5
<1>7. FewerAdapters
  <2>1. \A d \in Channel :
           \/ adapter'[d] = adapter[d]
           \/ /\ adapter'[d] = none
              /\ adapter[d].pid # Adapt!None => process'[adapter[d].pid].state # "alive"
    BY <1>1, <1>2, <1>4, <1>5
  <2> QED
    BY <1>1, <1>6, <2>1 DEF FewerAdapters, AdaptInv, AdaptTyped, Adapt!TypeOK
<1>8. /\ watcher' \in Worker({"none", "asleep", "scan", "restart", "ended"})
      /\ watcher'.todo \subseteq watcher.todo
      /\ \/ watcher'.stage = "scan" /\ watcher'.at = watcher.at
         \/ /\ watcher'.stage = "restart" /\ watcher'.at = {c} /\ up
            /\ adapter' = [adapter EXCEPT ![c] = none]
  <2>1. CASE /\ watcher' = [stage |-> "restart", todo |-> watcher.todo \ {c}, at |-> {c}]
             /\ up /\ adapter' = [adapter EXCEPT ![c] = none]
    BY <1>1, <1>2, <2>1 DEF Worker
  <2>2. CASE watcher' = [watcher EXCEPT !.todo = watcher.todo \ {c}]
    BY <1>1, <1>2, <2>2 DEF Worker
  <2> QED
    BY <2>1, <2>2 DEF Adapt!Scan
<1>9. AdaptTyped'
  BY <1>1, <1>6, <1>8 DEF AdaptInv, AdaptTyped, Adapt!TypeOK, Worker
<1>10. \A d \in Channel : adapter'[d].pid # Adapt!None =>
         adapter'[d].pid = adapter[d].pid
         /\ process'[adapter'[d].pid].late = process[adapter[d].pid].late
  BY <1>7, FewerKeeps
<1>11. StagesAgree'
  <2>1. watcher'.stage = "restart" => \A d \in watcher'.at : adapter'[d].pid = Adapt!None
    BY <1>2, <1>3, <1>8
  <2>2. keeper.stage \in {"new", "up"} => watcher'.todo \cup watcher'.at \subseteq listed
    BY <1>1, <1>8 DEF AdaptInv, StagesAgree
  <2> QED
    BY <1>1, <1>10, <2>1, <2>2 DEF AdaptInv, StagesAgree
<1>12. LateIsOne'
  <2>1. watcher'.stage = "restart" => keeper.stage = "up"
    BY <1>8 DEF AdaptInv, StagesAgree
  <2> QED
    BY <1>1, <1>7, <1>10, <2>1 DEF AdaptInv, LateIsOne
<1> QED
  BY <1>7, <1>9, <1>11, <1>12, FewerKeeps DEF AdaptInv

\* The restart that was decided: the only one that may come late.
LEMMA RelaunchKeeps ==
    ASSUME Adapt!AdaptersAssumption, AdaptInv, NEW c \in Channel, Adapt!Relaunch(c)
    PROVE  AdaptInv'
<1>1. /\ watcher.stage = "restart" /\ c \in watcher.at
      /\ Adapt!Launched(c) \/ UNCHANGED <<process, adapter>>
      /\ watcher' = [watcher EXCEPT !.stage = "scan", !.at = {}]
      /\ UNCHANGED <<up, listed, autoReap, keeper>>
  BY Zenon DEF Adapt!Relaunch
<1>2. /\ watcher' \in Worker({"none", "asleep", "scan", "restart", "ended"})
      /\ watcher'.stage = "scan" /\ watcher'.at = {} /\ watcher'.todo = watcher.todo
  <2>1. watcher \in Worker({"none", "asleep", "scan", "restart", "ended"})
    BY DEF AdaptInv, AdaptTyped
  <2> QED
    BY <1>1, <2>1, Zenon DEF Worker
<1>3. adapter[c].pid = Adapt!None /\ \A p \in DOMAIN process : ~process[p].late
  BY <1>1 DEF AdaptInv, StagesAgree, LateIsOne
<1>4. keeper.stage # "new" /\ (keeper.stage = "up" => c \in listed)
  BY <1>1 DEF AdaptInv, StagesAgree
<1>5. CASE Adapt!Launched(c)
  <2>1. /\ process' \in Seq(Adapt!ProcessState) /\ Len(process') <= MaxProcesses
        /\ adapter' \in [Channel -> [pid : Adapt!Pid, running : BOOLEAN]]
        /\ Recorded' /\ LiveOnRecord'
        /\ DOMAIN process' = DOMAIN process \cup {adapter'[c].pid}
        /\ process'[adapter'[c].pid].late <=> keeper.stage \notin {"new", "up"}
        /\ \A p \in DOMAIN process : process'[p] = process[p]
        /\ \A d \in Channel : d # c => adapter'[d] = adapter[d]
    BY <1>3, <1>5, LaunchedKeeps
  <2>2. AdaptTyped'
    BY <1>1, <1>2, <2>1 DEF AdaptInv, AdaptTyped, Adapt!TypeOK, Worker
  <2>3. StagesAgree'
    BY <1>1, <1>2, <1>4, <2>1 DEF AdaptInv, StagesAgree
  <2>4. \A p, q \in DOMAIN process' : process'[p].late /\ process'[q].late => p = q
    BY <1>3, <2>1
  <2>5. keeper.stage \in {"new", "up"} => \A p \in DOMAIN process' : ~process'[p].late
    BY <1>3, <2>1
  <2>6. ASSUME keeper.stage \notin {"new", "up"}, NEW d \in Channel,
               adapter'[d].pid # Adapt!None
        PROVE  d \in keeper.todo \cup keeper.at \/ process'[adapter'[d].pid].late
    <3>1. CASE d = c
      BY <2>1, <2>6, <3>1
    <3>2. CASE d # c
      <4>1. adapter'[d] = adapter[d] /\ adapter[d].pid \in DOMAIN process
        BY <2>1, <2>6, <3>2 DEF AdaptInv, Recorded
      <4> QED
        BY <2>1, <2>6, <4>1 DEF AdaptInv, LateIsOne
    <3> QED
      BY <3>1, <3>2
  <2>7. LateIsOne'
    BY <1>1, <1>2, <2>4, <2>5, <2>6 DEF LateIsOne
  <2> QED
    BY <2>1, <2>2, <2>3, <2>7 DEF AdaptInv
<1>6. CASE UNCHANGED <<process, adapter>>
  <2>1. AdaptTyped'
    BY <1>1, <1>2, <1>6 DEF AdaptInv, AdaptTyped, Adapt!TypeOK, Worker
  <2>2. StagesAgree'
    BY <1>1, <1>2, <1>6 DEF AdaptInv, StagesAgree
  <2>3. LateIsOne'
    BY <1>1, <1>2, <1>6 DEF AdaptInv, LateIsOne
  <2> QED
    BY <1>6, <2>1, <2>2, <2>3 DEF AdaptInv, Recorded, LiveOnRecord
<1> QED
  BY <1>1, <1>5, <1>6

\* Stop begins, walks over the channels, clears the list and joins the monitor.
LEMMA StopKeeps ==
    ASSUME Adapt!AdaptersAssumption, AdaptInv,
           \/ Adapt!StopBegins \/ Adapt!ClearAdapters \/ Adapt!StopReturns
           \/ \E c \in Channel : Adapt!Terminate(c)
    PROVE  AdaptInv'
<1>1. UNCHANGED <<adapter, process, autoReap, watcher>>
  BY DEF Adapt!StopBegins, Adapt!ClearAdapters, Adapt!StopReturns, Adapt!Terminate
<1>2. /\ keeper \in Worker({"new", "up", "killing", "waiting", "joining", "stopped"})
      /\ listed \subseteq Channel /\ up \in BOOLEAN
  BY DEF AdaptInv, AdaptTyped, Adapt!TypeOK
<1>3. CASE Adapt!StopBegins
  <2>1. /\ keeper.stage = "up" /\ ~up' /\ up' \in BOOLEAN /\ listed' = listed
        /\ keeper' = [stage |-> "killing", todo |-> listed, at |-> {}]
    BY <1>3 DEF Adapt!StopBegins
  <2>2. /\ keeper' \in Worker({"new", "up", "killing", "waiting", "joining", "stopped"})
        /\ keeper'.stage = "killing" /\ keeper'.todo = listed /\ keeper'.at = {}
    BY <1>2, <2>1 DEF Worker
  <2>3. AdaptTyped'
    BY <1>1, <2>1, <2>2 DEF AdaptInv, AdaptTyped, Adapt!TypeOK, Worker
  <2>4. StagesAgree'
    BY <1>1, <2>1, <2>2 DEF AdaptInv, StagesAgree
  <2>5. LateIsOne'
    BY <1>1, <2>1, <2>2 DEF AdaptInv, LateIsOne, StagesAgree
  <2> QED
    BY <1>1, <2>3, <2>4, <2>5 DEF AdaptInv, Recorded, LiveOnRecord
<1>4. CASE \/ Adapt!ClearAdapters \/ Adapt!StopReturns
  <2>1. /\ keeper.stage \in {"killing", "joining"} /\ UNCHANGED up
        /\ listed' \subseteq listed /\ keeper.todo = {} /\ keeper.at = {}
        /\ \/ keeper' = [keeper EXCEPT !.stage = "joining"]
           \/ keeper' = [keeper EXCEPT !.stage = "stopped"]
    BY <1>4 DEF Adapt!ClearAdapters, Adapt!StopReturns, AdaptInv, StagesAgree
  <2>2. /\ keeper' \in Worker({"new", "up", "killing", "waiting", "joining", "stopped"})
        /\ keeper'.stage \in {"joining", "stopped"} /\ keeper'.todo = {} /\ keeper'.at = {}
    BY <1>2, <2>1 DEF Worker
  <2>3. AdaptTyped'
    BY <1>1, <2>1, <2>2 DEF AdaptInv, AdaptTyped, Adapt!TypeOK, Worker
  <2>4. StagesAgree'
    BY <1>1, <2>1, <2>2 DEF AdaptInv, StagesAgree
  <2>5. LateIsOne'
    BY <1>1, <2>1, <2>2 DEF AdaptInv, LateIsOne
  <2> QED
    BY <1>1, <2>3, <2>4, <2>5 DEF AdaptInv, Recorded, LiveOnRecord
<1>5. ASSUME NEW c \in Channel, Adapt!Terminate(c)
      PROVE  AdaptInv'
  <2>1. /\ keeper.stage = "killing" /\ UNCHANGED <<up, listed>> /\ keeper.at = {}
        /\ \/ keeper' = [stage |-> "waiting", todo |-> keeper.todo \ {c}, at |-> {c}]
           \/ adapter[c].pid = Adapt!None /\ keeper' = [keeper EXCEPT !.todo = keeper.todo \ {c}]
    BY <1>5 DEF Adapt!Terminate, AdaptInv, StagesAgree, Recorded
  <2>2. /\ keeper' \in Worker({"new", "up", "killing", "waiting", "joining", "stopped"})
        /\ keeper'.todo = keeper.todo \ {c}
        /\ \/ keeper'.stage = "waiting" /\ keeper'.at = {c}
           \/ keeper'.stage = "killing" /\ keeper'.at = {} /\ adapter[c].pid = Adapt!None
    BY <1>2, <2>1 DEF Worker
  <2>3. AdaptTyped'
    BY <1>1, <2>1, <2>2 DEF AdaptInv, AdaptTyped, Adapt!TypeOK, Worker
  <2>4. StagesAgree'
    BY <1>1, <2>1, <2>2 DEF AdaptInv, StagesAgree
  <2>5. LateIsOne'
    BY <1>1, <2>1, <2>2 DEF AdaptInv, LateIsOne
  <2> QED
    BY <1>1, <2>3, <2>4, <2>5 DEF AdaptInv, Recorded, LiveOnRecord
<1> QED
  BY <1>3, <1>4, <1>5

LEMMA KilledKeeps ==
    ASSUME Adapt!AdaptersAssumption, AdaptInv, NEW c \in Channel, Adapt!Killed(c)
    PROVE  AdaptInv'
<1> DEFINE none == [pid |-> Adapt!None, running |-> FALSE]
           i == adapter[c].pid
           s == [process[i] EXCEPT !.state = "gone"]
<1>1. /\ keeper.stage = "waiting" /\ c \in keeper.at
      /\ IF i # Adapt!None THEN process' = [process EXCEPT ![i] = s] ELSE UNCHANGED process
      /\ adapter' = [adapter EXCEPT ![c] = none]
      /\ keeper' = [keeper EXCEPT !.stage = "killing", !.at = {}]
      /\ UNCHANGED <<up, listed, autoReap, watcher>>
  BY Zenon DEF Adapt!Killed
<1>2. /\ process \in Seq(Adapt!ProcessState) /\ DOMAIN process = 1..Len(process)
      /\ Len(process) <= MaxProcesses /\ Len(process) \in Nat
      /\ adapter \in [Channel -> [pid : Adapt!Pid, running : BOOLEAN]]
      /\ \A p \in DOMAIN process : process[p] \in Adapt!ProcessState
  BY AdaptTypes DEF AdaptInv
<1>3. /\ keeper' \in Worker({"new", "up", "killing", "waiting", "joining", "stopped"})
      /\ keeper'.stage = "killing" /\ keeper'.todo = keeper.todo /\ keeper'.at = {}
  <2>1. keeper \in Worker({"new", "up", "killing", "waiting", "joining", "stopped"})
    BY DEF AdaptInv, AdaptTyped
  <2> QED
    BY <1>1, <2>1, Zenon DEF Worker
<1>4. none \in [pid : Adapt!Pid, running : BOOLEAN] /\ none.pid = Adapt!None
  BY DEF Adapt!Pid, Adapt!None, Adapt!AdaptersAssumption
<1>5. /\ adapter' \in [Channel -> [pid : Adapt!Pid, running : BOOLEAN]]
      /\ adapter'[c] = none /\ \A d \in Channel : d # c => adapter'[d] = adapter[d]
  BY <1>1, <1>2, <1>4
<1>6. i # Adapt!None => /\ i \in DOMAIN process /\ s \in Adapt!ProcessState /\ s.state = "gone"
                        /\ s.channel = process[i].channel /\ s.late = process[i].late
  <2>1. i # Adapt!None => i \in DOMAIN process
    BY DEF AdaptInv, Recorded
  <2> QED
    BY <1>2, <2>1 DEF Adapt!ProcessState
<1> HIDE DEF s, none
<1>7. /\ process' \in Seq(Adapt!ProcessState) /\ DOMAIN process' = DOMAIN process
      /\ Len(process') = Len(process)
      /\ \A p \in DOMAIN process : process'[p] = IF p = i /\ i # Adapt!None THEN s ELSE process[p]
  <2>1. CASE i = Adapt!None
    BY <1>1, <1>2, <2>1
  <2>2. CASE i # Adapt!None
    <3>1. process' = [process EXCEPT ![i] = s]
      BY <1>1, <2>2
    <3>2. i \in 1..Len(process) /\ s \in Adapt!ProcessState
      BY <1>2, <1>6, <2>2
    <3> HIDE DEF i
    <3> QED
      BY <1>2, <2>2, <3>1, <3>2
  <2> QED
    BY <2>1, <2>2
<1>8. FewerAdapters
  <2>1. \A d \in Channel :
           \/ adapter'[d] = adapter[d]
           \/ /\ adapter'[d] = none
              /\ adapter[d].pid # Adapt!None => process'[adapter[d].pid].state # "alive"
    BY <1>5, <1>6, <1>7
  <2>2. \A p \in DOMAIN process :
           /\ process'[p].channel = process[p].channel /\ process'[p].late = process[p].late
           /\ process'[p].state = "alive" => process[p].state = "alive"
    BY <1>6, <1>7
  <2> QED
    BY <1>2, <1>5, <1>7, <2>1, <2>2 DEF FewerAdapters, none
<1>9. AdaptTyped'
  BY <1>1, <1>2, <1>3, <1>5, <1>7 DEF AdaptInv, AdaptTyped, Adapt!TypeOK, Worker
<1>10. \A d \in Channel : adapter'[d].pid # Adapt!None =>
         /\ d # c /\ adapter'[d].pid = adapter[d].pid
         /\ process'[adapter'[d].pid].late = process[adapter[d].pid].late
  BY <1>4, <1>5, <1>8, FewerKeeps
<1>11. StagesAgree'
  BY <1>1, <1>3, <1>10 DEF AdaptInv, StagesAgree
<1>12. \A d \in keeper.at : d = c
  BY <1>1 DEF AdaptInv, StagesAgree
<1>13. LateIsOne'
  BY <1>1, <1>3, <1>8, <1>10, <1>12, FewerKeeps DEF AdaptInv, LateIsOne, FewerAdapters
<1> QED
  BY <1>8, <1>9, <1>11, <1>13, FewerKeeps DEF AdaptInv

LEMMA AdaptUnchanged ==
    ASSUME AdaptInv, UNCHANGED Adapt!adapterVars
    PROVE  AdaptInv'
BY DEF AdaptInv, Adapt!adapterVars, AdaptTyped, Adapt!TypeOK, Recorded, LiveOnRecord,
       StagesAgree, LateIsOne

LEMMA AdaptCounts == ASSUME NEW S PROVE Adapt!Cardinality(S) = Cardinality(S)
  BY DEF Adapt!Cardinality, Cardinality

\* Stop leaves no process of an adapter behind but the one whose restart the monitor
\* had decided upon before, a channel never has two, and one that lives is on record
\* while the manager is up, for any number of channels (adapter_manager.cpp).
THEOREM NeverStrays ==
    ASSUME Adapt!AdaptersAssumption PROVE Adapt!Spec => [](Adapt!TypeOK /\ Adapt!NoStrays)
<1>1. ASSUME Adapt!Init
      PROVE  AdaptInv
  <2>1. [pid |-> Adapt!None, running |-> FALSE] \in [pid : Adapt!Pid, running : BOOLEAN]
    BY DEF Adapt!Pid, Adapt!None, Adapt!AdaptersAssumption
  <2>2. adapter \in [Channel -> [pid : Adapt!Pid, running : BOOLEAN]]
        /\ \A c \in Channel : adapter[c].pid = Adapt!None /\ ~adapter[c].running
    BY <1>1, <2>1 DEF Adapt!Init
  <2>3. /\ process = <<>> /\ process \in Seq(Adapt!ProcessState) /\ Len(process) = 0
        /\ DOMAIN process = {}
    BY <1>1 DEF Adapt!Init
  <2>4. /\ watcher \in Worker({"none", "asleep", "scan", "restart", "ended"})
        /\ keeper \in Worker({"new", "up", "killing", "waiting", "joining", "stopped"})
        /\ watcher.stage = "none" /\ watcher.todo = {} /\ watcher.at = {}
        /\ keeper.stage = "new" /\ keeper.todo = {} /\ keeper.at = {}
    BY <1>1 DEF Adapt!Init, Worker
  <2>5. AdaptTyped
    <3>1. up \in BOOLEAN /\ autoReap \in BOOLEAN /\ listed \subseteq Channel
      BY <1>1 DEF Adapt!Init
    <3>3. Len(process) <= MaxProcesses
      BY <2>3 DEF Adapt!AdaptersAssumption
    <3>2. /\ watcher.stage \in {"none", "asleep", "scan", "restart", "ended"}
          /\ watcher.todo \subseteq Channel /\ watcher.at \subseteq Channel
          /\ keeper.stage \in {"new", "up", "killing", "waiting", "joining", "stopped"}
          /\ keeper.todo \subseteq Channel /\ keeper.at \subseteq Channel
      BY <2>4
    <3> QED
      BY <2>2, <2>3, <2>4, <3>1, <3>2, <3>3 DEF AdaptTyped, Adapt!TypeOK
  <2> QED
    BY <1>1, <2>2, <2>3, <2>4, <2>5
       DEF AdaptInv, Adapt!Init, Recorded, LiveOnRecord, StagesAgree, LateIsOne
<1>2. AdaptInv /\ [Adapt!Next]_(Adapt!adapterVars) => AdaptInv'
  BY StartKeeps, DiesKeeps, MonitorWaitsKeep, ScanKeeps, RelaunchKeeps, StopKeeps,
     KilledKeeps, AdaptUnchanged DEF Adapt!Next, Adapt!MonitorStep, Adapt!StopStep
<1>3. ASSUME AdaptInv
      PROVE  Adapt!NoStrays
  <2>1. \A p \in Adapt!Live : /\ p \in DOMAIN process /\ process[p].channel \in Channel
                              /\ p # Adapt!None /\ adapter[process[p].channel].pid = p
    BY <1>3, AdaptTypes DEF AdaptInv, LiveOnRecord, Adapt!Live
  <2>2. ASSUME keeper.stage = "stopped"
        PROVE  /\ Adapt!Cardinality(Adapt!Live) <= 1
               /\ \A p \in Adapt!Live : process[p].late
    <3>1. \A p \in Adapt!Live : process[p].late
      BY <1>3, <2>1, <2>2 DEF AdaptInv, LateIsOne, StagesAgree
    <3>2. \A p, q \in Adapt!Live : p = q
      BY <1>3, <2>1, <3>1 DEF AdaptInv, LateIsOne
    <3>3. Cardinality(Adapt!Live) \in {0, 1}
      <4>1. CASE Adapt!Live = {}
        BY <4>1, FS_EmptySet
      <4>2. ASSUME NEW p \in Adapt!Live
            PROVE  Cardinality(Adapt!Live) = 1
        <5>1. Adapt!Live = {p}
          BY <3>2, <4>2
        <5> QED
          BY <5>1, FS_Singleton
      <4> QED
        BY <4>1, <4>2
    <3> QED
      BY <3>1, <3>3, AdaptCounts
  <2> QED
    BY <2>1, <2>2 DEF Adapt!NoStrays
<1>4. AdaptInv => Adapt!TypeOK /\ Adapt!NoStrays
  BY <1>3 DEF AdaptInv, AdaptTyped
<1> QED
  BY <1>1, <1>2, <1>4, PTL DEF Adapt!Spec

LEMMA AdaptBehaves == Spec => Adapt!Spec
<1>1. Init => Adapt!Init
  BY DEF Init
<1>2. [Next]_vars => [Adapt!Next]_(Adapt!adapterVars)
  BY StepOfPart DEF adaptVars, Adapt!adapterVars
<1> QED
  BY <1>1, <1>2, PTL DEF Spec, Adapt!Spec

\* NeverStrays of the program as it is checked.
THEOREM AdaptersOfProcessesNeverStray == Spec => []NoStrays
<1>1. Adapt!AdaptersAssumption
  BY ProcessesAssumption DEF ProcessesAssumption
<1>2. Adapt!NoStrays <=> NoStrays
  BY DEF NoStrays
<1> QED
  BY <1>1, <1>2, AdaptBehaves, NeverStrays, PTL

(***************************************************************************)
(* The life of the gateway.                                                *)
(***************************************************************************)

\* What is up and what runs at each step of the main thread.
Built ==
    main.phase = "building" =>
      /\ stands["plugins"] = "up" <=> main.at > 3
      /\ main.at <= 4 => stands["server"] = "new"
      /\ main.at <= 5 => web = "none"
      /\ main.at <= 8 => looker = "none"

GivenUp ==
    main.phase = "failing" =>
      /\ main.at <= 4
      /\ failed /\ web = "none" /\ looker = "none"
      /\ stands["server"] # "up" /\ \A h \in Handler : requests[h] = "idle"
      /\ main.at > 2 => stands["queue"] \in {"stopped", "destroyed"}

Stopped ==
    main.phase = "stopping" =>
      /\ main.at <= 8
      /\ shutdown
      /\ main.at > 2 => web \in {"none", "ended"}
      /\ main.at > 4 => stands["server"] # "up" /\ \A h \in Handler : requests[h] = "idle"
      /\ main.at > 5 => looker = "ended"
      /\ main.at > 6 => stands["cron"] = "stopped"
      /\ main.at > 7 => stands["queue"] \in {"stopped", "destroyed"}

\* A part that was stopped has no work left.
WorkIsDone ==
    /\ stands["server"] = "new" => \A h \in Handler : requests[h] = "idle"
    /\ stands["cron"] = "stopped" => cron = "idle"
    /\ stands["queue"] \in {"stopped", "destroyed"} => turns = 0
    /\ stands["queue"] = "destroyed" => failed \/ exit # "none"
    /\ turns + (IF cron = "submitting" THEN 1 ELSE 0) <= fired

\* A handler that has looked for the sidecar saw it up, before the shutdown began.
Looked ==
    \A h \in Handler : requests[h] = "checked" => stands["plugins"] = "up" \/ main.phase = "stopping"

Over ==
    /\ main.phase = "over" => exit # "none"
    /\ Life!QueueOutlivesCron /\ Life!SidecarGoneInShutdownOnly /\ Life!NothingRunsAtReturn

LifeInv == Life!TypeOK /\ Built /\ GivenUp /\ Stopped /\ WorkIsDone /\ Looked /\ Over

LEMMA LifeTypes ==
    ASSUME Life!TypeOK
    PROVE  /\ main \in [phase : {"building", "stopping", "failing", "over"}, at : 1..9]
           /\ main.phase \in {"building", "stopping", "failing", "over"}
           /\ main.at \in 1..9 /\ main.at \in Nat
           /\ stands \in [Life!Parts -> {"new", "up", "stopped", "destroyed"}]
           /\ requests \in [Handler -> {"idle", "working", "checked", "calling"}]
           /\ "queue" \in Life!Parts /\ "cron" \in Life!Parts /\ "plugins" \in Life!Parts
           /\ "server" \in Life!Parts /\ "web" \in Life!Parts /\ "adapters" \in Life!Parts
  BY DEF Life!TypeOK, Life!Parts

\* Where the main thread is when it takes a step.
LEMMA StepsInOrder ==
    ASSUME LifeInv
    PROVE  /\ Life!Does("building", "queue") => main.phase = "building" /\ main.at = 1
           /\ Life!Does("building", "cron") => main.phase = "building" /\ main.at = 2
           /\ Life!Does("building", "plugins") => main.phase = "building" /\ main.at = 3
           /\ Life!Does("building", "server") => main.phase = "building" /\ main.at = 4
           /\ Life!Does("building", "web") => main.phase = "building" /\ main.at = 5
           /\ Life!Does("building", "adapters") => main.phase = "building" /\ main.at = 6
           /\ Life!Does("building", "install") => main.phase = "building" /\ main.at = 7
           /\ Life!Does("building", "watcher") => main.phase = "building" /\ main.at = 8
           /\ Life!Does("building", "wait") => main.phase = "building" /\ main.at = 9
           /\ Life!Does("stopping", "adapters") => main.phase = "stopping" /\ main.at = 1
           /\ Life!Does("stopping", "web") => main.phase = "stopping" /\ main.at = 2
           /\ Life!Does("stopping", "plugins") => main.phase = "stopping" /\ main.at = 3
           /\ Life!Does("stopping", "server") => main.phase = "stopping" /\ main.at = 4
           /\ Life!Does("stopping", "watcher") => main.phase = "stopping" /\ main.at = 5
           /\ Life!Does("stopping", "cron") => main.phase = "stopping" /\ main.at = 6
           /\ Life!Does("stopping", "queue") => main.phase = "stopping" /\ main.at = 7
           /\ Life!Does("stopping", "destroy") => main.phase = "stopping" /\ main.at = 8
           /\ Life!Does("failing", "plugins") => main.phase = "failing" /\ main.at = 1
           /\ Life!Does("failing", "queue") => main.phase = "failing" /\ main.at = 2
           /\ Life!Does("failing", "destroy") => main.phase = "failing" /\ main.at = 3
           /\ Life!Does("failing", "cron") => main.phase = "failing" /\ main.at = 4
           /\ ~Life!Does("failing", "adapters")
<1>1. main.at \in 1..9
  BY LifeTypes DEF LifeInv
<1>2. CASE main.phase = "building"
  BY <1>1, <1>2 DEF Life!Does, Life!Building
<1>3. CASE main.phase = "stopping"
  <2>1. main.at \in 1..8
    BY <1>1, <1>3 DEF LifeInv, Stopped
  <2> QED
    BY <1>3, <2>1 DEF Life!Does, Life!Stopping
<1>4. CASE main.phase = "failing"
  <2>1. main.at \in 1..4
    BY <1>1, <1>4 DEF LifeInv, GivenUp
  <2> QED
    BY <1>4, <2>1 DEF Life!Does, Life!Failing
<1>5. CASE main.phase \notin {"building", "stopping", "failing"}
  BY <1>5 DEF Life!Does
<1> QED
  BY <1>2, <1>3, <1>4, <1>5

LEMMA MainMoves ==
    ASSUME Life!TypeOK
    PROVE  /\ Life!Advance /\ main.at < 9 =>
                /\ main' \in [phase : {"building", "stopping", "failing", "over"}, at : 1..9]
                /\ main'.phase = main.phase /\ main'.at = main.at + 1
           /\ \A phase \in {"building", "stopping", "failing", "over"} : Life!Enter(phase) =>
                /\ main' \in [phase : {"building", "stopping", "failing", "over"}, at : 1..9]
                /\ main'.phase = phase /\ main'.at = 1
<1>1. main \in [phase : {"building", "stopping", "failing", "over"}, at : 1..9]
  BY DEF Life!TypeOK
<1>2. ASSUME Life!Advance, main.at < 9
      PROVE  /\ main' \in [phase : {"building", "stopping", "failing", "over"}, at : 1..9]
             /\ main'.phase = main.phase /\ main'.at = main.at + 1
  BY <1>1, <1>2 DEF Life!Advance
<1>3. ASSUME NEW phase \in {"building", "stopping", "failing", "over"}, Life!Enter(phase)
      PROVE  /\ main' \in [phase : {"building", "stopping", "failing", "over"}, at : 1..9]
             /\ main'.phase = phase /\ main'.at = 1
  BY <1>3 DEF Life!Enter
<1> QED
  BY <1>2, <1>3

LEMMA PartChanges ==
    ASSUME Life!TypeOK, NEW p \in Life!Parts, NEW s \in {"new", "up", "stopped", "destroyed"},
           Life!Becomes(p, s)
    PROVE  /\ stands' \in [Life!Parts -> {"new", "up", "stopped", "destroyed"}]
           /\ stands'[p] = s /\ \A q \in Life!Parts : q # p => stands'[q] = stands[q]
  BY DEF Life!Becomes, Life!TypeOK

\* The thread does something only while the program runs.
LEMMA DoesRuns == ASSUME NEW p, NEW s, Life!Does(p, s) PROVE exit = "none"
  BY DEF Life!Does, Life!Runs

(***************************************************************************)
(* The main thread builds.                                                 *)
(***************************************************************************)

LEMMA StartPartKeepsLife ==
    ASSUME Life!LifeAssumption, LifeInv, NEW p \in Life!Parts, Life!StartPart(p)
    PROVE  LifeInv'
<1>1. /\ Life!Does("building", p) /\ Life!Becomes(p, "up") /\ Life!Advance
      /\ p \in {"queue", "cron", "plugins", "adapters"}
      /\ UNCHANGED <<exit, shutdown, installed, failed, cron, turns, fired, web, looker,
                     requests, streams>>
  BY DEF Life!StartPart
<1>2. /\ main.phase = "building" /\ main.at \in {1, 2, 3, 6}
      /\ p = "plugins" <=> main.at = 3
  BY <1>1, StepsInOrder
<1>3. /\ main' \in [phase : {"building", "stopping", "failing", "over"}, at : 1..9]
      /\ main'.phase = "building" /\ main'.at = main.at + 1
  BY <1>1, <1>2, MainMoves DEF LifeInv
<1>4. /\ stands' \in [Life!Parts -> {"new", "up", "stopped", "destroyed"}]
      /\ stands'[p] = "up" /\ \A q \in Life!Parts : q # p => stands'[q] = stands[q]
  BY <1>1, PartChanges DEF LifeInv
<1>5. /\ "queue" \in Life!Parts /\ "cron" \in Life!Parts /\ "plugins" \in Life!Parts
      /\ "server" \in Life!Parts /\ exit = "none"
  BY <1>1, DoesRuns DEF Life!Parts
<1>6. Life!TypeOK'
  BY <1>1, <1>3, <1>4 DEF LifeInv, Life!TypeOK
<1>7. Built' /\ GivenUp' /\ Stopped'
  BY <1>1, <1>2, <1>3, <1>4, <1>5 DEF LifeInv, Built, GivenUp, Stopped
<1>8. WorkIsDone'
  BY <1>1, <1>4, <1>5 DEF LifeInv, WorkIsDone
<1>9. Looked' /\ Over'
  BY <1>1, <1>2, <1>3, <1>4, <1>5
     DEF LifeInv, Looked, Over, Life!QueueOutlivesCron, Life!SidecarGoneInShutdownOnly,
         Life!NothingRunsAtReturn
<1> QED
  BY <1>6, <1>7, <1>8, <1>9 DEF LifeInv

LEMMA StartServerKeeps ==
    ASSUME Life!LifeAssumption, LifeInv, Life!StartServer
    PROVE  LifeInv'
<1>1. /\ main.phase = "building" /\ main.at = 4 /\ exit = "none"
      /\ UNCHANGED <<exit, shutdown, installed, cron, turns, fired, web, looker, requests,
                     streams>>
  BY StepsInOrder, DoesRuns DEF Life!StartServer
<1>2. /\ "queue" \in Life!Parts /\ "cron" \in Life!Parts /\ "plugins" \in Life!Parts
      /\ "server" \in Life!Parts
  BY DEF Life!Parts
<1>3. CASE Life!Becomes("server", "up") /\ Life!Advance /\ UNCHANGED failed
  <2>1. /\ main' \in [phase : {"building", "stopping", "failing", "over"}, at : 1..9]
        /\ main'.phase = "building" /\ main'.at = 5
    BY <1>1, <1>3, MainMoves DEF LifeInv
  <2>2. /\ stands' \in [Life!Parts -> {"new", "up", "stopped", "destroyed"}]
        /\ stands'["server"] = "up"
        /\ \A q \in Life!Parts : q # "server" => stands'[q] = stands[q]
    BY <1>2, <1>3, PartChanges DEF LifeInv
  <2>3. Life!TypeOK'
    BY <1>1, <1>3, <2>1, <2>2 DEF LifeInv, Life!TypeOK
  <2>4. Built' /\ GivenUp' /\ Stopped'
    BY <1>1, <1>2, <2>1, <2>2 DEF LifeInv, Built, GivenUp, Stopped
  <2>5. WorkIsDone' /\ Looked' /\ Over'
    BY <1>1, <1>2, <1>3, <2>1, <2>2
       DEF LifeInv, WorkIsDone, Looked, Over, Life!QueueOutlivesCron,
           Life!SidecarGoneInShutdownOnly, Life!NothingRunsAtReturn
  <2> QED
    BY <2>3, <2>4, <2>5 DEF LifeInv
<1>4. CASE failed' = TRUE /\ Life!Enter("failing") /\ UNCHANGED stands
  <2>1. /\ main' \in [phase : {"building", "stopping", "failing", "over"}, at : 1..9]
        /\ main'.phase = "failing" /\ main'.at = 1
    BY <1>4, MainMoves DEF LifeInv
  <2>2. Life!TypeOK'
    BY <1>1, <1>4, <2>1 DEF LifeInv, Life!TypeOK
  <2>3. stands["server"] = "new" /\ web = "none" /\ looker = "none"
        /\ \A h \in Handler : requests[h] = "idle"
    BY <1>1 DEF LifeInv, Built, WorkIsDone
  <2>4. Built' /\ GivenUp' /\ Stopped'
    BY <1>1, <1>4, <2>1, <2>3 DEF Built, GivenUp, Stopped
  <2>5. WorkIsDone' /\ Looked' /\ Over'
    BY <1>1, <1>4, <2>1, <2>3
       DEF LifeInv, WorkIsDone, Looked, Over, Life!QueueOutlivesCron,
           Life!SidecarGoneInShutdownOnly, Life!NothingRunsAtReturn
  <2> QED
    BY <2>2, <2>4, <2>5 DEF LifeInv
<1> QED
  BY <1>3, <1>4 DEF Life!StartServer

LEMMA OtherBuildingKeeps ==
    ASSUME Life!LifeAssumption, LifeInv,
           \/ Life!StartWeb \/ Life!Install \/ Life!StartWatcher \/ Life!WaitEnds
    PROVE  LifeInv'
<1>1. /\ "queue" \in Life!Parts /\ "cron" \in Life!Parts /\ "plugins" \in Life!Parts
      /\ "server" \in Life!Parts /\ "web" \in Life!Parts
  BY DEF Life!Parts
<1>2. CASE Life!StartWeb
  <2>1. /\ main.phase = "building" /\ main.at = 5 /\ exit = "none"
        /\ Life!Becomes("web", "up") /\ web' = "starting" /\ Life!Advance
        /\ UNCHANGED <<exit, shutdown, installed, failed, cron, turns, fired, looker, requests,
                       streams>>
    BY <1>2, StepsInOrder, DoesRuns DEF Life!StartWeb
  <2>2. /\ main' \in [phase : {"building", "stopping", "failing", "over"}, at : 1..9]
        /\ main'.phase = "building" /\ main'.at = 6
    BY <2>1, MainMoves DEF LifeInv
  <2>3. /\ stands' \in [Life!Parts -> {"new", "up", "stopped", "destroyed"}]
        /\ \A q \in Life!Parts : q # "web" => stands'[q] = stands[q]
    BY <1>1, <2>1, PartChanges DEF LifeInv
  <2>4. Life!TypeOK'
    BY <2>1, <2>2, <2>3 DEF LifeInv, Life!TypeOK
  <2>5. Built' /\ GivenUp' /\ Stopped'
    BY <1>1, <2>1, <2>2, <2>3 DEF LifeInv, Built, GivenUp, Stopped
  <2>6. WorkIsDone' /\ Looked' /\ Over'
    BY <1>1, <2>1, <2>2, <2>3
       DEF LifeInv, WorkIsDone, Looked, Over, Life!QueueOutlivesCron,
           Life!SidecarGoneInShutdownOnly, Life!NothingRunsAtReturn
  <2> QED
    BY <2>4, <2>5, <2>6 DEF LifeInv
<1>3. CASE Life!Install \/ Life!StartWatcher
  <2>1. /\ main.phase = "building" /\ main.at \in {7, 8} /\ exit = "none" /\ Life!Advance
        /\ installed' \in BOOLEAN /\ shutdown' \in BOOLEAN
        /\ looker' = looker \/ (looker' = "asleep" /\ main.at = 8)
        /\ UNCHANGED <<exit, failed, stands, cron, turns, fired, web, requests, streams>>
    BY <1>3, StepsInOrder, DoesRuns DEF Life!Install, Life!StartWatcher, LifeInv, Life!TypeOK
  <2>2. /\ main' \in [phase : {"building", "stopping", "failing", "over"}, at : 1..9]
        /\ main'.phase = "building" /\ main'.at = main.at + 1
    BY <2>1, MainMoves DEF LifeInv
  <2>3. Life!TypeOK'
    BY <2>1, <2>2 DEF LifeInv, Life!TypeOK
  <2>4. Built' /\ GivenUp' /\ Stopped'
    BY <2>1, <2>2 DEF LifeInv, Built, GivenUp, Stopped
  <2>5. WorkIsDone' /\ Looked' /\ Over'
    BY <2>1, <2>2
       DEF LifeInv, WorkIsDone, Looked, Over, Life!QueueOutlivesCron,
           Life!SidecarGoneInShutdownOnly, Life!NothingRunsAtReturn
  <2> QED
    BY <2>3, <2>4, <2>5 DEF LifeInv
<1>4. CASE Life!WaitEnds
  <2>1. /\ main.phase = "building" /\ main.at = 9 /\ exit = "none" /\ shutdown
        /\ Life!Enter("stopping")
        /\ UNCHANGED <<exit, shutdown, installed, failed, stands, cron, turns, fired, web,
                       looker, requests, streams>>
    BY <1>4, StepsInOrder, DoesRuns DEF Life!WaitEnds
  <2>2. /\ main' \in [phase : {"building", "stopping", "failing", "over"}, at : 1..9]
        /\ main'.phase = "stopping" /\ main'.at = 1
    BY <2>1, MainMoves DEF LifeInv
  <2>3. Life!TypeOK'
    BY <2>1, <2>2 DEF LifeInv, Life!TypeOK
  <2>4. Built' /\ GivenUp' /\ Stopped'
    BY <2>1, <2>2 DEF Built, GivenUp, Stopped
  <2>5. WorkIsDone' /\ Looked' /\ Over'
    BY <2>1, <2>2
       DEF LifeInv, WorkIsDone, Looked, Over, Life!QueueOutlivesCron,
           Life!SidecarGoneInShutdownOnly, Life!NothingRunsAtReturn
  <2> QED
    BY <2>3, <2>4, <2>5 DEF LifeInv
<1> QED
  BY <1>2, <1>3, <1>4

(***************************************************************************)
(* The main thread stops.                                                  *)
(***************************************************************************)

LEMMA StopWebKeeps ==
    ASSUME Life!LifeAssumption, LifeInv, Life!StopWeb
    PROVE  LifeInv'
<1>1. /\ main.phase = "stopping" /\ main.at = 2 /\ exit = "none"
      /\ UNCHANGED <<exit, shutdown, installed, failed, cron, turns, fired, looker, requests,
                     streams>>
  BY StepsInOrder, DoesRuns DEF Life!StopWeb
<1>2. /\ "queue" \in Life!Parts /\ "cron" \in Life!Parts /\ "plugins" \in Life!Parts
      /\ "server" \in Life!Parts /\ "web" \in Life!Parts
  BY DEF Life!Parts
<1>3. CASE Life!Is("web", "up")
  <2>1. /\ Life!Becomes("web", "stopped") /\ UNCHANGED main
        /\ web' = web \/ web' = "ended"
    BY <1>3 DEF Life!StopWeb
  <2>2. /\ stands' \in [Life!Parts -> {"new", "up", "stopped", "destroyed"}]
        /\ \A q \in Life!Parts : q # "web" => stands'[q] = stands[q]
    BY <1>2, <2>1, PartChanges DEF LifeInv
  <2>3. Life!TypeOK'
    BY <1>1, <2>1, <2>2 DEF LifeInv, Life!TypeOK
  <2>4. Built' /\ GivenUp' /\ Stopped'
    BY <1>1, <1>2, <2>1, <2>2 DEF LifeInv, Built, GivenUp, Stopped
  <2>5. WorkIsDone' /\ Looked' /\ Over'
    BY <1>1, <1>2, <2>1, <2>2
       DEF LifeInv, WorkIsDone, Looked, Over, Life!QueueOutlivesCron,
           Life!SidecarGoneInShutdownOnly, Life!NothingRunsAtReturn
  <2> QED
    BY <2>3, <2>4, <2>5 DEF LifeInv
<1>4. CASE web \in {"none", "ended"} /\ Life!Advance /\ UNCHANGED <<stands, web>>
  <2>1. /\ main' \in [phase : {"building", "stopping", "failing", "over"}, at : 1..9]
        /\ main'.phase = "stopping" /\ main'.at = 3
    BY <1>1, <1>4, MainMoves DEF LifeInv
  <2>2. Life!TypeOK'
    BY <1>1, <1>4, <2>1 DEF LifeInv, Life!TypeOK
  <2>3. Built' /\ GivenUp' /\ Stopped'
    BY <1>1, <1>4, <2>1 DEF LifeInv, Built, GivenUp, Stopped
  <2>4. WorkIsDone' /\ Looked' /\ Over'
    BY <1>1, <1>4, <2>1
       DEF LifeInv, WorkIsDone, Looked, Over, Life!QueueOutlivesCron,
           Life!SidecarGoneInShutdownOnly, Life!NothingRunsAtReturn
  <2> QED
    BY <2>2, <2>3, <2>4 DEF LifeInv
<1> QED
  BY <1>3, <1>4 DEF Life!StopWeb

\* The adapters, and the plugins: from here on no sidecar is there.
LEMMA StopPartKeeps ==
    ASSUME Life!LifeAssumption, LifeInv, NEW p \in Life!Parts, Life!StopPart(p)
    PROVE  LifeInv'
<1>1. /\ p \in {"adapters", "plugins"} /\ Life!Becomes(p, "stopped") /\ Life!Advance
      /\ Life!Does("stopping", p) \/ Life!Does("failing", p)
      /\ UNCHANGED <<exit, shutdown, installed, failed, cron, turns, fired, web, looker,
                     requests, streams>>
  BY DEF Life!StopPart
<1>2. /\ exit = "none"
      /\ \/ main.phase = "stopping" /\ main.at \in {1, 3}
         \/ main.phase = "failing" /\ main.at = 1
  BY <1>1, StepsInOrder, DoesRuns
<1>3. /\ "queue" \in Life!Parts /\ "cron" \in Life!Parts /\ "plugins" \in Life!Parts
      /\ "server" \in Life!Parts
  BY DEF Life!Parts
<1>4. /\ main' \in [phase : {"building", "stopping", "failing", "over"}, at : 1..9]
      /\ main'.phase = main.phase /\ main'.at = main.at + 1
  BY <1>1, <1>2, MainMoves DEF LifeInv
<1>5. /\ stands' \in [Life!Parts -> {"new", "up", "stopped", "destroyed"}]
      /\ \A q \in Life!Parts : q # p => stands'[q] = stands[q]
  BY <1>1, PartChanges DEF LifeInv
<1>6. Life!TypeOK'
  BY <1>1, <1>4, <1>5 DEF LifeInv, Life!TypeOK
<1>7. Built' /\ GivenUp' /\ Stopped'
  BY <1>1, <1>2, <1>3, <1>4, <1>5 DEF LifeInv, Built, GivenUp, Stopped
<1>8. WorkIsDone'
  BY <1>1, <1>3, <1>5 DEF LifeInv, WorkIsDone
<1>9. Looked'
  BY <1>1, <1>2, <1>4 DEF LifeInv, Looked, GivenUp
<1>10. Over'
  BY <1>1, <1>2, <1>4
     DEF LifeInv, Over, Life!QueueOutlivesCron, Life!SidecarGoneInShutdownOnly,
         Life!NothingRunsAtReturn
<1> QED
  BY <1>6, <1>7, <1>8, <1>9, <1>10 DEF LifeInv

LEMMA StopServerKeeps ==
    ASSUME Life!LifeAssumption, LifeInv, Life!StopServer
    PROVE  LifeInv'
<1>1. /\ main.phase = "stopping" /\ main.at = 4 /\ exit = "none"
      /\ UNCHANGED <<exit, shutdown, installed, failed, cron, turns, fired, web, looker,
                     requests, streams>>
  BY StepsInOrder, DoesRuns DEF Life!StopServer
<1>2. /\ "queue" \in Life!Parts /\ "cron" \in Life!Parts /\ "plugins" \in Life!Parts
      /\ "server" \in Life!Parts
  BY DEF Life!Parts
<1>3. CASE Life!Becomes("server", "stopped") /\ UNCHANGED main
  <2>1. /\ stands' \in [Life!Parts -> {"new", "up", "stopped", "destroyed"}]
        /\ stands'["server"] = "stopped"
        /\ \A q \in Life!Parts : q # "server" => stands'[q] = stands[q]
    BY <1>2, <1>3, PartChanges DEF LifeInv
  <2>2. Life!TypeOK'
    BY <1>1, <1>3, <2>1 DEF LifeInv, Life!TypeOK
  <2>3. Built' /\ GivenUp' /\ Stopped'
    BY <1>1, <1>2, <1>3, <2>1 DEF LifeInv, Built, GivenUp, Stopped
  <2>4. WorkIsDone' /\ Looked' /\ Over'
    BY <1>1, <1>2, <1>3, <2>1
       DEF LifeInv, WorkIsDone, Looked, Over, Life!QueueOutlivesCron,
           Life!SidecarGoneInShutdownOnly, Life!NothingRunsAtReturn
  <2> QED
    BY <2>2, <2>3, <2>4 DEF LifeInv
<1>4. CASE /\ ~Life!Is("server", "up") /\ \A h \in Handler : requests[h] = "idle"
           /\ Life!Advance /\ UNCHANGED stands
  <2>1. /\ main' \in [phase : {"building", "stopping", "failing", "over"}, at : 1..9]
        /\ main'.phase = "stopping" /\ main'.at = 5
    BY <1>1, <1>4, MainMoves DEF LifeInv
  <2>2. Life!TypeOK'
    BY <1>1, <1>4, <2>1 DEF LifeInv, Life!TypeOK
  <2>3. Built' /\ GivenUp' /\ Stopped'
    BY <1>1, <1>4, <2>1 DEF LifeInv, Built, GivenUp, Stopped, Life!Is
  <2>4. WorkIsDone' /\ Looked' /\ Over'
    BY <1>1, <1>4, <2>1
       DEF LifeInv, WorkIsDone, Looked, Over, Life!QueueOutlivesCron,
           Life!SidecarGoneInShutdownOnly, Life!NothingRunsAtReturn
  <2> QED
    BY <2>2, <2>3, <2>4 DEF LifeInv
<1> QED
  BY <1>3, <1>4 DEF Life!StopServer

LEMMA JoinWatcherKeeps ==
    ASSUME Life!LifeAssumption, LifeInv, Life!JoinWatcher
    PROVE  LifeInv'
<1>1. /\ main.phase = "stopping" /\ main.at = 5 /\ exit = "none"
      /\ looker' = "ended" /\ Life!Advance
      /\ UNCHANGED <<exit, shutdown, installed, failed, stands, cron, turns, fired, web,
                     requests, streams>>
  BY StepsInOrder, DoesRuns DEF Life!JoinWatcher
<1>2. /\ main' \in [phase : {"building", "stopping", "failing", "over"}, at : 1..9]
      /\ main'.phase = "stopping" /\ main'.at = 6
  BY <1>1, MainMoves DEF LifeInv
<1>3. Life!TypeOK'
  BY <1>1, <1>2 DEF LifeInv, Life!TypeOK
<1>4. Built' /\ GivenUp' /\ Stopped'
  BY <1>1, <1>2 DEF LifeInv, Built, GivenUp, Stopped
<1>5. WorkIsDone' /\ Looked' /\ Over'
  BY <1>1, <1>2
     DEF LifeInv, WorkIsDone, Looked, Over, Life!QueueOutlivesCron,
         Life!SidecarGoneInShutdownOnly, Life!NothingRunsAtReturn
<1> QED
  BY <1>3, <1>4, <1>5 DEF LifeInv

LEMMA StopCronKeeps ==
    ASSUME Life!LifeAssumption, LifeInv, Life!StopCron
    PROVE  LifeInv'
<1>1. /\ exit = "none" /\ cron = "idle" /\ Life!Becomes("cron", "stopped")
      /\ \/ main.phase = "stopping" /\ main.at = 6
         \/ main.phase = "failing" /\ main.at = 4
      /\ UNCHANGED <<shutdown, installed, failed, cron, turns, fired, web, looker, requests,
                     streams>>
  BY StepsInOrder, DoesRuns DEF Life!StopCron
<1>2. /\ "queue" \in Life!Parts /\ "cron" \in Life!Parts /\ "plugins" \in Life!Parts
      /\ "server" \in Life!Parts
  BY DEF Life!Parts
<1>3. /\ stands' \in [Life!Parts -> {"new", "up", "stopped", "destroyed"}]
      /\ stands'["cron"] = "stopped"
      /\ \A q \in Life!Parts : q # "cron" => stands'[q] = stands[q]
  BY <1>1, <1>2, PartChanges DEF LifeInv
<1>4. CASE main.phase = "failing"
  <2>1. exit' = "returned" /\ main' = [phase |-> "over", at |-> 1]
    BY <1>4 DEF Life!StopCron
  <2>2. /\ main' \in [phase : {"building", "stopping", "failing", "over"}, at : 1..9]
        /\ main'.phase = "over"
    BY <2>1
  <2>3. Life!TypeOK'
    BY <1>1, <1>3, <2>1, <2>2 DEF LifeInv, Life!TypeOK
  <2>4. Built' /\ GivenUp' /\ Stopped'
    BY <2>2 DEF Built, GivenUp, Stopped
  <2>5. WorkIsDone' /\ Looked'
    BY <1>1, <1>2, <1>3, <1>4, <2>1 DEF LifeInv, WorkIsDone, Looked, GivenUp
  <2>6. Over'
    BY <1>1, <1>4, <2>1
       DEF LifeInv, Over, GivenUp, WorkIsDone, Life!QueueOutlivesCron,
           Life!SidecarGoneInShutdownOnly, Life!NothingRunsAtReturn
  <2> QED
    BY <2>3, <2>4, <2>5, <2>6 DEF LifeInv
<1>5. CASE main.phase # "failing"
  <2>1. Life!Advance /\ UNCHANGED exit
    BY <1>5 DEF Life!StopCron
  <2>2. /\ main' \in [phase : {"building", "stopping", "failing", "over"}, at : 1..9]
        /\ main'.phase = "stopping" /\ main'.at = 7
    BY <1>1, <1>5, <2>1, MainMoves DEF LifeInv
  <2>3. Life!TypeOK'
    BY <1>1, <1>3, <2>1, <2>2 DEF LifeInv, Life!TypeOK
  <2>4. Built' /\ GivenUp' /\ Stopped'
    BY <1>1, <1>2, <1>3, <1>5, <2>2 DEF LifeInv, Built, GivenUp, Stopped
  <2>5. WorkIsDone' /\ Looked' /\ Over'
    BY <1>1, <1>2, <1>3, <2>1, <2>2
       DEF LifeInv, WorkIsDone, Looked, Over, Life!QueueOutlivesCron,
           Life!SidecarGoneInShutdownOnly, Life!NothingRunsAtReturn
  <2> QED
    BY <2>3, <2>4, <2>5 DEF LifeInv
<1> QED
  BY <1>4, <1>5

LEMMA StopQueueKeeps ==
    ASSUME Life!LifeAssumption, LifeInv, Life!StopQueue
    PROVE  LifeInv'
<1>1. /\ exit = "none" /\ turns = 0 /\ Life!Becomes("queue", "stopped") /\ Life!Advance
      /\ \/ main.phase = "stopping" /\ main.at = 7
         \/ main.phase = "failing" /\ main.at = 2
      /\ UNCHANGED <<exit, shutdown, installed, failed, cron, turns, fired, web, looker,
                     requests, streams>>
  BY StepsInOrder, DoesRuns DEF Life!StopQueue
<1>2. /\ "queue" \in Life!Parts /\ "cron" \in Life!Parts /\ "plugins" \in Life!Parts
      /\ "server" \in Life!Parts
  BY DEF Life!Parts
<1>3. /\ stands' \in [Life!Parts -> {"new", "up", "stopped", "destroyed"}]
      /\ stands'["queue"] = "stopped"
      /\ \A q \in Life!Parts : q # "queue" => stands'[q] = stands[q]
  BY <1>1, <1>2, PartChanges DEF LifeInv
<1>4. /\ main' \in [phase : {"building", "stopping", "failing", "over"}, at : 1..9]
      /\ main'.phase = main.phase /\ main'.at = main.at + 1
  BY <1>1, MainMoves DEF LifeInv
<1>5. Life!TypeOK'
  BY <1>1, <1>3, <1>4 DEF LifeInv, Life!TypeOK
<1>6. Built' /\ GivenUp' /\ Stopped'
  BY <1>1, <1>2, <1>3, <1>4 DEF LifeInv, Built, GivenUp, Stopped
<1>7. WorkIsDone' /\ Looked' /\ Over'
  BY <1>1, <1>2, <1>3, <1>4
     DEF LifeInv, WorkIsDone, Looked, Over, Life!QueueOutlivesCron,
         Life!SidecarGoneInShutdownOnly, Life!NothingRunsAtReturn
<1> QED
  BY <1>5, <1>6, <1>7 DEF LifeInv

\* The gateway returns, or goes on to the scheduler if the server could not listen:
\* everything else has been stopped.
LEMMA DestroyKeeps ==
    ASSUME Life!LifeAssumption, LifeInv, Life!Destroy
    PROVE  LifeInv'
<1>1. /\ exit = "none"
      /\ \/ main.phase = "stopping" /\ main.at = 8
         \/ main.phase = "failing" /\ main.at = 3
      /\ stands' = [p \in Life!Parts |-> IF p # "cron" \/ Life!Is("cron", "stopped")
                                         THEN "destroyed" ELSE stands[p]]
      /\ UNCHANGED <<shutdown, installed, failed, cron, turns, fired, web, looker, requests,
                     streams>>
  BY StepsInOrder, DoesRuns DEF Life!Destroy
<1>2. /\ "queue" \in Life!Parts /\ "cron" \in Life!Parts /\ "plugins" \in Life!Parts
      /\ "server" \in Life!Parts
  BY DEF Life!Parts
<1>3. /\ stands' \in [Life!Parts -> {"new", "up", "stopped", "destroyed"}]
      /\ stands'["queue"] = "destroyed" /\ stands'["server"] = "destroyed"
      /\ stands'["cron"] = "destroyed" \/ stands'["cron"] = stands["cron"]
  BY <1>1, <1>2, LifeTypes DEF LifeInv
<1>4. turns = 0
  BY <1>1 DEF LifeInv, GivenUp, Stopped, WorkIsDone
<1>5. CASE main.phase = "failing"
  <2>1. Life!Advance /\ UNCHANGED exit
    BY <1>5 DEF Life!Destroy
  <2>2. /\ main' \in [phase : {"building", "stopping", "failing", "over"}, at : 1..9]
        /\ main'.phase = "failing" /\ main'.at = 4
    BY <1>1, <1>5, <2>1, MainMoves DEF LifeInv
  <2>3. Life!TypeOK'
    BY <1>1, <1>3, <2>1, <2>2 DEF LifeInv, Life!TypeOK
  <2>4. Built' /\ GivenUp' /\ Stopped'
    BY <1>1, <1>3, <1>5, <2>2 DEF LifeInv, Built, GivenUp, Stopped
  <2>5. WorkIsDone' /\ Looked'
    BY <1>1, <1>3, <1>4, <1>5, <2>1, <2>2 DEF LifeInv, WorkIsDone, Looked, GivenUp
  <2>6. Over'
    BY <1>1, <2>1, <2>2
       DEF LifeInv, Over, Life!QueueOutlivesCron, Life!SidecarGoneInShutdownOnly,
           Life!NothingRunsAtReturn
  <2> QED
    BY <2>3, <2>4, <2>5, <2>6 DEF LifeInv
<1>6. CASE main.phase # "failing"
  <2>1. main' = [phase |-> "over", at |-> 1] /\ exit' \in {"returned", "deadRegistry"}
    BY <1>6 DEF Life!Destroy
  <2>2. /\ main' \in [phase : {"building", "stopping", "failing", "over"}, at : 1..9]
        /\ main'.phase = "over"
    BY <2>1
  <2>3. Life!TypeOK'
    BY <1>1, <1>3, <2>1, <2>2 DEF LifeInv, Life!TypeOK
  <2>4. Built' /\ GivenUp' /\ Stopped'
    BY <2>2 DEF Built, GivenUp, Stopped
  <2>5. cron = "idle" /\ looker = "ended" /\ web \in {"none", "ended"}
        /\ \A h \in Handler : requests[h] = "idle"
    BY <1>1, <1>6 DEF LifeInv, Stopped, WorkIsDone
  <2>6. WorkIsDone' /\ Looked'
    BY <1>1, <1>3, <1>4, <2>1, <2>5 DEF LifeInv, WorkIsDone, Looked
  <2>7. Over'
    BY <1>1, <1>4, <2>1, <2>5
       DEF LifeInv, Over, Life!QueueOutlivesCron, Life!SidecarGoneInShutdownOnly,
           Life!NothingRunsAtReturn
  <2> QED
    BY <2>3, <2>4, <2>6, <2>7 DEF LifeInv
<1> QED
  BY <1>5, <1>6

(***************************************************************************)
(* The other threads.                                                      *)
(***************************************************************************)

LEMMA CronKeeps ==
    ASSUME Life!LifeAssumption, LifeInv, Life!CronFires \/ Life!CronSubmits \/ Life!TurnEnds
    PROVE  LifeInv'
<1>1. /\ exit = "none"
      /\ UNCHANGED <<main, shutdown, installed, failed, stands, web, looker, requests, streams>>
  BY DEF Life!CronFires, Life!CronSubmits, Life!TurnEnds, Life!Runs
<1>2. turns \in 0..MaxTurns /\ fired \in 0..MaxTurns /\ MaxTurns \in Nat
      /\ cron \in {"idle", "submitting"}
  BY DEF LifeInv, Life!TypeOK, Life!LifeAssumption
<1>3. turns + (IF cron = "submitting" THEN 1 ELSE 0) <= fired
  BY DEF LifeInv, WorkIsDone
<1>4. /\ turns' \in 0..MaxTurns /\ fired' \in 0..MaxTurns /\ cron' \in {"idle", "submitting"}
      /\ turns' + (IF cron' = "submitting" THEN 1 ELSE 0) <= fired'
      /\ turns' > turns => stands["queue"] = "up"
      /\ cron' = "submitting" => cron = "submitting" \/ stands["cron"] = "up"
      /\ exit' = exit \/ (exit' = "deadQueue" /\ stands["queue"] = "destroyed")
  <2>1. CASE Life!CronFires
    BY <1>2, <1>3, <2>1 DEF Life!CronFires, Life!Is
  <2>2. CASE Life!CronSubmits
    BY <1>2, <1>3, <2>2 DEF Life!CronSubmits, Life!Is
  <2>3. CASE Life!TurnEnds
    BY <1>2, <1>3, <2>3 DEF Life!TurnEnds
  <2> QED
    BY <2>1, <2>2, <2>3
<1>5. Life!TypeOK'
  BY <1>1, <1>4 DEF LifeInv, Life!TypeOK
<1>6. Built' /\ GivenUp' /\ Stopped' /\ Looked'
  BY <1>1 DEF LifeInv, Built, GivenUp, Stopped, Looked
<1>7. WorkIsDone'
  <2>1. stands'["server"] = "new" => \A h \in Handler : requests'[h] = "idle"
    BY <1>1 DEF LifeInv, WorkIsDone
  <2>2. stands'["cron"] = "stopped" => cron' = "idle"
    BY <1>1, <1>2, <1>4 DEF LifeInv, WorkIsDone
  <2>3. stands'["queue"] \in {"stopped", "destroyed"} => turns' = 0
    BY <1>1, <1>2, <1>4 DEF LifeInv, WorkIsDone
  <2>4. stands'["queue"] = "destroyed" => failed' \/ exit' # "none"
    BY <1>1, <1>4 DEF LifeInv, WorkIsDone
  <2> QED
    BY <1>4, <2>1, <2>2, <2>3, <2>4 DEF WorkIsDone
<1>8. Over'
  BY <1>1, <1>4
     DEF LifeInv, WorkIsDone, Over, Life!QueueOutlivesCron, Life!SidecarGoneInShutdownOnly,
         Life!NothingRunsAtReturn
<1> QED
  BY <1>5, <1>6, <1>7, <1>8 DEF LifeInv

LEMMA ServersKeep ==
    ASSUME Life!LifeAssumption, LifeInv,
           Life!WebListens \/ Life!StreamBegins \/ Life!StreamEnds \/ Life!WatcherReloads
    PROVE  LifeInv'
<1>1. /\ exit = "none"
      /\ UNCHANGED <<main, exit, shutdown, installed, failed, stands, cron, turns, fired,
                     requests>>
  BY DEF Life!WebListens, Life!StreamBegins, Life!StreamEnds, Life!WatcherReloads, Life!Runs
<1>2. /\ streams' \in 0..1
      /\ web' = web \/ (web = "starting" /\ web' \in {"listening", "ended"})
      /\ looker' = looker \/ (looker \notin {"none", "ended"} /\ looker' \in {"reloading", "asleep"})
  BY DEF Life!WebListens, Life!StreamBegins, Life!StreamEnds, Life!WatcherReloads,
         LifeInv, Life!TypeOK
<1>3. Life!TypeOK'
  BY <1>1, <1>2 DEF LifeInv, Life!TypeOK
<1>4. Built' /\ GivenUp' /\ Stopped'
  BY <1>1, <1>2 DEF LifeInv, Built, GivenUp, Stopped
<1>5. WorkIsDone' /\ Looked' /\ Over'
  BY <1>1
     DEF LifeInv, WorkIsDone, Looked, Over, Life!QueueOutlivesCron,
         Life!SidecarGoneInShutdownOnly, Life!NothingRunsAtReturn
<1> QED
  BY <1>3, <1>4, <1>5 DEF LifeInv

LEMMA HandlersKeep ==
    ASSUME Life!LifeAssumption, LifeInv, NEW h \in Handler,
           Life!HandlerBegins(h) \/ Life!HandlerCalls(h) \/ Life!HandlerEnds(h)
    PROVE  LifeInv'
<1>1. /\ exit = "none"
      /\ UNCHANGED <<main, shutdown, installed, failed, stands, cron, turns, fired, web, looker,
                     streams>>
  BY DEF Life!HandlerBegins, Life!HandlerCalls, Life!HandlerEnds, Life!Runs
<1>2. requests \in [Handler -> {"idle", "working", "checked", "calling"}]
  BY LifeTypes DEF LifeInv
<1>3. PICK s \in {"idle", "working", "checked", "calling"} :
        /\ requests' = [requests EXCEPT ![h] = s]
        /\ stands["server"] = "up" \/ requests[h] # "idle"
        /\ s = "checked" => stands["plugins"] = "up"
        /\ \/ exit' = exit
           \/ exit' = "noSidecar" /\ requests[h] = "checked" /\ stands["plugins"] # "up"
  BY DEF Life!HandlerBegins, Life!HandlerCalls, Life!HandlerEnds, Life!Is
<1>4. /\ requests' \in [Handler -> {"idle", "working", "checked", "calling"}]
      /\ \A k \in Handler : requests'[k] = IF k = h THEN s ELSE requests[k]
  BY <1>2, <1>3
<1>5. Life!TypeOK'
  BY <1>1, <1>3, <1>4 DEF LifeInv, Life!TypeOK
<1>6. Built' /\ GivenUp' /\ Stopped'
  BY <1>1, <1>3, <1>4 DEF LifeInv, Built, GivenUp, Stopped
<1>7. WorkIsDone'
  BY <1>1, <1>3, <1>4 DEF LifeInv, WorkIsDone
<1>8. Looked'
  BY <1>1, <1>3, <1>4 DEF LifeInv, Looked
<1>9. Over'
  <2>1. exit' = "noSidecar" => main.phase = "stopping" /\ shutdown
    BY <1>1, <1>3 DEF LifeInv, Looked, Stopped
  <2> QED
    BY <1>1, <1>3, <2>1
       DEF LifeInv, Over, Life!QueueOutlivesCron, Life!SidecarGoneInShutdownOnly,
           Life!NothingRunsAtReturn
<1> QED
  BY <1>5, <1>6, <1>7, <1>8, <1>9 DEF LifeInv

LEMMA SignalKeeps ==
    ASSUME Life!LifeAssumption, LifeInv, Life!Signal
    PROVE  LifeInv'
<1>1. /\ exit = "none" /\ exit' \in {"none", "killed", "forced"}
      /\ shutdown' \in BOOLEAN /\ (shutdown => shutdown')
      /\ UNCHANGED <<main, installed, failed, stands, cron, turns, fired, web, looker, requests,
                     streams>>
  BY DEF Life!Signal, Life!Runs, LifeInv, Life!TypeOK
<1>2. Life!TypeOK'
  BY <1>1 DEF LifeInv, Life!TypeOK
<1>3. Built' /\ GivenUp' /\ Stopped'
  BY <1>1 DEF LifeInv, Built, GivenUp, Stopped
<1>4. WorkIsDone' /\ Looked'
  BY <1>1 DEF LifeInv, WorkIsDone, Looked
<1>5. Over'
  BY <1>1
     DEF LifeInv, Over, Life!QueueOutlivesCron, Life!SidecarGoneInShutdownOnly,
         Life!NothingRunsAtReturn
<1> QED
  BY <1>2, <1>3, <1>4, <1>5 DEF LifeInv

LEMMA LifeUnchanged ==
    ASSUME LifeInv, UNCHANGED Life!lifeVars
    PROVE  LifeInv'
BY DEF LifeInv, Life!lifeVars, Life!TypeOK, Built, GivenUp, Stopped, WorkIsDone, Looked, Over,
       Life!QueueOutlivesCron, Life!SidecarGoneInShutdownOnly, Life!NothingRunsAtReturn

\* A part of the gateway that is gone is used in three ways at most, whenever signals
\* come and whatever its threads are at: cron uses the queue only after a start that
\* failed, calls miss the sidecar only during the shutdown, and only a turn streamed
\* on the web runs when the gateway has returned (ForegroundCommand of
\* gateway_commands.cpp).
THEOREM LifeAlwaysAgrees ==
    ASSUME Life!LifeAssumption
    PROVE  Life!Spec => [](Life!TypeOK /\ Life!QueueOutlivesCron
                           /\ Life!SidecarGoneInShutdownOnly /\ Life!NothingRunsAtReturn)
<1>1. ASSUME Life!Init
      PROVE  LifeInv
  <2>1. /\ main \in [phase : {"building", "stopping", "failing", "over"}, at : 1..9]
        /\ main.phase = "building" /\ main.at = 1
    BY <1>1 DEF Life!Init
  <2>2. /\ 0 \in 0..MaxTurns /\ 0 \in 0..1
    BY DEF Life!LifeAssumption
  <2>3. /\ stands \in [Life!Parts -> {"new", "up", "stopped", "destroyed"}]
        /\ requests \in [Handler -> {"idle", "working", "checked", "calling"}]
        /\ stands["server"] = "new" /\ stands["cron"] = "new" /\ stands["queue"] = "new"
        /\ stands["plugins"] = "new" /\ \A h \in Handler : requests[h] = "idle"
    BY <1>1 DEF Life!Init, Life!Parts
  <2>4. Life!TypeOK
    BY <1>1, <2>1, <2>2, <2>3 DEF Life!Init, Life!TypeOK
  <2>5. Built /\ GivenUp /\ Stopped
    BY <1>1, <2>1, <2>3 DEF Life!Init, Built, GivenUp, Stopped
  <2>6. WorkIsDone /\ Looked /\ Over
    BY <1>1, <2>1, <2>3
       DEF Life!Init, WorkIsDone, Looked, Over, Life!QueueOutlivesCron,
           Life!SidecarGoneInShutdownOnly, Life!NothingRunsAtReturn
  <2> QED
    BY <2>4, <2>5, <2>6 DEF LifeInv
<1>2. LifeInv /\ [Life!Next]_(Life!lifeVars) => LifeInv'
  BY StartPartKeepsLife, StartServerKeeps, OtherBuildingKeeps, StopWebKeeps, StopPartKeeps,
     StopServerKeeps, JoinWatcherKeeps, StopCronKeeps, StopQueueKeeps, DestroyKeeps, CronKeeps,
     ServersKeep, HandlersKeep, SignalKeeps, LifeUnchanged
     DEF Life!Next, Life!MainStep, Life!Works
<1>3. LifeInv => /\ Life!TypeOK /\ Life!QueueOutlivesCron
                 /\ Life!SidecarGoneInShutdownOnly /\ Life!NothingRunsAtReturn
  BY DEF LifeInv, Over
<1> QED
  BY <1>1, <1>2, <1>3, PTL DEF Life!Spec

LEMMA LifeBehaves == Spec => Life!Spec
<1>1. Init => Life!Init
  BY DEF Init
<1>2. [Next]_vars => [Life!Next]_(Life!lifeVars)
  BY StepOfPart DEF lifeVars, Life!lifeVars
<1> QED
  BY <1>1, <1>2, PTL DEF Spec, Life!Spec

(***************************************************************************)
(* The index over the workspace.                                           *)
(***************************************************************************)

\* What a build has read so far: of some of the files, something they held.
Read == UNION {[S -> 0..MaxWrites] : S \in SUBSET Index!File}

BuildsTyped == build \in [Index!Threads -> [on : BOOLEAN, got : Read, alone : BOOLEAN]]

\* A build that has met no other is the only one.
BuildsAlone ==
    \A t \in Index!Threads : build[t].on /\ build[t].alone => Index!Building = {t}

Announced(f) == \E i \in 1..Len(kernel.events) : kernel.events[i] = f

\* Of a file that nobody is writing and that has not changed unseen, either the
\* watcher is about to hear of its last change, or the index has it and so has the
\* one build that is under way.
UpToDate ==
    ~overtaken => \A f \in Identity \ (open \cup unseen) :
      Announced(f) \/
      (/\ Index!Building = {} => token_index[f] = disk[f]
       /\ \A t \in Index!Threads : Index!Building = {t} /\ f \in DOMAIN build[t].got =>
            build[t].got[f] = disk[f])

IndexInv == Index!TypeOK /\ BuildsTyped /\ BuildsAlone /\ UpToDate

LEMMA NothingRead == [f \in {} |-> 0] \in Read
<1>1. [f \in {} |-> 0] \in [{} -> 0..MaxWrites]
  OBVIOUS
<1> QED
  BY <1>1 DEF Read

LEMMA ReadIsOfFiles ==
    ASSUME NEW got \in Read
    PROVE  /\ DOMAIN got \subseteq Index!File
           /\ \A f \in DOMAIN got : got[f] \in 0..MaxWrites
           /\ got = [f \in DOMAIN got |-> got[f]]
  BY DEF Read

LEMMA ReadOneMore ==
    ASSUME NEW got \in Read, NEW f \in Index!File, NEW v \in 0..MaxWrites
    PROVE  [g \in DOMAIN got \cup {f} |-> IF g = f THEN v ELSE got[g]] \in Read
<1>1. DOMAIN got \cup {f} \in SUBSET Index!File
  BY ReadIsOfFiles
<1>2. [g \in DOMAIN got \cup {f} |-> IF g = f THEN v ELSE got[g]]
        \in [DOMAIN got \cup {f} -> 0..MaxWrites]
  BY ReadIsOfFiles
<1> QED
  BY <1>1, <1>2 DEF Read

LEMMA BuildsTypedAgain ==
    ASSUME BuildsTyped
    PROVE  \A t \in Index!Threads :
             /\ build[t].on \in BOOLEAN /\ build[t].alone \in BOOLEAN
             /\ build[t].got \in Read /\ DOMAIN build[t].got \subseteq Index!File
  BY ReadIsOfFiles DEF BuildsTyped

LEMMA BeginsKeeps ==
    ASSUME BuildsTyped, BuildsAlone, NEW t \in Index!Threads, Index!Begins(t)
    PROVE  /\ BuildsTyped' /\ BuildsAlone'
           /\ Index!Building' = Index!Building \cup {t}
           /\ DOMAIN build'[t].got = {} /\ unseen' = {} /\ overtaken' \in BOOLEAN
<1>0. unseen' = {} /\ overtaken' \in BOOLEAN
  BY DEF Index!Begins
<1>1. \A u \in Index!Threads :
        build'[u] = IF u = t
                    THEN [on |-> TRUE, got |-> [f \in {} |-> 0], alone |-> Index!Building = {}]
                    ELSE [build[u] EXCEPT !.alone = FALSE]
  BY DEF Index!Begins
<1>2. \A u \in Index!Threads :
        build'[u] \in [on : BOOLEAN, got : Read, alone : BOOLEAN]
  <2>1. ASSUME NEW u \in Index!Threads, u # t
        PROVE  build'[u] \in [on : BOOLEAN, got : Read, alone : BOOLEAN]
    BY <1>1, <2>1 DEF BuildsTyped
  <2>2. build'[t] \in [on : BOOLEAN, got : Read, alone : BOOLEAN]
    <3>1. CASE Index!Building = {}
      <4>1. build'[t] = [on |-> TRUE, got |-> [f \in {} |-> 0], alone |-> TRUE]
        BY <1>1, <3>1, Zenon
      <4> QED
        BY <4>1, NothingRead
    <3>2. CASE Index!Building # {}
      <4>1. build'[t] = [on |-> TRUE, got |-> [f \in {} |-> 0], alone |-> FALSE]
        BY <1>1, <3>2, Zenon
      <4> QED
        BY <4>1, NothingRead
    <3> QED
      BY <3>1, <3>2
  <2> QED
    BY <2>1, <2>2
<1>3. BuildsTyped'
  <2>1. build' = [u \in Index!Threads |-> build'[u]]
    BY DEF Index!Begins
  <2> QED
    BY <1>2, <2>1 DEF BuildsTyped
<1>4. \A u \in Index!Threads : u # t => build'[u].on = build[u].on /\ build'[u].alone = FALSE
  BY <1>1, ZenonT(90) DEF BuildsTyped
<1>5. build'[t].on = TRUE /\ DOMAIN build'[t].got = {}
      /\ (build'[t].alone <=> Index!Building = {})
  <2>1. CASE Index!Building = {}
    <3>1. build'[t] = [on |-> TRUE, got |-> [f \in {} |-> 0], alone |-> TRUE]
      BY <1>1, <2>1, Zenon
    <3> QED
      BY <2>1, <3>1
  <2>2. CASE Index!Building # {}
    <3>1. build'[t] = [on |-> TRUE, got |-> [f \in {} |-> 0], alone |-> FALSE]
      BY <1>1, <2>2, Zenon
    <3> QED
      BY <2>2, <3>1
  <2> QED
    BY <2>1, <2>2
<1>6. Index!Building' = Index!Building \cup {t}
  BY <1>4, <1>5 DEF Index!Building
<1>7. BuildsAlone'
  BY <1>4, <1>5, <1>6 DEF BuildsAlone
<1> QED
  BY <1>0, <1>3, <1>5, <1>6, <1>7

\* A build that begins has read nothing, and takes over from no other.
LEMMA BeginsIsUpToDate ==
    ASSUME BuildsTyped, BuildsAlone, NEW t \in Index!Threads, Index!Begins(t),
           NEW f, NEW u \in Index!Threads,
           Index!Building' = {u}, f \in DOMAIN build'[u].got
    PROVE  FALSE
  BY BeginsKeeps

\* What becomes of a change, by whatever file: nothing that was announced is
\* forgotten, and it is announced itself or counted as unseen.
LEMMA EventKeeps ==
    ASSUME Index!TypeOK, NEW f \in Index!File \cup {Index!Other}, Index!Event(f) \/ Index!Silent(f)
    PROVE  /\ kernel' \in [watches : BOOLEAN, events : Seq(Identity \cup {Index!Other})]
           /\ unseen' \subseteq Identity /\ unseen \subseteq unseen'
           /\ \A g : Announced(g) => Announced(g)'
           /\ f \in Identity => f \in unseen' \/ Announced(f)'
<1>1. kernel \in [watches : BOOLEAN, events : Seq(Identity \cup {Index!Other})]
      /\ unseen \subseteq Identity
  BY DEF Index!TypeOK
<1>2. CASE Index!Silent(f)
  BY <1>1, <1>2 DEF Index!Silent, Announced
<1>3. CASE Index!Event(f) /\ ~Index!Silent(f)
  <2>1. /\ f \in Identity \cup {Index!Other} /\ UNCHANGED unseen
        /\ kernel' = [kernel EXCEPT !.events = Append(kernel.events, f)]
    BY <1>3 DEF Index!Event
  <2>2. kernel.events \in Seq(Identity \cup {Index!Other})
    BY <1>1
  <2>3. /\ Append(kernel.events, f) \in Seq(Identity \cup {Index!Other})
        /\ Len(Append(kernel.events, f)) = Len(kernel.events) + 1
        /\ \A i \in 1..Len(kernel.events) :
             Append(kernel.events, f)[i] = kernel.events[i]
        /\ Append(kernel.events, f)[Len(kernel.events) + 1] = f
        /\ Len(kernel.events) \in Nat
    BY <2>1, <2>2
  <2>4. kernel' \in [watches : BOOLEAN, events : Seq(Identity \cup {Index!Other})]
        /\ kernel'.events = Append(kernel.events, f)
    BY <1>1, <2>1, <2>3
  <2>5. \A g : Announced(g) => Announced(g)'
    BY <2>3, <2>4 DEF Announced
  <2>6. Announced(f)'
    BY <2>3, <2>4 DEF Announced
  <2> QED
    BY <1>1, <2>1, <2>4, <2>5, <2>6
<1> QED
  BY <1>2, <1>3

LEMMA WritesKeep ==
    ASSUME IndexInv, Index!IndexAssumption, NEW f \in Index!File,
           Index!Open(f) \/ Index!Close(f) \/ Index!Replace(f) \/ Index!Remove(f)
    PROVE  IndexInv'
<1>1. UNCHANGED <<reloads, token_index, build, minder, wakeup, steward, overtaken>>
  BY DEF Index!Open, Index!Close, Index!Replace, Index!Remove
<1>2. /\ writes' \in 0..MaxWrites /\ open' \subseteq Index!File
      /\ disk' \in [Index!File -> 0..MaxWrites]
      /\ \A g \in Index!File : g # f => disk'[g] = disk[g] /\ (g \in open' <=> g \in open)
  <2>1. disk \in [Index!File -> 0..MaxWrites] /\ writes \in 0..MaxWrites
        /\ open \subseteq Index!File /\ MaxWrites \in Nat
    BY DEF IndexInv, Index!TypeOK, Index!IndexAssumption
  <2>2. CASE Index!Open(f)
    <3>1. /\ writes' = writes + 1 /\ writes < MaxWrites /\ open' = open \cup {f}
          /\ \E v \in {0, disk[f]} : disk' = [disk EXCEPT ![f] = v]
      BY <2>2 DEF Index!Open
    <3>2. \A v \in {0, disk[f]} : v \in 0..MaxWrites
      BY <2>1
    <3> QED
      BY <2>1, <3>1, <3>2
  <2>3. CASE Index!Close(f)
    BY <2>1, <2>3 DEF Index!Close
  <2>4. CASE Index!Replace(f)
    BY <2>1, <2>4 DEF Index!Replace
  <2>5. CASE Index!Remove(f)
    BY <2>1, <2>5 DEF Index!Remove
  <2> QED
    BY <2>2, <2>3, <2>4, <2>5
<1>3. /\ kernel' \in [watches : BOOLEAN, events : Seq(Identity \cup {Index!Other})]
      /\ unseen' \subseteq Identity /\ unseen \subseteq unseen'
      /\ \A g : Announced(g) => Announced(g)'
      /\ f \in Identity => f \in unseen' \/ f \in open' \/ Announced(f)'
  <2>1. CASE Index!Event(f) \/ Index!Silent(f)
    BY <2>1, EventKeeps DEF IndexInv
  <2>2. CASE Index!Open(f) /\ UNCHANGED <<kernel, unseen>>
    BY <2>2 DEF Index!Open, Announced, IndexInv, Index!TypeOK
  <2> QED
    BY <2>1, <2>2 DEF Index!Open, Index!Close, Index!Replace, Index!Remove
<1>4. Index!TypeOK'
  BY <1>1, <1>2, <1>3 DEF IndexInv, Index!TypeOK
<1>5. Index!Building' = Index!Building /\ BuildsTyped' /\ BuildsAlone'
  BY <1>1 DEF IndexInv, Index!Building, BuildsTyped, BuildsAlone
<1>6. UpToDate'
  <2>1. SUFFICES ASSUME ~overtaken', NEW g \in Identity \ (open' \cup unseen'), ~Announced(g)'
        PROVE  /\ Index!Building' = {} => token_index'[g] = disk'[g]
               /\ \A t \in Index!Threads :
                    Index!Building' = {t} /\ g \in DOMAIN build'[t].got =>
                      build'[t].got[g] = disk'[g]
    BY DEF UpToDate
  <2>2. g # f /\ g \in Index!File
    BY <1>3, <2>1 DEF Index!File
  <2>3. g \in Identity \ (open \cup unseen) /\ disk'[g] = disk[g] /\ ~overtaken /\ ~Announced(g)
    BY <1>1, <1>2, <1>3, <2>1, <2>2
  <2> QED
    BY <1>1, <1>5, <2>3 DEF IndexInv, UpToDate
<1> QED
  BY <1>4, <1>5, <1>6 DEF IndexInv

LEMMA WriteOtherKeeps ==
    ASSUME IndexInv, Index!IndexAssumption, Index!WriteOther
    PROVE  IndexInv'
<1>1. /\ UNCHANGED <<disk, open, reloads, token_index, build, minder, wakeup, steward, overtaken>>
      /\ writes' \in 0..MaxWrites
  BY DEF Index!WriteOther, IndexInv, Index!TypeOK, Index!IndexAssumption
<1>2. /\ kernel' \in [watches : BOOLEAN, events : Seq(Identity \cup {Index!Other})]
      /\ unseen' \subseteq Identity /\ unseen \subseteq unseen'
      /\ \A g : Announced(g) => Announced(g)'
  BY EventKeeps DEF Index!WriteOther, IndexInv
<1>3. Index!TypeOK'
  BY <1>1, <1>2 DEF IndexInv, Index!TypeOK
<1>4. Index!Building' = Index!Building /\ BuildsTyped' /\ BuildsAlone'
  BY <1>1 DEF IndexInv, Index!Building, BuildsTyped, BuildsAlone
<1>5. UpToDate'
  BY <1>1, <1>2, <1>4 DEF IndexInv, UpToDate
<1> QED
  BY <1>3, <1>4, <1>5 DEF IndexInv

LEMMA ReadFileKeeps ==
    ASSUME IndexInv, NEW t \in Index!Threads, Index!ReadFile(t)
    PROVE  IndexInv'
<1>1. UNCHANGED <<disk, open, writes, reloads, token_index, kernel, minder, wakeup, steward,
                  unseen, overtaken>>
  BY DEF Index!ReadFile
<1>2. BuildsTyped /\ disk \in [Index!File -> 0..MaxWrites] /\ build[t].on
  BY DEF IndexInv, Index!TypeOK, Index!ReadFile
<1>3. PICK f \in Index!File \ DOMAIN build[t].got :
        build' = [build EXCEPT ![t].got =
                   [g \in DOMAIN @ \cup {f} |-> IF g = f THEN disk[f] ELSE @[g]]]
  BY DEF Index!ReadFile
<1> DEFINE got == [g \in DOMAIN build[t].got \cup {f} |->
                     IF g = f THEN disk[f] ELSE build[t].got[g]]
<1>4. got \in Read
  BY <1>2, BuildsTypedAgain, ReadOneMore
<1>5. /\ DOMAIN got = DOMAIN build[t].got \cup {f} /\ got[f] = disk[f]
      /\ \A g \in DOMAIN build[t].got : g # f => got[g] = build[t].got[g]
  OBVIOUS
<1>6. build' = [build EXCEPT ![t] = [build[t] EXCEPT !.got = got]]
  BY <1>2, <1>3 DEF BuildsTyped
<1> HIDE DEF got
<1>7. /\ BuildsTyped'
      /\ \A u \in Index!Threads : u # t => build'[u] = build[u]
      /\ build'[t].on = build[t].on /\ build'[t].alone = build[t].alone /\ build'[t].got = got
  <2>1. [build[t] EXCEPT !.got = got] \in [on : BOOLEAN, got : Read, alone : BOOLEAN]
    BY <1>2, <1>4 DEF BuildsTyped
  <2> QED
    BY <1>2, <1>6, <2>1 DEF BuildsTyped
<1>8. Index!Building' = Index!Building
  BY <1>7 DEF Index!Building
<1>9. Index!TypeOK'
  <2>1. \A u \in Index!Threads :
          build'[u].on \in BOOLEAN /\ build'[u].alone \in BOOLEAN
          /\ DOMAIN build'[u].got \subseteq Index!File
    BY <1>1, <1>2, <1>4, <1>7, BuildsTypedAgain, ReadIsOfFiles
  <2> QED
    BY <1>1, <2>1 DEF IndexInv, Index!TypeOK
<1>10. BuildsAlone'
  BY <1>7, <1>8 DEF IndexInv, BuildsAlone
<1>11. UpToDate'
  <2>1. SUFFICES ASSUME ~overtaken, NEW g \in Identity \ (open \cup unseen), ~Announced(g)
        PROVE  /\ Index!Building = {} => token_index[g] = disk[g]
               /\ \A u \in Index!Threads : Index!Building = {u} /\ g \in DOMAIN build'[u].got =>
                    build'[u].got[g] = disk[g]
    BY <1>1, <1>8 DEF UpToDate, Announced
  <2> QED
    BY <1>5, <1>7, <2>1 DEF IndexInv, UpToDate
<1> QED
  BY <1>7, <1>9, <1>10, <1>11 DEF IndexInv

LEMMA InstallKeeps ==
    ASSUME IndexInv, NEW t \in Index!Threads, Index!Install(t)
    PROVE  IndexInv'
<1>1. /\ build[t].on /\ DOMAIN build[t].got = Index!File
      /\ token_index' = build[t].got
      /\ build' = [build EXCEPT ![t] = Index!NoBuild]
      /\ overtaken' = (overtaken \/ ~build[t].alone)
      /\ minder' \in {"drain", minder}
      /\ UNCHANGED <<disk, open, writes, reloads, kernel, wakeup, steward, unseen>>
  BY DEF Index!Install
<1>2. BuildsTyped
  BY DEF IndexInv
<1>3. build[t].got \in Read /\ build[t].alone \in BOOLEAN
  BY <1>2, BuildsTypedAgain
<1>4. token_index' \in [Index!File -> 0..MaxWrites]
  BY <1>1, <1>3, ReadIsOfFiles
<1>5. /\ BuildsTyped'
      /\ \A u \in Index!Threads : u # t => build'[u] = build[u]
      /\ ~build'[t].on /\ ~build'[t].alone
  <2>1. Index!NoBuild \in [on : BOOLEAN, got : Read, alone : BOOLEAN]
    BY NothingRead DEF Index!NoBuild
  <2>2. ~Index!NoBuild.on /\ ~Index!NoBuild.alone
    BY DEF Index!NoBuild
  <2> QED
    BY <1>1, <1>2, <2>1, <2>2 DEF BuildsTyped
<1>6. Index!Building' = Index!Building \ {t}
  BY <1>5 DEF Index!Building
<1>7. Index!TypeOK'
  <2>1. \A u \in Index!Threads :
          build'[u].on \in BOOLEAN /\ build'[u].alone \in BOOLEAN
          /\ DOMAIN build'[u].got \subseteq Index!File
    BY <1>5, BuildsTypedAgain, ReadIsOfFiles DEF BuildsTyped
  <2>2. overtaken' \in BOOLEAN
    BY <1>1, <1>3 DEF IndexInv, Index!TypeOK
  <2>3. minder' \in {"none", "starting", "poll", "drain", "build", "ended"}
    BY <1>1 DEF IndexInv, Index!TypeOK
  <2> QED
    BY <1>1, <1>4, <2>1, <2>2, <2>3 DEF IndexInv, Index!TypeOK
<1>8. BuildsAlone'
  <2>1. ASSUME NEW u \in Index!Threads, build'[u].on, build'[u].alone
        PROVE  FALSE
    <3>1. u # t /\ build[u].on /\ build[u].alone
      BY <1>5, <2>1
    <3>2. Index!Building = {u} /\ t \in Index!Building
      BY <1>1, <3>1 DEF IndexInv, BuildsAlone, Index!Building
    <3> QED
      BY <3>1, <3>2
  <2> QED
    BY <2>1 DEF BuildsAlone
<1>9. UpToDate'
  <2>1. SUFFICES ASSUME ~overtaken', NEW g \in Identity \ (open \cup unseen), ~Announced(g)
        PROVE  /\ token_index'[g] = disk[g]
               /\ \A u \in Index!Threads : Index!Building' # {u}
    BY <1>1 DEF UpToDate, Announced
  <2>2. ~overtaken /\ build[t].alone /\ Index!Building = {t}
    BY <1>1, <2>1 DEF IndexInv, BuildsAlone
  <2>3. g \in DOMAIN build[t].got
    BY <1>1 DEF Index!File
  <2>4. build[t].got[g] = disk[g]
    BY <2>1, <2>2, <2>3 DEF IndexInv, UpToDate
  <2> QED
    BY <1>1, <1>6, <2>2, <2>4
<1> QED
  BY <1>5, <1>7, <1>8, <1>9 DEF IndexInv

LEMMA BeginningsKeep ==
    ASSUME Index!IndexAssumption, IndexInv, Index!Reload \/ (Index!Drain /\ kernel.events # <<>> /\ Head(kernel.events) # Index!Other)
    PROVE  IndexInv'
<1>1. PICK t \in Index!Threads : Index!Begins(t)
  BY DEF Index!Reload, Index!Drain, Index!Threads
<1>2. UNCHANGED <<disk, open, writes, token_index, wakeup, steward>>
  BY DEF Index!Reload, Index!Drain
<1>3. /\ reloads' \in 0..MaxReloads
      /\ minder' \in {"none", "starting", "poll", "drain", "build", "ended"}
  <2>1. CASE Index!Reload
    BY <2>1 DEF IndexInv, Index!TypeOK, Index!Reload, Index!IndexAssumption
  <2>2. CASE Index!Drain /\ kernel.events # <<>> /\ Head(kernel.events) # Index!Other
    BY <2>2 DEF IndexInv, Index!TypeOK, Index!Drain
  <2> QED
    BY <2>1, <2>2
<1>4. /\ kernel' \in [watches : BOOLEAN, events : Seq(Identity \cup {Index!Other})]
      /\ kernel' = kernel \/ Index!Begins("watcher")
  <2>1. kernel \in [watches : BOOLEAN, events : Seq(Identity \cup {Index!Other})]
    BY DEF IndexInv, Index!TypeOK
  <2>2. CASE Index!Reload
    BY <2>1, <2>2 DEF Index!Reload
  <2>3. CASE Index!Drain /\ kernel.events # <<>> /\ Head(kernel.events) # Index!Other
    <3>1. Tail(kernel.events) \in Seq(Identity \cup {Index!Other})
      BY <2>1, <2>3
    <3>2. kernel' = [kernel EXCEPT !.events = Tail(kernel.events)] /\ Index!Begins("watcher")
      BY <2>3 DEF Index!Drain
    <3> QED
      BY <2>1, <3>1, <3>2
  <2> QED
    BY <2>2, <2>3
<1>5. /\ BuildsTyped' /\ BuildsAlone' /\ Index!Building' = Index!Building \cup {t}
      /\ DOMAIN build'[t].got = {} /\ unseen' = {} /\ overtaken' \in BOOLEAN
  BY <1>1, BeginsKeeps DEF IndexInv
<1>6. Index!TypeOK'
  <2>1. \A u \in Index!Threads :
          build'[u].on \in BOOLEAN /\ build'[u].alone \in BOOLEAN
          /\ DOMAIN build'[u].got \subseteq Index!File
    BY <1>5, ReadIsOfFiles DEF BuildsTyped
  <2> QED
    BY <1>2, <1>3, <1>4, <1>5, <2>1 DEF IndexInv, Index!TypeOK
<1>7. UpToDate'
  <2>1. Index!Building' # {} /\ \A u \in Index!Threads :
          Index!Building' = {u} => DOMAIN build'[u].got = {}
    BY <1>5
  <2> QED
    BY <2>1 DEF UpToDate
<1> QED
  BY <1>5, <1>6, <1>7 DEF IndexInv

\* An event of another file is passed over.
LEMMA PassedOver ==
    ASSUME Index!IndexAssumption, IndexInv, Index!Drain, kernel.events # <<>>,
           Head(kernel.events) = Index!Other
    PROVE  IndexInv'
<1>1. /\ UNCHANGED <<disk, open, writes, reloads, token_index, build, minder, wakeup, steward,
                     unseen, overtaken>>
      /\ kernel' = [kernel EXCEPT !.events = Tail(kernel.events)]
  BY DEF Index!Drain
<1>2. kernel \in [watches : BOOLEAN, events : Seq(Identity \cup {Index!Other})]
  BY DEF IndexInv, Index!TypeOK
<1>3. /\ kernel' \in [watches : BOOLEAN, events : Seq(Identity \cup {Index!Other})]
      /\ kernel'.events = Tail(kernel.events)
  <2>1. Tail(kernel.events) \in Seq(Identity \cup {Index!Other})
    BY <1>2
  <2> QED
    BY <1>1, <1>2, <2>1
<1>4. ASSUME NEW f \in Identity, Announced(f)
      PROVE  Announced(f)'
  <2>1. PICK i \in 1..Len(kernel.events) : kernel.events[i] = f
    BY <1>4 DEF Announced
  <2>2. i # 1 /\ f # Index!Other
    BY <1>2, <1>4, <2>1 DEF Index!IndexAssumption
  <2>3. i - 1 \in 1..Len(Tail(kernel.events)) /\ Tail(kernel.events)[i - 1] = f
    BY <1>2, <2>1, <2>2
  <2> QED
    BY <1>3, <2>3 DEF Announced
<1>5. Index!TypeOK'
  BY <1>1, <1>3 DEF IndexInv, Index!TypeOK
<1>6. Index!Building' = Index!Building /\ BuildsTyped' /\ BuildsAlone'
  BY <1>1 DEF IndexInv, Index!Building, BuildsTyped, BuildsAlone
<1>7. UpToDate'
  BY <1>1, <1>4, <1>6 DEF IndexInv, UpToDate
<1> QED
  BY <1>5, <1>6, <1>7 DEF IndexInv

LEMMA WatcherKeeps ==
    ASSUME IndexInv,
           \/ Index!StartFileWatcher \/ Index!Watch \/ Index!PollReturns
           \/ (Index!Drain /\ kernel.events = <<>>)
           \/ Index!StopFileWatcher \/ Index!Join \/ UNCHANGED Index!indexVars
    PROVE  IndexInv'
<1>1. UNCHANGED <<disk, open, writes, reloads, token_index, build, unseen, overtaken>>
  BY DEF Index!StartFileWatcher, Index!Watch, Index!PollReturns, Index!Drain,
         Index!StopFileWatcher, Index!Join, Index!indexVars
<1>2. kernel \in [watches : BOOLEAN, events : Seq(Identity \cup {Index!Other})]
  BY DEF IndexInv, Index!TypeOK
<1>3. /\ kernel' \in [watches : BOOLEAN, events : Seq(Identity \cup {Index!Other})]
      /\ kernel'.events = kernel.events
  <2>1. kernel' = kernel \/ kernel' = [kernel EXCEPT !.watches = TRUE]
    BY DEF Index!StartFileWatcher, Index!Watch, Index!PollReturns, Index!Drain,
           Index!StopFileWatcher, Index!Join, Index!indexVars
  <2> QED
    BY <1>2, <2>1
<1>4. minder' \in {"none", "starting", "poll", "drain", "build", "ended"}
  BY DEF Index!StartFileWatcher, Index!Watch, Index!PollReturns, Index!Drain,
         Index!StopFileWatcher, Index!Join, Index!indexVars, IndexInv, Index!TypeOK
<1>5. wakeup' \in BOOLEAN /\ steward' \in {"loaded", "running", "joining", "stopped"}
  BY DEF Index!StartFileWatcher, Index!Watch, Index!PollReturns, Index!Drain,
         Index!StopFileWatcher, Index!Join, Index!indexVars, IndexInv, Index!TypeOK
<1>6. Index!TypeOK'
  BY <1>1, <1>3, <1>4, <1>5 DEF IndexInv, Index!TypeOK
<1>7. Index!Building' = Index!Building /\ BuildsTyped' /\ BuildsAlone'
  BY <1>1 DEF IndexInv, Index!Building, BuildsTyped, BuildsAlone
<1>8. UpToDate'
  BY <1>1, <1>3, <1>7 DEF IndexInv, UpToDate, Announced
<1> QED
  BY <1>6, <1>7, <1>8 DEF IndexInv

LEMMA IndexNext ==
    ASSUME Index!IndexAssumption, IndexInv, [Index!Next]_(Index!indexVars)
    PROVE  IndexInv'
  BY WritesKeep, WriteOtherKeeps, ReadFileKeeps, InstallKeeps, BeginningsKeep, PassedOver,
     WatcherKeeps DEF Index!Next

LEMMA IndexBegins == ASSUME Index!IndexAssumption, Index!Init PROVE IndexInv
<1>1. \A t \in Index!Threads : build[t] = Index!NoBuild
  BY DEF Index!Init
<1>2. Index!NoBuild \in [on : BOOLEAN, got : Read, alone : BOOLEAN] /\ ~Index!NoBuild.on
  BY NothingRead DEF Index!NoBuild
<1>3. BuildsTyped
  BY <1>2 DEF Index!Init, BuildsTyped
<1>4. Index!Building = {}
  BY <1>1, <1>2 DEF Index!Building
<1>5. 0 \in 0..MaxWrites /\ 0 \in 0..MaxReloads
  BY DEF Index!IndexAssumption
<1>6. kernel \in [watches : BOOLEAN, events : Seq(Identity \cup {Index!Other})]
  <2>1. <<>> \in Seq(Identity \cup {Index!Other})
    OBVIOUS
  <2> QED
    BY <2>1 DEF Index!Init
<1>7. Index!TypeOK
  <2>1. \A u \in Index!Threads :
          build[u].on \in BOOLEAN /\ build[u].alone \in BOOLEAN
          /\ DOMAIN build[u].got \subseteq Index!File
    BY <1>3, BuildsTypedAgain
  <2> QED
    BY <1>5, <1>6, <2>1 DEF Index!Init, Index!TypeOK
<1>8. BuildsAlone
  BY <1>1, <1>2 DEF BuildsAlone
<1>9. UpToDate
  <2>1. \A f \in Identity \ (open \cup unseen) : token_index[f] = disk[f]
    BY DEF Index!Init, Index!File
  <2> QED
    BY <1>4, <2>1 DEF UpToDate
<1> QED
  BY <1>3, <1>7, <1>8, <1>9 DEF IndexInv

\* Whenever the watcher has nothing to do the index has what the identity files
\* hold, but for those that changed without an event since the last build, and
\* unless two builds ran side by side (rebuild_search_index and the watcher's
\* thread).
THEOREM IndexAlwaysCurrent ==
    ASSUME Index!IndexAssumption PROVE Index!Spec => [](Index!TypeOK /\ Index!IndexIsCurrent)
<1>1. Index!Init => IndexInv
  BY IndexBegins
<1>2. IndexInv /\ [Index!Next]_(Index!indexVars) => IndexInv'
  BY IndexNext
<1>3. IndexInv => Index!TypeOK /\ Index!IndexIsCurrent
  <2>1. ASSUME IndexInv, kernel.events = <<>>, Index!Building = {}, ~overtaken,
               NEW f \in Identity \ (open \cup unseen)
        PROVE  token_index[f] = disk[f]
    <3>1. ~Announced(f)
      BY <2>1 DEF Announced
    <3> QED
      BY <2>1, <3>1 DEF IndexInv, UpToDate
  <2> QED
    BY <2>1 DEF IndexInv, Index!IndexIsCurrent
<1> QED
  BY <1>1, <1>2, <1>3, PTL DEF Index!Spec

LEMMA IndexBehaves == Spec => Index!Spec
<1>1. Init => Index!Init
  BY DEF Init
<1>2. [Next]_vars => [Index!Next]_(Index!indexVars)
  BY StepOfPart DEF indexVars, Index!indexVars
<1> QED
  BY <1>1, <1>2, PTL DEF Spec, Index!Spec

(***************************************************************************)
(* The stream of a response.                                               *)
(***************************************************************************)

LEMMA LeastOf == ASSUME NEW T \in SUBSET Nat, T # {} PROVE \E x \in T : \A y \in T : x <= y
<1> DEFINE R == OpToRel(<, Nat)
<1>1. IsWellFoundedOn(R, Nat)
  BY NatLessThanWellFounded
<1>2. R = {ss \in Nat \X Nat : ss[1] < ss[2]}
  BY DEF OpToRel
<1> HIDE DEF R
<1>3. PICK x \in T : \A y \in T : ~(<<y, x>> \in R)
  BY <1>1, WFMin
<1>4. \A y \in T : ~(y < x)
  BY <1>2, <1>3
<1> QED
  BY <1>4

Sums(queue, g) ==
  /\ g[0] = 0
  /\ \A i \in 1..Len(queue) : g[i] = g[i - 1] + Size[queue[i]]

LEMMA SumsExist == ASSUME Stream!StreamAssumption, NEW queue \in Seq(1..Stream!Last) PROVE \E g \in [0..Len(queue) -> Nat] : Sums(queue, g)
<1> DEFINE Part(n, g) == g[0] = 0 /\ \A i \in 1..n : g[i] = g[i - 1] + Size[queue[i]]
<1> DEFINE Bad == {n \in 0..Len(queue) : ~\E g \in [0..n -> Nat] : Part(n, g)}
<1>0. \A i \in 1..Len(queue) : Size[queue[i]] \in Nat
  BY DEF Stream!StreamAssumption, Stream!Last
<1>1. SUFFICES ASSUME Bad # {} PROVE FALSE
  <2>1. Len(queue) \in 0..Len(queue)
    OBVIOUS
  <2>2. PICK g \in [0..Len(queue) -> Nat] : Part(Len(queue), g)
    BY <1>1, <2>1
  <2> QED
    BY <2>2 DEF Sums
<1>2. PICK m \in Bad : \A y \in Bad : m <= y
  <2>1. Bad \in SUBSET Nat
    OBVIOUS
  <2> HIDE DEF Bad
  <2> QED
    BY <1>1, <2>1, LeastOf
<1>n. Len(queue) \in Nat
  OBVIOUS
<1>3. m # 0
  <2>1. [i \in 0..0 |-> 0] \in [0..0 -> Nat] /\ Part(0, [i \in 0..0 |-> 0])
    OBVIOUS
  <2> QED
    BY <2>1, <1>2
<1>4. m - 1 \in 0..Len(queue) /\ m - 1 \notin Bad /\ m \in 1..Len(queue)
  <2>1. m \in 0..Len(queue)
    BY <1>2
  <2>2. m - 1 \in 0..Len(queue) /\ m \in 1..Len(queue) /\ ~(m <= m - 1)
    BY <2>1, <1>3, <1>n
  <2> HIDE DEF Bad
  <2> QED
    BY <1>2, <2>2
<1>5. PICK g \in [0..(m-1) -> Nat] : Part(m - 1, g)
  BY <1>4
<1> DEFINE h == [i \in 0..m |-> IF i = m THEN g[m-1] + Size[queue[m]] ELSE g[i]]
<1>6. h \in [0..m -> Nat]
  BY <1>0, <1>4, <1>5
<1>7. Part(m, h)
  <2>1. h[0] = 0
    BY <1>4, <1>5
  <2>2. ASSUME NEW i \in 1..m PROVE h[i] = h[i - 1] + Size[queue[i]]
    <3>1. m \in Nat /\ i \in 0..m /\ i - 1 \in 0..(m - 1) /\ i - 1 \in 0..m /\ i - 1 # m
      BY <1>4, <2>2
    <3>2. h[i - 1] = g[i - 1]
      BY <3>1
    <3>3. CASE i = m
      BY <3>1, <3>2, <3>3
    <3>4. CASE i # m
      <4>1. i \in 1..(m - 1)
        BY <3>1, <3>4
      <4>2. g[i] = g[i - 1] + Size[queue[i]]
        BY <1>5, <4>1
      <4> QED
        BY <3>1, <3>2, <3>4, <4>2
    <3> QED
      BY <3>3, <3>4
  <2> QED
    BY <2>1, <2>2
<1> QED
  BY <1>2, <1>6, <1>7

LEMMA SumsUnique == ASSUME NEW queue, Len(queue) \in Nat, NEW g, NEW h, Sums(queue, g), Sums(queue, h) PROVE g[Len(queue)] = h[Len(queue)]
<1> DEFINE Bad == {n \in 0..Len(queue) : g[n] # h[n]}
<1>1. SUFFICES ASSUME Bad # {} PROVE FALSE
  OBVIOUS
<1>2. PICK m \in Bad : \A y \in Bad : m <= y
  <2>1. Bad \in SUBSET Nat
    OBVIOUS
  <2> HIDE DEF Bad
  <2> QED
    BY <1>1, <2>1, LeastOf
<1>n. Len(queue) \in Nat
  OBVIOUS
<1>3. m # 0 /\ m \in 0..Len(queue)
  BY <1>2 DEF Sums
<1>4. m - 1 \in 0..Len(queue) /\ m - 1 \notin Bad /\ m \in 1..Len(queue)
  BY <1>2, <1>3
<1> QED
  BY <1>2, <1>4 DEF Sums

LEMMA SizeIsSum == ASSUME Stream!StreamAssumption, NEW queue \in Seq(1..Stream!Last), NEW g, Sums(queue, g) PROVE Stream!SizeOf(queue) = g[Len(queue)]
<1> DEFINE f == CHOOSE f : f = [i \in 0..Len(queue) |-> IF i = 0 THEN 0 ELSE f[i - 1] + Size[queue[i]]]
<1>1. Stream!SizeOf(queue) = f[Len(queue)]
  BY DEF Stream!SizeOf
<1>2. PICK h \in [0..Len(queue) -> Nat] : Sums(queue, h)
  BY SumsExist
<1>n. Len(queue) \in Nat
  OBVIOUS
<1>3. h = [i \in 0..Len(queue) |-> IF i = 0 THEN 0 ELSE h[i - 1] + Size[queue[i]]]
  BY <1>2, <1>n DEF Sums
<1>4. f = [i \in 0..Len(queue) |-> IF i = 0 THEN 0 ELSE f[i - 1] + Size[queue[i]]]
  BY <1>3
<1> HIDE DEF f
<1>5. \A i \in 1..Len(queue) : Size[queue[i]] \in Nat
  BY DEF Stream!StreamAssumption, Stream!Last
<1>6. Sums(queue, f)
  <2>1. \A i \in 0..Len(queue) : f[i] = IF i = 0 THEN 0 ELSE f[i - 1] + Size[queue[i]]
    BY <1>4
  <2> QED
    BY <2>1, <1>n DEF Sums
<1> QED
  BY <1>1, <1>6, <1>n, SumsUnique

LEMMA SizeIsNat ==
    ASSUME Stream!StreamAssumption, NEW queue \in Seq(1..Stream!Last)
    PROVE  Stream!SizeOf(queue) \in Nat
<1>1. PICK g \in [0..Len(queue) -> Nat] : Sums(queue, g)
  BY SumsExist
<1> QED
  BY <1>1, SizeIsSum

LEMMA SizeOfNone == ASSUME Stream!StreamAssumption PROVE Stream!SizeOf(<<>>) = 0
<1>1. <<>> \in Seq(1..Stream!Last) /\ Len(<<>>) = 0
  OBVIOUS
<1>2. PICK g \in [0..0 -> Nat] : Sums(<<>>, g)
  BY <1>1, SumsExist
<1> QED
  BY <1>1, <1>2, SizeIsSum DEF Sums

LEMMA SizeOfMore ==
    ASSUME Stream!StreamAssumption, NEW queue \in Seq(1..Stream!Last), NEW c \in 1..Stream!Last
    PROVE  Stream!SizeOf(queue) \in Nat /\ Stream!SizeOf(Append(queue, c)) = Stream!SizeOf(queue) + Size[c]
<1>0. /\ Len(queue) \in Nat /\ Append(queue, c) \in Seq(1..Stream!Last)
      /\ Len(Append(queue, c)) = Len(queue) + 1
      /\ \A i \in 1..Len(queue) : Append(queue, c)[i] = queue[i]
      /\ Append(queue, c)[Len(queue) + 1] = c
  OBVIOUS
<1> DEFINE more == Append(queue, c)
<1>1. PICK g \in [0..Len(more) -> Nat] : Sums(more, g)
  BY <1>0, SumsExist
<1>2. Stream!SizeOf(more) = g[Len(more)]
  BY <1>0, <1>1, SizeIsSum
<1>3. Sums(queue, g)
  BY <1>0, <1>1 DEF Sums
<1>4. Stream!SizeOf(queue) = g[Len(queue)]
  BY <1>3, SizeIsSum
<1> HIDE DEF more
<1>5. Len(more) = Len(queue) + 1 /\ Len(queue) \in 0..Len(more) /\ Len(more) \in 1..Len(more)
      /\ more[Len(more)] = c
  BY <1>0 DEF more
<1>6. g[Len(more)] = g[Len(more) - 1] + Size[more[Len(more)]]
  BY <1>1, <1>5 DEF Sums
<1>7. Len(more) - 1 = Len(queue)
  BY <1>0, <1>5
<1> QED
  BY <1>1, <1>2, <1>4, <1>5, <1>6, <1>7 DEF more

LEMMA SizeOfRest ==
    ASSUME Stream!StreamAssumption, NEW queue \in Seq(1..Stream!Last), queue # <<>>
    PROVE  Stream!SizeOf(Tail(queue)) = Stream!SizeOf(queue) - Size[Head(queue)]
<1>0. /\ Len(queue) \in Nat \ {0} /\ Tail(queue) \in Seq(1..Stream!Last)
      /\ Len(Tail(queue)) = Len(queue) - 1
      /\ \A i \in 1..(Len(queue) - 1) : Tail(queue)[i] = queue[i + 1]
      /\ Head(queue) = queue[1]
  OBVIOUS
<1>1. PICK g \in [0..Len(queue) -> Nat] : Sums(queue, g)
  BY SumsExist
<1>2. Stream!SizeOf(queue) = g[Len(queue)]
  BY <1>1, SizeIsSum
<1>s. \A i \in 1..Len(queue) : Size[queue[i]] \in Nat
  BY DEF Stream!StreamAssumption, Stream!Last
<1> DEFINE rest == Tail(queue)
           h == [i \in 0..Len(rest) |-> g[i + 1] - Size[queue[1]]]
<1> HIDE DEF rest
<1>3. h[0] = 0
  <2>1. g[1] = g[0] + Size[queue[1]] /\ g[0] = 0 /\ 0 \in 0..Len(rest)
    BY <1>0, <1>1 DEF Sums, rest
  <2> QED
    BY <1>0, <1>s, <2>1
<1>4. ASSUME NEW i \in 1..Len(rest) PROVE h[i] = h[i - 1] + Size[rest[i]]
  <2>1. /\ i + 1 \in 1..Len(queue) /\ i \in 0..Len(rest) /\ i - 1 \in 0..Len(rest)
        /\ i \in 0..Len(queue) /\ i + 1 \in 0..Len(queue) /\ (i - 1) + 1 = i
        /\ rest[i] = queue[i + 1] /\ (i + 1) - 1 = i
    BY <1>0 DEF rest
  <2>2. g[i + 1] = g[i] + Size[queue[i + 1]]
    BY <1>1, <2>1 DEF Sums
  <2>3. h[i] = g[i + 1] - Size[queue[1]] /\ h[i - 1] = g[i] - Size[queue[1]]
    BY <2>1
  <2>4. g[i] \in Nat /\ Size[queue[1]] \in Nat /\ Size[queue[i + 1]] \in Nat
    BY <1>0, <1>1, <1>s, <2>1, SMTT(30)
  <2> HIDE DEF h
  <2> QED
    BY <2>1, <2>2, <2>3, <2>4
<1>5. Sums(rest, h)
  BY <1>3, <1>4 DEF Sums
<1>6. Stream!SizeOf(rest) = h[Len(rest)]
  BY <1>0, <1>5, SizeIsSum DEF rest
<1>7. Len(rest) \in 0..Len(rest) /\ Len(rest) + 1 = Len(queue)
  BY <1>0 DEF rest
<1> QED
  BY <1>0, <1>2, <1>6, <1>7 DEF rest

\* What is left of a sequence from its k-th element on.
LEMMA RestOfSeq ==
    ASSUME NEW S, NEW q \in Seq(S), NEW k \in 1..(Len(q) + 1)
    PROVE  /\ SubSeq(q, k, Len(q)) \in Seq(S)
           /\ Len(SubSeq(q, k, Len(q))) = Len(q) - k + 1
           /\ \A i \in 1..(Len(q) - k + 1) : SubSeq(q, k, Len(q))[i] = q[k + i - 1]
<1>1. \A i \in 1..Len(q) : q[i] \in S
  BY ElementOfSeq
<1>2. /\ Len(q) \in Nat /\ k \in Int /\ Len(q) \in Int
      /\ \A i \in k..Len(q) : q[i] \in S
  BY <1>1
<1>3. /\ SubSeq(q, k, Len(q)) \in Seq(S)
      /\ Len(SubSeq(q, k, Len(q))) = IF k <= Len(q) THEN Len(q) - k + 1 ELSE 0
      /\ \A i \in 1..(Len(q) - k + 1) : SubSeq(q, k, Len(q))[i] = q[k + i - 1]
  BY <1>2, SubSeqProperties
<1> QED
  BY <1>2, <1>3

\* The chunks that are dropped are as few as will do.
LEMMA ExcessIsLeast ==
    ASSUME Stream!StreamAssumption, NEW queue \in Seq(1..Stream!Last), Len(queue) > 0
    PROVE  /\ Stream!Excess(queue) \in 0..(Len(queue) - 1)
           /\ \/ Stream!Excess(queue) = Len(queue) - 1
              \/ Stream!SizeOf(SubSeq(queue, Stream!Excess(queue) + 1, Len(queue))) <= MaxQueuedBytes
<1> DEFINE Size2(n) == Stream!SizeOf(SubSeq(queue, n + 1, Len(queue)))
           Enough == {n \in 0..(Len(queue) - 1) : n = Len(queue) - 1 \/ Size2(n) <= MaxQueuedBytes}
           Least(n) == /\ n = Len(queue) - 1 \/ Size2(n) <= MaxQueuedBytes
                       /\ \A m \in 0..(n - 1) : Size2(m) > MaxQueuedBytes
<1>0. Len(queue) \in Nat \ {0} /\ MaxQueuedBytes \in Nat
  BY DEF Stream!StreamAssumption
<1>1. \A n \in 0..(Len(queue) - 1) : Size2(n) \in Nat
  <2>1. ASSUME NEW n \in 0..(Len(queue) - 1) PROVE SubSeq(queue, n + 1, Len(queue)) \in Seq(1..Stream!Last)
    <3>1. n + 1 \in 1..(Len(queue) + 1)
      BY <1>0
    <3> QED
      BY <3>1, RestOfSeq
  <2> QED
    BY <2>1, SizeIsNat
<1>2. Stream!Excess(queue) = CHOOSE n \in 0..(Len(queue) - 1) : Least(n)
  BY DEF Stream!Excess
<1> HIDE DEF Size2
<1>3. Enough \in SUBSET Nat /\ Len(queue) - 1 \in Enough
  BY <1>0
<1>4. PICK n \in Enough : \A m \in Enough : n <= m
  <2> HIDE DEF Enough
  <2> QED
    BY <1>3, LeastOf
<1>5. ASSUME NEW m \in 0..(n - 1) PROVE Size2(m) > MaxQueuedBytes
  <2>1. m \in 0..(Len(queue) - 1) /\ ~(n <= m)
    BY <1>0, <1>4
  <2>2. m \notin Enough
    BY <1>4, <2>1
  <2> QED
    BY <1>0, <1>1, <2>1, <2>2
<1>6. n \in 0..(Len(queue) - 1) /\ Least(n)
  BY <1>4, <1>5
<1> HIDE DEF Least
<1>7. Stream!Excess(queue) \in 0..(Len(queue) - 1) /\ Least(Stream!Excess(queue))
  BY <1>2, <1>6
<1> QED
  BY <1>7 DEF Least, Size2

\* The chunks go out in the order in which they were pushed: those sent, then the
\* one that is being written, then the queue.
ChunksInOrder ==
    /\ \A i, j \in 1..Len(chunks) : i < j => chunks[i] < chunks[j]
    /\ \A i \in 1..Len(chunks) : chunks[i] < pusher.next
    /\ \A i, j \in 1..Len(sent) : i < j => sent[i] < sent[j]
    /\ \A i \in 1..Len(sent) :
         sent[i] < pusher.next /\ \A j \in 1..Len(chunks) : sent[i] < chunks[j]
    /\ drainer.step = "write" =>
         /\ drainer.chunk \in 1..Stream!Last /\ drainer.chunk < pusher.next
         /\ \A j \in 1..Len(chunks) : drainer.chunk < chunks[j]
         /\ \A i \in 1..Len(sent) : sent[i] < drainer.chunk

\* Where the terminal event is once the agent's turn has pushed it.
LastIsTold ==
    IF chunks # <<>> THEN chunks[Len(chunks)] = Stream!Last
    ELSE IF drainer.step = "write" THEN drainer.chunk = Stream!Last
    ELSE sent # <<>> /\ sent[Len(sent)] = Stream!Last

\* A turn that has pushed everything has pushed the terminal event, and a client
\* who stays until the response has ended has been told everything.
Told ==
    /\ pusher.step = "push" => pusher.next <= Stream!Last
    /\ finished => pusher.step = "over"
    /\ pusher.step = "over" => pusher.next = Stream!Last + 1
    /\ cancelled => peer = "gone"
    /\ (route = "agent" /\ ~cancelled /\ pusher.next = Stream!Last + 1) => LastIsTold
    /\ drainer.step = "ended" /\ peer = "there" => finished /\ chunks = <<>>

StreamInv == Stream!TypeOK /\ Stream!QueueIsBounded /\ ChunksInOrder /\ Told

Pushers  == [next : 1..(Stream!Last + 1), step : {"turn", "push", "over"}]
Drainers == [step : {"wait", "write", "loop", "again", "ended"}, chunk : 0..Stream!Last]

LEMMA StreamTypes ==
    ASSUME Stream!StreamAssumption, Stream!TypeOK
    PROVE  /\ Stream!Last \in Nat \ {0} /\ MaxQueuedBytes \in Nat
           /\ chunks \in Seq(1..Stream!Last) /\ sent \in Seq(1..Stream!Last)
           /\ Len(chunks) \in Nat /\ Len(sent) \in Nat
           /\ pusher \in Pushers /\ pusher.next \in 1..(Stream!Last + 1)
           /\ pusher.step \in {"turn", "push", "over"}
           /\ drainer \in Drainers
           /\ \A c \in 1..Stream!Last : Size[c] \in Nat
  BY DEF Stream!TypeOK, Stream!StreamAssumption, Stream!Last, Pushers, Drainers

\* The turn's thread, except that it pushes.
LEMMA TurnKeeps ==
    ASSUME Stream!StreamAssumption, StreamInv,
           Stream!LookAtCancelled \/ Stream!TurnFails \/ Stream!Finish
    PROVE  StreamInv'
<1>1. UNCHANGED <<chunks, bytes, dropped, cancelled, drainer, peer, route, sent>>
  BY DEF Stream!LookAtCancelled, Stream!TurnFails, Stream!Finish
<1>2. /\ Stream!Last \in Nat \ {0} /\ pusher \in Pushers
      /\ pusher.next \in 1..(Stream!Last + 1) /\ pusher.step = "turn"
  BY StreamTypes DEF StreamInv, Stream!LookAtCancelled, Stream!TurnFails, Stream!Finish
<1>3. /\ pusher' \in Pushers /\ pusher'.next >= pusher.next
      /\ pusher'.step = "push" => pusher'.next <= Stream!Last
      /\ pusher'.step = "over" => pusher'.next = Stream!Last + 1
      /\ finished' = finished \/ pusher'.step = "over"
      /\ finished' \in BOOLEAN
      /\ route = "agent" /\ ~cancelled /\ pusher'.next = Stream!Last + 1 =>
           pusher.next = Stream!Last + 1
  <2>1. CASE Stream!LookAtCancelled
    <3>1. \/ cancelled /\ pusher' = [pusher EXCEPT !.next = pusher.next + 1]
          \/ ~cancelled /\ pusher' = [pusher EXCEPT !.step = "push"]
      BY <2>1 DEF Stream!LookAtCancelled
    <3>2. pusher.next <= Stream!Last /\ finished' = finished
      BY <2>1 DEF Stream!LookAtCancelled
    <3>3. pusher' \in Pushers
      BY <1>2, <3>1, <3>2 DEF Pushers
    <3>4. /\ pusher'.next >= pusher.next
          /\ pusher'.step = "push" => pusher'.next <= Stream!Last
          /\ pusher'.step # "over"
          /\ route = "agent" /\ ~cancelled => pusher'.next # Stream!Last + 1
      BY <1>2, <3>1, <3>2 DEF Pushers
    <3>5. finished' \in BOOLEAN
      BY <3>2 DEF StreamInv, Stream!TypeOK
    <3> QED
      BY <3>2, <3>3, <3>4, <3>5
  <2>2. CASE Stream!TurnFails
    <3>1. \/ route = "agent" /\ pusher' = [pusher EXCEPT !.next = Stream!Last]
          \/ route # "agent" /\ pusher' = [pusher EXCEPT !.next = Stream!Last + 1]
      BY <2>2 DEF Stream!TurnFails
    <3>2. pusher.next < Stream!Last /\ finished' = finished
      BY <2>2 DEF Stream!TurnFails
    <3>3. pusher' \in Pushers
      BY <1>2, <3>1, <3>2 DEF Pushers
    <3>4. /\ pusher'.next >= pusher.next
          /\ pusher'.step = "push" => pusher'.next <= Stream!Last
          /\ pusher'.step # "over"
          /\ route = "agent" /\ ~cancelled => pusher'.next # Stream!Last + 1
      BY <1>2, <3>1, <3>2 DEF Pushers
    <3>5. finished' \in BOOLEAN
      BY <3>2 DEF StreamInv, Stream!TypeOK
    <3> QED
      BY <3>2, <3>3, <3>4, <3>5
  <2>3. CASE Stream!Finish
    BY <1>2, <2>3, SMTT(30) DEF Pushers, StreamInv, Stream!TypeOK, Stream!Finish
  <2> QED
    BY <2>1, <2>2, <2>3
<1>4. Stream!TypeOK' /\ Stream!QueueIsBounded'
  BY <1>1, <1>3 DEF StreamInv, Stream!TypeOK, Stream!QueueIsBounded, Pushers
<1>5. ChunksInOrder'
  <2>1. \A v \in 1..Stream!Last : v < pusher.next => v < pusher'.next
    BY <1>2, <1>3 DEF Pushers
  <2>2. /\ \A i \in 1..Len(chunks) : chunks[i] \in 1..Stream!Last
        /\ \A i \in 1..Len(sent) : sent[i] \in 1..Stream!Last
    BY StreamTypes DEF StreamInv
  <2> QED
    BY <1>1, <2>1, <2>2 DEF StreamInv, ChunksInOrder
<1>6. Told'
  <2>1. LastIsTold' <=> LastIsTold
    BY <1>1 DEF LastIsTold
  <2>2. pusher.step # "over" /\ ~finished
    BY <1>2 DEF StreamInv, Told
  <2> QED
    BY <1>1, <1>3, <2>1, <2>2 DEF StreamInv, Told
<1> QED
  BY <1>4, <1>5, <1>6 DEF StreamInv

\* The end of a queue to which a chunk was added.
LEMMA EndOfQueue ==
    ASSUME NEW S, NEW queue \in Seq(S), NEW c \in S, NEW all \in Seq(S),
           Len(all) = Len(queue) + 1, all[Len(queue) + 1] = c,
           \A i \in 1..Len(queue) : all[i] = queue[i],
           NEW n \in 0..Len(queue), NEW kept \in Seq(S), Len(kept) = Len(all) - (n + 1) + 1,
           \A i \in 1..(Len(all) - (n + 1) + 1) : kept[i] = all[(n + 1) + i - 1]
    PROVE  /\ Len(kept) = Len(queue) + 1 - n
           /\ \A i \in 1..(Len(kept) - 1) : i + n \in 1..Len(queue) /\ kept[i] = queue[i + n]
           /\ kept[Len(kept)] = c
<1>1. Len(queue) \in Nat /\ Len(kept) \in Nat /\ Len(kept) = Len(queue) + 1 - n
  OBVIOUS
<1>2. \A i \in 1..Len(kept) : kept[i] = all[i + n]
  <2>1. ASSUME NEW i \in 1..Len(kept) PROVE kept[i] = all[i + n]
    <3>1. i \in 1..(Len(all) - (n + 1) + 1) /\ (n + 1) + i - 1 = i + n
      BY <1>1
    <3> QED
      BY <3>1
  <2> QED
    BY <2>1
<1>3. \A i \in 1..(Len(kept) - 1) : i + n \in 1..Len(queue) /\ kept[i] = queue[i + n]
  <2>1. ASSUME NEW i \in 1..(Len(kept) - 1)
        PROVE  i + n \in 1..Len(queue) /\ kept[i] = queue[i + n]
    <3>1. i \in 1..Len(kept) /\ i + n \in 1..Len(queue)
      BY <1>1
    <3> QED
      BY <1>2, <3>1
  <2> QED
    BY <2>1
<1>4. kept[Len(kept)] = c
  <2>1. Len(kept) \in 1..Len(kept) /\ Len(kept) + n = Len(queue) + 1
    BY <1>1
  <2>2. kept[Len(kept)] = all[Len(kept) + n]
    BY <1>2, <2>1
  <2> QED
    BY <2>1, <2>2
<1> QED
  BY <1>1, <1>3, <1>4

\* What a push keeps of the queue.
LEMMA PushKeepsNewest ==
    ASSUME Stream!StreamAssumption, NEW queue \in Seq(1..Stream!Last),
           NEW c \in 1..Stream!Last
    PROVE  LET all  == Append(queue, c)
               n    == Stream!Excess(all)
               kept == SubSeq(all, n + 1, Len(all))
           IN  /\ n \in 0..Len(queue) /\ kept \in Seq(1..Stream!Last)
               /\ Len(kept) = Len(queue) + 1 - n
               /\ \A i \in 1..(Len(kept) - 1) : i + n \in 1..Len(queue) /\ kept[i] = queue[i + n]
               /\ kept[Len(kept)] = c
               /\ Len(kept) = 1 \/ Stream!SizeOf(kept) <= MaxQueuedBytes
<1> DEFINE all == Append(queue, c)
           n == Stream!Excess(all)
           kept == SubSeq(all, n + 1, Len(all))
<1>1. /\ all \in Seq(1..Stream!Last) /\ Len(all) = Len(queue) + 1 /\ Len(queue) \in Nat
      /\ all[Len(queue) + 1] = c /\ \A i \in 1..Len(queue) : all[i] = queue[i]
      /\ Len(all) > 0
  OBVIOUS
<1> HIDE DEF all
<1>2. /\ n \in 0..(Len(all) - 1)
      /\ n = Len(all) - 1 \/ Stream!SizeOf(kept) <= MaxQueuedBytes
  BY <1>1, ExcessIsLeast
<1> HIDE DEF n
<1>3. n + 1 \in 1..(Len(all) + 1) /\ n \in 0..Len(queue)
  BY <1>1, <1>2
<1>4. /\ kept \in Seq(1..Stream!Last) /\ Len(kept) = Len(all) - (n + 1) + 1
      /\ \A i \in 1..(Len(all) - (n + 1) + 1) : kept[i] = all[(n + 1) + i - 1]
  BY <1>1, <1>3, RestOfSeq
<1> HIDE DEF kept
<1>5. /\ Len(kept) = Len(queue) + 1 - n
      /\ \A i \in 1..(Len(kept) - 1) : i + n \in 1..Len(queue) /\ kept[i] = queue[i + n]
      /\ kept[Len(kept)] = c
  <2>1. n \in 0..Len(queue)
    BY <1>3
  <2>2. /\ all \in Seq(1..Stream!Last) /\ kept \in Seq(1..Stream!Last)
        /\ queue \in Seq(1..Stream!Last) /\ c \in 1..Stream!Last
    BY <1>1, <1>4
  <2> QED
    BY <1>1, <1>4, <2>1, <2>2, EndOfQueue, SMTT(60)
<1>6. Len(kept) = 1 \/ Stream!SizeOf(kept) <= MaxQueuedBytes
  BY <1>1, <1>2, <1>5
<1> QED
  BY <1>3, <1>4, <1>5, <1>6 DEF kept, n, all

LEMMA PushKeeps ==
    ASSUME Stream!StreamAssumption, StreamInv, Stream!Push
    PROVE  StreamInv'
<1> DEFINE c == pusher.next
           all == Append(chunks, c)
           n == Stream!Excess(all)
           kept == SubSeq(all, n + 1, Len(all))
<1>1. /\ pusher.step = "push"
      /\ chunks' = kept
      /\ bytes' = bytes + Size[c] - (Stream!SizeOf(all) - Stream!SizeOf(chunks'))
      /\ dropped' = (dropped \/ n > 0)
      /\ pusher' = [next |-> c + 1, step |-> "turn"]
      /\ UNCHANGED <<finished, cancelled, drainer, peer, route, sent>>
  BY DEF Stream!Push
<1>2. /\ Stream!Last \in Nat \ {0} /\ MaxQueuedBytes \in Nat
      /\ chunks \in Seq(1..Stream!Last) /\ sent \in Seq(1..Stream!Last)
      /\ Len(chunks) \in Nat /\ Len(sent) \in Nat
      /\ \A i \in 1..Stream!Last : Size[i] \in Nat
  BY StreamTypes DEF StreamInv
<1>3. c \in 1..Stream!Last
  BY <1>1, StreamTypes DEF StreamInv, Told
<1> HIDE DEF c
<1>k. /\ n \in 0..Len(chunks) /\ kept \in Seq(1..Stream!Last)
      /\ Len(kept) = Len(chunks) + 1 - n
      /\ \A i \in 1..(Len(kept) - 1) : i + n \in 1..Len(chunks) /\ kept[i] = chunks[i + n]
      /\ kept[Len(kept)] = c
      /\ Len(kept) = 1 \/ Stream!SizeOf(kept) <= MaxQueuedBytes
  BY <1>2, <1>3, PushKeepsNewest
<1> HIDE DEF kept
<1>4. /\ n \in 0..Len(chunks) /\ chunks' \in Seq(1..Stream!Last)
      /\ Len(chunks') = Len(chunks) + 1 - n
      /\ \A i \in 1..(Len(chunks') - 1) :
           i + n \in 1..Len(chunks) /\ chunks'[i] = chunks[i + n]
      /\ chunks'[Len(chunks')] = c
      /\ Len(chunks') = 1 \/ Stream!SizeOf(chunks') <= MaxQueuedBytes
  BY <1>1, <1>k
<1>5. /\ Stream!SizeOf(chunks) \in Nat /\ Stream!SizeOf(chunks') \in Nat
      /\ Stream!SizeOf(all) = Stream!SizeOf(chunks) + Size[c]
  BY <1>2, <1>3, <1>4, SizeIsNat, SizeOfMore
<1>6. bytes = Stream!SizeOf(chunks)
  BY DEF StreamInv, Stream!QueueIsBounded
<1>7. bytes' = Stream!SizeOf(chunks') /\ bytes' \in Nat
  <2>1. Size[c] \in Nat
    BY <1>2, <1>3
  <2> HIDE DEF all, n
  <2> QED
    BY <1>1, <1>5, <1>6, <2>1
<1> HIDE DEF n, all
<1>8. Stream!QueueIsBounded'
  BY <1>4, <1>7 DEF Stream!QueueIsBounded
<1>9. pusher' \in Pushers /\ pusher'.next = c + 1 /\ pusher'.step = "turn"
  BY <1>1, <1>2, <1>3 DEF Pushers
<1>10. Stream!TypeOK'
  <2>1. dropped' \in BOOLEAN
    BY <1>1
  <2> QED
    BY <1>1, <1>4, <1>7, <1>9, <2>1 DEF StreamInv, Stream!TypeOK, Pushers
<1>11. \A i \in 1..Len(chunks') : chunks'[i] = c \/ \E k \in 1..Len(chunks) : chunks'[i] = chunks[k]
  <2>1. ASSUME NEW i \in 1..Len(chunks')
        PROVE  chunks'[i] = c \/ \E k \in 1..Len(chunks) : chunks'[i] = chunks[k]
    <3>1. i = Len(chunks') \/ i \in 1..(Len(chunks') - 1)
      BY <1>2, <1>4
    <3> QED
      BY <1>4, <3>1
  <2> QED
    BY <2>1
<1>12. \A k \in 1..Len(chunks) : chunks[k] \in 1..Stream!Last /\ chunks[k] < c
  BY <1>2 DEF c, StreamInv, ChunksInOrder
<1>13. ChunksInOrder'
  <2>1. ASSUME NEW i \in 1..Len(chunks'), NEW j \in 1..Len(chunks'), i < j
        PROVE  chunks'[i] < chunks'[j]
    <3>0. Len(chunks') \in Nat
      BY <1>4
    <3>1. i \in 1..(Len(chunks') - 1) /\ (j = Len(chunks') \/ j \in 1..(Len(chunks') - 1))
      BY <2>1, <3>0
    <3>2. i + n \in 1..Len(chunks) /\ chunks'[i] = chunks[i + n]
      BY <1>4, <3>1
    <3>3. CASE j = Len(chunks')
      BY <1>4, <1>12, <3>2, <3>3
    <3>4. CASE j \in 1..(Len(chunks') - 1)
      <4>1. j + n \in 1..Len(chunks) /\ chunks'[j] = chunks[j + n] /\ i + n < j + n
        BY <1>4, <2>1, <3>4
      <4> QED
        BY <3>2, <4>1 DEF StreamInv, ChunksInOrder
    <3> QED
      BY <3>1, <3>3, <3>4
  <2>2. \A i \in 1..Len(chunks') : chunks'[i] < pusher'.next
    BY <1>3, <1>9, <1>11, <1>12
  <2>3. ASSUME NEW i \in 1..Len(sent)
        PROVE  sent[i] < pusher'.next /\ \A j \in 1..Len(chunks') : sent[i] < chunks'[j]
    <3>1. sent[i] \in 1..Stream!Last /\ sent[i] < c
      BY <1>2 DEF c, StreamInv, ChunksInOrder
    <3>2. \A j \in 1..Len(chunks) : sent[i] < chunks[j]
      BY DEF StreamInv, ChunksInOrder
    <3> QED
      BY <1>3, <1>9, <1>11, <3>1, <3>2
  <2>4. ASSUME drainer.step = "write"
        PROVE  /\ drainer.chunk \in 1..Stream!Last /\ drainer.chunk < pusher'.next
               /\ \A j \in 1..Len(chunks') : drainer.chunk < chunks'[j]
               /\ \A i \in 1..Len(sent) : sent[i] < drainer.chunk
    <3>1. /\ drainer.chunk \in 1..Stream!Last /\ drainer.chunk < c
          /\ \A j \in 1..Len(chunks) : drainer.chunk < chunks[j]
          /\ \A i \in 1..Len(sent) : sent[i] < drainer.chunk
      BY <2>4 DEF c, StreamInv, ChunksInOrder
    <3> QED
      BY <1>3, <1>9, <1>11, <3>1
  <2> QED
    BY <1>1, <2>1, <2>2, <2>3, <2>4 DEF StreamInv, ChunksInOrder
<1>14. Told'
  <2>1. chunks' # <<>>
    BY <1>2, <1>4
  <2>2. c = Stream!Last => LastIsTold'
    BY <1>4, <2>1 DEF LastIsTold
  <2>3. pusher'.next = Stream!Last + 1 => c = Stream!Last
    BY <1>2, <1>3, <1>9
  <2>4. ~finished
    BY <1>1 DEF StreamInv, Told
  <2> QED
    BY <1>1, <1>9, <2>2, <2>3, <2>4 DEF StreamInv, Told
<1> QED
  BY <1>8, <1>10, <1>13, <1>14 DEF StreamInv

LEMMA TakeChunkKeeps ==
    ASSUME Stream!StreamAssumption, StreamInv, Stream!TakeChunk
    PROVE  StreamInv'
<1>1. /\ drainer.step \in {"wait", "loop"}
      /\ UNCHANGED <<finished, dropped, cancelled, pusher, peer, route, sent>>
  BY DEF Stream!TakeChunk
<1>2. /\ Stream!Last \in Nat \ {0} /\ MaxQueuedBytes \in Nat
      /\ chunks \in Seq(1..Stream!Last) /\ sent \in Seq(1..Stream!Last)
      /\ Len(chunks) \in Nat /\ Len(sent) \in Nat
      /\ \A i \in 1..Stream!Last : Size[i] \in Nat
  BY StreamTypes DEF StreamInv
<1>3. CASE chunks = <<>>
  <2>1. /\ chunks' = chunks /\ bytes' = bytes
        /\ drainer' = [step |-> IF finished \/ cancelled THEN "ended" ELSE "again", chunk |-> 0]
    BY <1>3 DEF Stream!TakeChunk, Stream!AllSaid
  <2>2. /\ drainer' \in Drainers /\ drainer'.step \in {"ended", "again"}
        /\ drainer'.step = "ended" => finished \/ cancelled
    BY <1>2, <2>1 DEF Drainers
  <2>3. Stream!TypeOK'
    BY <1>1, <2>1, <2>2 DEF StreamInv, Stream!TypeOK, Drainers
  <2>4. Stream!QueueIsBounded' /\ ChunksInOrder'
    BY <1>1, <2>1, <2>2 DEF StreamInv, Stream!QueueIsBounded, ChunksInOrder
  <2>5. LastIsTold => LastIsTold'
    BY <1>1, <2>1, <2>2 DEF LastIsTold
  <2>6. Told'
    BY <1>1, <1>3, <2>1, <2>2, <2>5 DEF StreamInv, Told
  <2> QED
    BY <2>3, <2>4, <2>6 DEF StreamInv
<1>4. CASE chunks # <<>>
  <2>1. /\ drainer' = [step |-> "write", chunk |-> Head(chunks)]
        /\ bytes' = bytes - Size[Head(chunks)]
        /\ chunks' = Tail(chunks)
    BY <1>4 DEF Stream!TakeChunk
  <2>2. /\ Tail(chunks) \in Seq(1..Stream!Last) /\ Len(Tail(chunks)) = Len(chunks) - 1
        /\ \A i \in 1..(Len(chunks) - 1) : Tail(chunks)[i] = chunks[i + 1]
        /\ Head(chunks) = chunks[1] /\ Head(chunks) \in 1..Stream!Last
        /\ Len(chunks) >= 1
    BY <1>2, <1>4
  <2>3. /\ drainer' \in Drainers /\ drainer'.step = "write" /\ drainer'.chunk = chunks[1]
    BY <1>2, <2>1, <2>2 DEF Drainers
  <2>4. /\ bytes = Stream!SizeOf(chunks) /\ Stream!SizeOf(Tail(chunks)) \in Nat
        /\ Stream!SizeOf(chunks) \in Nat
        /\ Stream!SizeOf(Tail(chunks)) = Stream!SizeOf(chunks) - Size[Head(chunks)]
    BY <1>2, <1>4, <2>2, SizeIsNat, SizeOfRest DEF StreamInv, Stream!QueueIsBounded
  <2>5. bytes' = Stream!SizeOf(chunks') /\ bytes' \in Nat
    BY <2>1, <2>4
  <2>6. Stream!TypeOK'
    BY <1>1, <2>1, <2>2, <2>3, <2>5 DEF StreamInv, Stream!TypeOK, Drainers
  <2>7. Stream!QueueIsBounded'
    <3>1. CASE Len(chunks) = 1
      <4>0. Len(Tail(chunks)) = 0
        BY <2>2, <3>1
      <4>1. Tail(chunks) = <<>>
        BY <2>2, <4>0, EmptySeq
      <4>2. bytes' = 0
        BY <2>1, <2>5, <4>1, SizeOfNone
      <4> QED
        BY <1>2, <2>5, <4>2 DEF Stream!QueueIsBounded
    <3>2. CASE Len(chunks) # 1
      <4>1. bytes <= MaxQueuedBytes /\ Size[Head(chunks)] \in Nat /\ bytes \in Nat
        BY <1>2, <2>2, <2>4, <3>2 DEF StreamInv, Stream!QueueIsBounded
      <4>2. bytes' <= MaxQueuedBytes
        BY <1>2, <2>1, <4>1
      <4> QED
        BY <2>5, <4>2 DEF Stream!QueueIsBounded
    <3> QED
      BY <3>1, <3>2
  <2>8. \A i \in 1..Len(chunks') : i + 1 \in 1..Len(chunks) /\ chunks'[i] = chunks[i + 1]
    BY <1>2, <2>1, <2>2
  <2>9. ChunksInOrder'
    <3>1. ASSUME NEW i \in 1..Len(chunks'), NEW j \in 1..Len(chunks'), i < j
          PROVE  chunks'[i] < chunks'[j]
      <4>1. i + 1 < j + 1 /\ i + 1 \in 1..Len(chunks) /\ j + 1 \in 1..Len(chunks)
            /\ chunks'[i] = chunks[i + 1] /\ chunks'[j] = chunks[j + 1]
        BY <1>2, <2>1, <2>2, <2>8, <3>1
      <4> QED
        BY <4>1 DEF StreamInv, ChunksInOrder
    <3>2. \A i \in 1..Len(chunks') : chunks'[i] < pusher.next
      BY <2>8 DEF StreamInv, ChunksInOrder
    <3>3. \A i \in 1..Len(sent) :
            sent[i] < pusher.next /\ \A j \in 1..Len(chunks') : sent[i] < chunks'[j]
      BY <2>8 DEF StreamInv, ChunksInOrder
    <3>4. 1 \in 1..Len(chunks)
      BY <1>2, <2>2
    <3>5. /\ chunks[1] \in 1..Stream!Last /\ chunks[1] < pusher.next
          /\ \A i \in 1..Len(sent) : sent[i] < chunks[1]
      BY <1>2, <3>4 DEF StreamInv, ChunksInOrder
    <3>6. \A j \in 1..Len(chunks') : chunks[1] < chunks'[j]
      <4>1. ASSUME NEW j \in 1..Len(chunks') PROVE chunks[1] < chunks'[j]
        <5>1. j + 1 \in 1..Len(chunks) /\ chunks'[j] = chunks[j + 1] /\ 1 < j + 1
          BY <1>2, <2>1, <2>2, <2>8
        <5> QED
          BY <3>4, <5>1 DEF StreamInv, ChunksInOrder
      <4> QED
        BY <4>1
    <3> QED
      BY <1>1, <2>3, <3>1, <3>2, <3>3, <3>5, <3>6 DEF StreamInv, ChunksInOrder
  <2>10. Told'
    <3>1. LastIsTold => LastIsTold'
      <4>1. CASE Tail(chunks) = <<>>
        <5>0. Len(Tail(chunks)) = 0
          BY <2>2, <4>1, EmptySeq
        <5>1. Len(chunks) = 1
          <6> DEFINE rest == Tail(chunks)
          <6>1. Len(rest) = Len(chunks) - 1 /\ Len(rest) = 0 /\ Len(chunks) \in Nat
            BY <1>2, <2>2, <5>0
          <6> HIDE DEF rest
          <6> QED
            BY <6>1
        <5> QED
          BY <1>4, <2>1, <2>3, <4>1, <5>1 DEF LastIsTold
      <4>2. CASE Tail(chunks) # <<>>
        <5>1. Len(chunks') \in 1..Len(chunks') /\ Len(chunks') + 1 = Len(chunks)
          BY <1>2, <2>1, <2>2, <4>2
        <5> QED
          BY <1>4, <2>1, <2>8, <4>2, <5>1 DEF LastIsTold
      <4> QED
        BY <4>1, <4>2
    <3> QED
      BY <1>1, <2>3, <3>1 DEF StreamInv, Told
  <2> QED
    BY <2>6, <2>7, <2>9, <2>10 DEF StreamInv
<1> QED
  BY <1>3, <1>4

LEMMA WriteKeeps ==
    ASSUME Stream!StreamAssumption, StreamInv, Stream!Write
    PROVE  StreamInv'
<1>1. /\ drainer.step = "write"
      /\ UNCHANGED <<chunks, bytes, finished, dropped, pusher, peer, route>>
  BY DEF Stream!Write
<1>2. /\ Stream!Last \in Nat \ {0}
      /\ chunks \in Seq(1..Stream!Last) /\ sent \in Seq(1..Stream!Last)
      /\ Len(chunks) \in Nat /\ Len(sent) \in Nat
  BY StreamTypes DEF StreamInv
<1>3. /\ drainer.chunk \in 1..Stream!Last /\ drainer.chunk < pusher.next
      /\ \A j \in 1..Len(chunks) : drainer.chunk < chunks[j]
      /\ \A i \in 1..Len(sent) : sent[i] < drainer.chunk
  BY <1>1 DEF StreamInv, ChunksInOrder
<1>4. CASE peer = "there"
  <2>1. /\ sent' = Append(sent, drainer.chunk) /\ cancelled' = cancelled
        /\ drainer' = [step |-> "loop", chunk |-> 0]
    BY <1>4 DEF Stream!Write
  <2>2. /\ sent' \in Seq(1..Stream!Last) /\ Len(sent') = Len(sent) + 1
        /\ \A i \in 1..Len(sent) : sent'[i] = sent[i]
        /\ sent'[Len(sent) + 1] = drainer.chunk
    BY <1>2, <1>3, <2>1
  <2>3. drainer' \in Drainers /\ drainer'.step = "loop"
    BY <1>2, <2>1 DEF Drainers
  <2>4. Stream!TypeOK' /\ Stream!QueueIsBounded'
    BY <1>1, <2>1, <2>2, <2>3
       DEF StreamInv, Stream!TypeOK, Stream!QueueIsBounded, Drainers
  <2>5. \A i \in 1..Len(sent') : i \in 1..Len(sent) \/ i = Len(sent) + 1
    BY <1>2, <2>2
  <2>6. ChunksInOrder'
    <3>1. ASSUME NEW i \in 1..Len(sent'), NEW j \in 1..Len(sent'), i < j
          PROVE  sent'[i] < sent'[j]
      <4>1. i \in 1..Len(sent)
        BY <1>2, <2>2, <3>1
      <4>2. CASE j \in 1..Len(sent)
        BY <2>2, <3>1, <4>1, <4>2 DEF StreamInv, ChunksInOrder
      <4>3. CASE j = Len(sent) + 1
        BY <1>3, <2>2, <4>1, <4>3
      <4> QED
        BY <2>5, <4>2, <4>3
    <3>2. ASSUME NEW i \in 1..Len(sent')
          PROVE  sent'[i] < pusher.next /\ \A j \in 1..Len(chunks) : sent'[i] < chunks[j]
      <4>1. CASE i \in 1..Len(sent)
        BY <2>2, <4>1 DEF StreamInv, ChunksInOrder
      <4>2. CASE i = Len(sent) + 1
        BY <1>3, <2>2, <4>2
      <4> QED
        BY <2>5, <4>1, <4>2
    <3> QED
      BY <1>1, <2>3, <3>1, <3>2 DEF StreamInv, ChunksInOrder
  <2>7. Told'
    <3>1. LastIsTold => LastIsTold'
      <4>1. sent' # <<>>
        BY <1>2, <2>2
      <4> QED
        BY <1>1, <2>2, <2>3, <4>1 DEF LastIsTold
    <3> QED
      BY <1>1, <2>1, <2>3, <3>1 DEF StreamInv, Told
  <2> QED
    BY <2>4, <2>6, <2>7 DEF StreamInv
<1>5. CASE peer # "there"
  <2>1. /\ sent' = sent /\ cancelled' = TRUE
        /\ drainer' = [step |-> "ended", chunk |-> 0]
    BY <1>5 DEF Stream!Write
  <2>2. drainer' \in Drainers /\ drainer'.step = "ended"
    BY <1>2, <2>1 DEF Drainers
  <2>3. peer = "gone"
    BY <1>5 DEF StreamInv, Stream!TypeOK
  <2>4. Stream!TypeOK' /\ Stream!QueueIsBounded'
    BY <1>1, <2>1, <2>2 DEF StreamInv, Stream!TypeOK, Stream!QueueIsBounded, Drainers
  <2>5. ChunksInOrder'
    BY <1>1, <2>1, <2>2 DEF StreamInv, ChunksInOrder
  <2>6. Told'
    BY <1>1, <2>1, <2>2, <2>3 DEF StreamInv, Told
  <2> QED
    BY <2>4, <2>5, <2>6 DEF StreamInv
<1> QED
  BY <1>4, <1>5

LEMMA PeerKeeps ==
    ASSUME Stream!StreamAssumption, StreamInv,
           Stream!CallAgain \/ Stream!ClientLeaves \/ UNCHANGED Stream!streamVars
    PROVE  StreamInv'
<1>1. UNCHANGED <<chunks, bytes, finished, dropped, cancelled, pusher, route, sent>>
  BY DEF Stream!CallAgain, Stream!ClientLeaves, Stream!streamVars
<1>2. Stream!Last \in Nat \ {0} /\ drainer \in Drainers
  BY StreamTypes DEF StreamInv
<1>3. /\ drainer' \in Drainers /\ peer' \in {"there", "gone"}
      /\ peer = "gone" => peer' = "gone"
      /\ drainer'.step = "write" <=> drainer.step = "write"
      /\ drainer'.chunk = drainer.chunk
      /\ drainer'.step = "ended" => drainer.step = "ended" \/ peer' = "gone"
  <2>1. CASE Stream!CallAgain
    <3>1. /\ drainer.step = "again" /\ peer' = peer
          /\ \/ peer = "gone" /\ drainer' = [drainer EXCEPT !.step = "ended"]
             \/ peer # "gone" /\ drainer' = [drainer EXCEPT !.step = "wait"]
      BY <2>1 DEF Stream!CallAgain
    <3> QED
      BY <1>2, <3>1 DEF Drainers, StreamInv, Stream!TypeOK
  <2>2. CASE Stream!ClientLeaves \/ UNCHANGED Stream!streamVars
    BY <1>2, <2>2 DEF Stream!ClientLeaves, Stream!streamVars, StreamInv, Stream!TypeOK
  <2> QED
    BY <2>1, <2>2
<1>4. Stream!TypeOK' /\ Stream!QueueIsBounded'
  BY <1>1, <1>3 DEF StreamInv, Stream!TypeOK, Stream!QueueIsBounded, Drainers
<1>5. ChunksInOrder'
  BY <1>1, <1>3 DEF StreamInv, ChunksInOrder
<1>6. LastIsTold' <=> LastIsTold
  BY <1>1, <1>3 DEF LastIsTold
<1>7. Told'
  BY <1>1, <1>3, <1>6 DEF StreamInv, Told, Stream!TypeOK
<1> QED
  BY <1>4, <1>5, <1>7 DEF StreamInv

LEMMA StreamNext ==
    ASSUME Stream!StreamAssumption, StreamInv, [Stream!Next]_(Stream!streamVars)
    PROVE  StreamInv'
  BY TurnKeeps, PushKeeps, TakeChunkKeeps, WriteKeeps, PeerKeeps
     DEF Stream!Next, Stream!TurnStep, Stream!DrainStep

LEMMA StreamBegins == ASSUME Stream!StreamAssumption, Stream!Init PROVE StreamInv
<1>1. /\ Stream!Last \in Nat \ {0} /\ MaxQueuedBytes \in Nat
      /\ chunks = <<>> /\ sent = <<>> /\ bytes = 0
      /\ ~finished /\ ~dropped /\ ~cancelled /\ peer = "there"
  BY DEF Stream!Init, Stream!StreamAssumption, Stream!Last
<1>2. /\ pusher \in Pushers /\ pusher.next = 1 /\ pusher.step = "turn"
      /\ drainer \in Drainers /\ drainer.step = "wait"
  BY <1>1 DEF Stream!Init, Pushers, Drainers
<1>3. <<>> \in Seq(1..Stream!Last) /\ Len(<<>>) = 0
  OBVIOUS
<1>4. Stream!TypeOK
  <2>1. /\ route \in {"agent", "openai"}
        /\ finished \in BOOLEAN /\ dropped \in BOOLEAN /\ cancelled \in BOOLEAN
    BY DEF Stream!Init
  <2>2. /\ pusher \in [next : 1..(Stream!Last + 1), step : {"turn", "push", "over"}]
        /\ drainer \in [step : {"wait", "write", "loop", "again", "ended"},
                        chunk : 0..Stream!Last]
    BY <1>2 DEF Pushers, Drainers
  <2> QED
    BY <1>1, <1>3, <2>1, <2>2 DEF Stream!TypeOK
<1>5. Stream!QueueIsBounded
  BY <1>1, SizeOfNone DEF Stream!QueueIsBounded
<1>6. ChunksInOrder
  BY <1>1, <1>2, <1>3 DEF ChunksInOrder
<1>7. Told
  BY <1>1, <1>2 DEF Told
<1> QED
  BY <1>4, <1>5, <1>6, <1>7 DEF StreamInv

\* The account of queued bytes is right and bounded, and a client gets the chunks in
\* order and, if he stays, the terminal event last: on the agent's own route; on /v1 a
\* turn that fails ends without one (SseStream of api_routes.cpp).
THEOREM StreamAlwaysInOrder ==
    ASSUME Stream!StreamAssumption
    PROVE  Stream!Spec => [](Stream!TypeOK /\ Stream!QueueIsBounded /\ Stream!SentInOrder)
<1>1. Stream!Init => StreamInv
  BY StreamBegins
<1>2. StreamInv /\ [Stream!Next]_(Stream!streamVars) => StreamInv'
  BY StreamNext
<1>3. StreamInv => Stream!TypeOK /\ Stream!QueueIsBounded /\ Stream!SentInOrder
  <2>1. ASSUME StreamInv, drainer.step = "ended", peer = "there", route = "agent"
        PROVE  sent # <<>> /\ sent[Len(sent)] = Stream!Last
    BY <2>1 DEF StreamInv, Told, LastIsTold
  <2> QED
    BY <2>1 DEF StreamInv, ChunksInOrder, Stream!SentInOrder
<1> QED
  BY <1>1, <1>2, <1>3, PTL DEF Stream!Spec

LEMMA StreamBehaves == Spec => Stream!Spec
<1>1. Init => Stream!Init
  BY DEF Init
<1>2. [Next]_vars => [Stream!Next]_(Stream!streamVars)
  BY StepOfPart DEF streamVars, Stream!streamVars
<1> QED
  BY <1>1, <1>2, PTL DEF Spec, Stream!Spec

(***************************************************************************)
(* The gateway as a whole.                                                 *)
(***************************************************************************)

\* LifeAlwaysAgrees, IndexAlwaysCurrent and StreamAlwaysInOrder of the program as it
\* is checked (gateway_commands.cpp, memory_manager.cpp, api_routes.cpp).
THEOREM GatewayOfProcessesAgrees == Spec => []GatewayAgrees
<1>1. Life!LifeAssumption /\ Index!IndexAssumption /\ Stream!StreamAssumption
  BY ProcessesAssumption DEF ProcessesAssumption
<1>2. /\ Life!Spec => [](Life!TypeOK /\ Life!QueueOutlivesCron
                           /\ Life!SidecarGoneInShutdownOnly /\ Life!NothingRunsAtReturn)
      /\ Index!Spec => [](Index!TypeOK /\ Index!IndexIsCurrent)
      /\ Stream!Spec => [](Stream!TypeOK /\ Stream!QueueIsBounded /\ Stream!SentInOrder)
  BY <1>1, LifeAlwaysAgrees, IndexAlwaysCurrent, StreamAlwaysInOrder
<1>3. (/\ Life!QueueOutlivesCron /\ Life!SidecarGoneInShutdownOnly /\ Life!NothingRunsAtReturn
       /\ Index!IndexIsCurrent /\ Stream!QueueIsBounded /\ Stream!SentInOrder) <=> GatewayAgrees
  BY DEF GatewayAgrees
<1> QED
  BY <1>2, <1>3, LifeBehaves, IndexBehaves, StreamBehaves, PTL

(***************************************************************************)
(* The types of all parts.  Those of the gateway's server rest on what its *)
(* connections' threads hold; GatewayProofs says more of it.               *)
(***************************************************************************)

\* What a thread of the server holds, and what is tracked, was received; and
\* is one of the slow methods where a thread is to be started for it.
Held == [step : {"received", "serving", "screened", "admitted", "spawned"},
         req : Serving!Requests] \cup {Serving!Idle}

Slow(r) == r \in Serving!Requests /\ kind[r] = "async" /\ from[r] # Serving!Nobody

ServesInv ==
    /\ Serving!TypeOK
    /\ \A k \in Connections :
         thread[k].step \in {"screened", "admitted", "spawned"} => kind[thread[k].req] = "async"
    /\ \A r \in tracked : Slow(r)

LEMMA HoldsWhatCame ==
    ASSUME ServesInv, Serving!GatewayAssumption, NEW k \in Connections, thread[k].step # "idle"
    PROVE  /\ thread[k] # Serving!Idle /\ thread[k].req \in Serving!Requests
           /\ thread[k] \in [step : {"received", "serving", "screened", "admitted", "spawned"},
                             req : Serving!Requests]
           /\ from[thread[k].req] = k /\ k # Serving!Nobody
<1>1. thread[k] # Serving!Idle /\ k # Serving!Nobody
  BY DEF Serving!Idle, Serving!GatewayAssumption
<1>2. thread[k] \in [step : {"received", "serving", "screened", "admitted", "spawned"},
                     req : Serving!Requests]
  BY <1>1 DEF ServesInv, Serving!TypeOK
<1>3. from[thread[k].req] = k
  BY <1>1 DEF ServesInv, Serving!TypeOK
<1> QED
  BY <1>1, <1>2, <1>3

\* A thread of a connection goes on with what it holds, or has nothing to do.
LEMMA ThreadGoesOn ==
    ASSUME ServesInv, NEW k \in Connections, NEW t \in Held,
           thread' = [thread EXCEPT ![k] = t],
           t # Serving!Idle => from[t.req] = k,
           t.step \in {"screened", "admitted", "spawned"} => kind[t.req] = "async",
           \A r \in tracked' : Slow(r),
           UNCHANGED <<life, socket, entry, from, kind>>,
           handler' \in [Serving!Requests -> {"none", "running", "replied", "ended"}],
           verdict' \in [Serving!Requests -> {"none", "answered", "refused", "busy", "dropped"}],
           replies' \in [Serving!Requests -> Nat]
    PROVE  ServesInv'
<1>1. /\ thread \in [Connections -> Held]
      /\ \A j \in Connections : thread[j] # Serving!Idle => from[thread[j].req] = j
  BY DEF ServesInv, Serving!TypeOK, Held
<1>2. /\ thread' \in [Connections -> Held] /\ thread'[k] = t
      /\ \A j \in Connections \ {k} : thread'[j] = thread[j]
  BY <1>1
<1>3. \A j \in Connections : thread'[j] # Serving!Idle => from'[thread'[j].req] = j
  BY <1>1, <1>2
<1>4. tracked' \subseteq {r \in Serving!Requests : kind'[r] = "async"}
  BY DEF Slow
<1>5. Serving!TypeOK'
  BY <1>2, <1>3, <1>4 DEF ServesInv, Serving!TypeOK, Held
<1>6. \A j \in Connections :
        thread'[j].step \in {"screened", "admitted", "spawned"} => kind'[thread'[j].req] = "async"
  BY <1>2 DEF ServesInv
<1>7. \A r \in tracked' : Slow(r)'
  BY DEF Slow
<1> QED
  BY <1>5, <1>6, <1>7 DEF ServesInv

LEMMA AnswersTyped ==
    ASSUME ServesInv, NEW r \in Serving!Requests, NEW isOpen,
           NEW what \in {"answered", "refused", "busy"}, Serving!Replies(r, isOpen, what)
    PROVE  /\ verdict' \in [Serving!Requests -> {"none", "answered", "refused", "busy", "dropped"}]
           /\ replies' \in [Serving!Requests -> Nat]
  BY DEF ServesInv, Serving!TypeOK, Serving!Replies

\* An early return, or the end of a handler that needs no thread.
LEMMA RefuseTypes ==
    ASSUME ServesInv, Serving!GatewayAssumption, NEW k \in Connections, thread[k].step # "idle",
           NEW what \in {"answered", "refused", "busy"}, Serving!Refuse(k, what),
           tracked' \subseteq tracked,
           UNCHANGED <<life, socket, entry, handler, from, kind>>
    PROVE  ServesInv'
<1>1. /\ verdict' \in [Serving!Requests -> {"none", "answered", "refused", "busy", "dropped"}]
      /\ replies' \in [Serving!Requests -> Nat]
  BY HoldsWhatCame, AnswersTyped DEF Serving!Refuse
<1>2. thread' = [thread EXCEPT ![k] = Serving!Idle]
  BY DEF Serving!Refuse, Serving!Rests
<1>3. Serving!Idle \in Held /\ Serving!Idle.step = "idle"
  BY DEF Held, Serving!Idle
<1>4. \A r \in tracked' : Slow(r)
  BY DEF ServesInv
<1>5. handler' \in [Serving!Requests -> {"none", "running", "replied", "ended"}]
  BY DEF ServesInv, Serving!TypeOK
<1> QED
  BY <1>1, <1>2, <1>3, <1>4, <1>5, ThreadGoesOn

\* A step on the way to a handler.
LEMMA MoveTypes ==
    ASSUME ServesInv, Serving!GatewayAssumption, NEW k \in Connections, thread[k].step # "idle",
           NEW s \in {"serving", "screened", "admitted", "spawned"}, Serving!Moves(k, s),
           s = "serving" \/ kind[thread[k].req] = "async",
           tracked' \subseteq tracked,
           UNCHANGED <<life, socket, entry, from, kind, verdict, replies>>,
           handler' \in [Serving!Requests -> {"none", "running", "replied", "ended"}]
    PROVE  ServesInv'
<1> DEFINE t == [thread[k] EXCEPT !.step = s]
<1>1. /\ t \in [step : {"received", "serving", "screened", "admitted", "spawned"},
                req : Serving!Requests]
      /\ t.step = s /\ t.req = thread[k].req
  BY HoldsWhatCame
<1>2. thread' = [thread EXCEPT ![k] = t]
  BY DEF Serving!Moves
<1> HIDE DEF t
<1>3. t \in Held /\ from[t.req] = k
  BY <1>1, HoldsWhatCame DEF Held
<1>4. \A r \in tracked' : Slow(r)
  BY DEF ServesInv
<1>5. /\ verdict' \in [Serving!Requests -> {"none", "answered", "refused", "busy", "dropped"}]
      /\ replies' \in [Serving!Requests -> Nat]
  BY DEF ServesInv, Serving!TypeOK
<1> QED
  BY <1>1, <1>2, <1>3, <1>4, <1>5, ThreadGoesOn

LEMMA ConnectionThreadTypes ==
    ASSUME ServesInv, Serving!GatewayAssumption, NEW k \in Connections, Serving!ConnectionThread(k)
    PROVE  ServesInv'
<1>1. CASE Serving!Screen(k)
  <2>1. thread[k].step = "received" /\ tracked' = tracked /\ handler' = handler
        /\ UNCHANGED <<life, socket, entry, from, kind>>
    BY <1>1 DEF Serving!Screen, Serving!At
  <2>2. handler \in [Serving!Requests -> {"none", "running", "replied", "ended"}]
    BY DEF ServesInv, Serving!TypeOK
  <2>3. CASE Serving!Refuse(k, "refused")
    BY <2>1, <2>3, RefuseTypes
  <2>4. CASE /\ UNCHANGED <<verdict, replies>>
             /\ Serving!Moves(k, IF kind[thread[k].req] = "async" THEN "screened" ELSE "serving")
    <3>1. CASE kind[thread[k].req] = "async"
      BY <2>1, <2>2, <2>4, <3>1, MoveTypes
    <3>2. CASE kind[thread[k].req] # "async"
      BY <2>1, <2>2, <2>4, <3>2, MoveTypes
    <3> QED
      BY <3>1, <3>2
  <2> QED
    BY <1>1, <2>3, <2>4 DEF Serving!Screen
<1>2. CASE Serving!Serve(k)
  <2>1. thread[k].step = "serving" /\ tracked' = tracked /\ Serving!Refuse(k, "answered")
        /\ UNCHANGED <<life, socket, entry, handler, from, kind>>
    BY <1>2 DEF Serving!Serve, Serving!At
  <2> QED
    BY <2>1, RefuseTypes
<1>3. CASE Serving!Admit(k)
  <2>1. /\ thread[k].step = "screened" /\ tracked' = tracked \ Serving!Ended
        /\ UNCHANGED <<life, socket, entry, handler, from, kind>>
        /\ \/ Serving!Refuse(k, "busy")
           \/ Serving!Moves(k, "admitted") /\ UNCHANGED <<verdict, replies>>
    BY <1>3 DEF Serving!Admit, Serving!At
  <2>2. handler \in [Serving!Requests -> {"none", "running", "replied", "ended"}]
        /\ kind[thread[k].req] = "async" /\ tracked' \subseteq tracked
    BY <2>1 DEF ServesInv, Serving!TypeOK
  <2> QED
    BY <2>1, <2>2, RefuseTypes, MoveTypes
<1>4. CASE Serving!Spawn(k)
  <2>1. /\ thread[k].step = "admitted" /\ Serving!Moves(k, "spawned")
        /\ handler' = [handler EXCEPT ![thread[k].req] = "running"]
        /\ UNCHANGED <<life, socket, entry, tracked, from, kind, verdict, replies>>
    BY <1>4 DEF Serving!Spawn, Serving!At
  <2>2. handler' \in [Serving!Requests -> {"none", "running", "replied", "ended"}]
        /\ kind[thread[k].req] = "async" /\ tracked' \subseteq tracked
    BY <2>1, HoldsWhatCame DEF ServesInv, Serving!TypeOK
  <2> QED
    BY <2>1, <2>2, MoveTypes
<1>5. CASE Serving!Track(k)
  <2>1. /\ thread[k].step = "spawned" /\ thread' = [thread EXCEPT ![k] = Serving!Idle]
        /\ tracked' = tracked \cup {thread[k].req}
        /\ UNCHANGED <<life, socket, entry, handler, from, kind, verdict, replies>>
    BY <1>5 DEF Serving!Track, Serving!At, Serving!Rests
  <2>2. Slow(thread[k].req)
    BY <2>1, HoldsWhatCame DEF ServesInv, Slow
  <2>3. \A r \in tracked' : Slow(r)
    BY <2>1, <2>2 DEF ServesInv
  <2>4. Serving!Idle \in Held /\ Serving!Idle.step = "idle"
    BY DEF Held, Serving!Idle
  <2>5. /\ handler' \in [Serving!Requests -> {"none", "running", "replied", "ended"}]
        /\ verdict' \in [Serving!Requests -> {"none", "answered", "refused", "busy", "dropped"}]
        /\ replies' \in [Serving!Requests -> Nat]
    BY <2>1 DEF ServesInv, Serving!TypeOK
  <2> QED
    BY <2>1, <2>3, <2>4, <2>5, ThreadGoesOn
<1> QED
  BY <1>1, <1>2, <1>3, <1>4, <1>5 DEF Serving!ConnectionThread

LEMMA ReceiveTypes ==
    ASSUME ServesInv, Serving!GatewayAssumption, NEW k \in Connections,
           NEW r \in Serving!Requests, NEW what \in Serving!Kinds, Serving!Receive(k, r, what)
    PROVE  ServesInv'
<1> DEFINE t == [step |-> "received", req |-> r]
<1>1. /\ from[r] = Serving!Nobody /\ k # Serving!Nobody
      /\ from' = [from EXCEPT ![r] = k] /\ kind' = [kind EXCEPT ![r] = what]
      /\ thread' = [thread EXCEPT ![k] = t]
      /\ UNCHANGED <<life, socket, entry, tracked, handler, verdict, replies>>
  BY DEF Serving!Receive, Serving!Fresh, Serving!GatewayAssumption
<1>2. t \in Held /\ t.step = "received" /\ t.req = r
  BY DEF Held
<1> HIDE DEF t
<1>3. /\ thread \in [Connections -> Held]
      /\ \A j \in Connections : thread[j] # Serving!Idle => from[thread[j].req] = j
      /\ from \in [Serving!Requests -> Connections \cup {Serving!Nobody}]
      /\ kind \in [Serving!Requests -> Serving!Kinds]
  BY DEF ServesInv, Serving!TypeOK, Held
<1>4. /\ thread' \in [Connections -> Held] /\ thread'[k] = t
      /\ \A j \in Connections \ {k} : thread'[j] = thread[j]
      /\ from' \in [Serving!Requests -> Connections \cup {Serving!Nobody}]
      /\ kind' \in [Serving!Requests -> Serving!Kinds]
      /\ from'[r] = k
      /\ \A q \in Serving!Requests \ {r} : from'[q] = from[q] /\ kind'[q] = kind[q]
  BY <1>1, <1>2, <1>3
<1>5. ASSUME NEW j \in Connections, thread[j] # Serving!Idle
      PROVE  thread[j].req \in Serving!Requests \ {r}
  <2>1. thread[j].req \in Serving!Requests
    BY <1>3, <1>5 DEF Held
  <2>2. from[thread[j].req] = j /\ j # Serving!Nobody
    BY <1>3, <1>5 DEF Serving!GatewayAssumption
  <2> QED
    BY <1>1, <2>1, <2>2
<1>6. ASSUME NEW j \in Connections, thread'[j] # Serving!Idle
      PROVE  from'[thread'[j].req] = j
  BY <1>2, <1>3, <1>4, <1>5, <1>6
<1>7. ASSUME NEW j \in Connections, thread'[j].step \in {"screened", "admitted", "spawned"}
      PROVE  kind'[thread'[j].req] = "async"
  <2>1. j # k /\ thread'[j] = thread[j]
    BY <1>2, <1>4, <1>7
  <2>2. thread[j] # Serving!Idle /\ kind[thread[j].req] = "async"
    BY <1>7, <2>1 DEF ServesInv, Serving!Idle
  <2> QED
    BY <1>4, <1>5, <2>1, <2>2
<1>8. \A q \in tracked : Slow(q) /\ Slow(q)'
  BY <1>1, <1>4 DEF ServesInv, Slow, Serving!Requests
<1>9. tracked' \subseteq {q \in Serving!Requests : kind'[q] = "async"}
  BY <1>1, <1>8 DEF Slow
<1>10. Serving!TypeOK'
  BY <1>1, <1>4, <1>6, <1>9 DEF ServesInv, Serving!TypeOK, Held
<1> QED
  BY <1>1, <1>7, <1>8, <1>10 DEF ServesInv

LEMMA ServesNext ==
    ASSUME ServesInv, Serving!GatewayAssumption, Serving!Next \/ UNCHANGED servingVars
    PROVE  ServesInv'
<1>1. ASSUME UNCHANGED <<thread, tracked, from, kind, verdict, replies, handler>>,
             life' \in {"stopped", "up", "closing", "joining"},
             socket' \in [Connections -> {"new", "open", "closed"}],
             entry' \in [Connections -> {"none", "unauthenticated", "known"}]
      PROVE  ServesInv'
  <2>1. Serving!TypeOK'
    BY <1>1 DEF ServesInv, Serving!TypeOK
  <2>2. /\ \A k \in Connections : thread'[k].step \in {"screened", "admitted", "spawned"}
                                    => kind'[thread'[k].req] = "async"
        /\ \A r \in tracked' : Slow(r)'
    BY <1>1 DEF ServesInv, Slow
  <2> QED
    BY <2>1, <2>2 DEF ServesInv
<1>2. ASSUME NEW k \in Connections, Serving!Open(k) \/ Serving!Close(k) \/ Serving!Hello(k)
      PROVE  ServesInv'
  <2>1. /\ UNCHANGED <<life, thread, tracked, from, kind, verdict, replies, handler>>
        /\ socket' \in [Connections -> {"new", "open", "closed"}]
        /\ entry' \in [Connections -> {"none", "unauthenticated", "known"}]
    BY <1>2 DEF Serving!Open, Serving!Close, Serving!Hello, ServesInv, Serving!TypeOK
  <2> QED
    BY <1>1, <2>1 DEF ServesInv, Serving!TypeOK
<1>3. ASSUME NEW r \in Serving!Requests, Serving!Respond(r) \/ Serving!End(r)
      PROVE  ServesInv'
  <2>1. /\ UNCHANGED <<life, socket, entry, thread, tracked, from, kind>>
        /\ handler' \in [Serving!Requests -> {"none", "running", "replied", "ended"}]
    BY <1>3 DEF Serving!Respond, Serving!End, ServesInv, Serving!TypeOK
  <2>2. /\ verdict' \in [Serving!Requests -> {"none", "answered", "refused", "busy", "dropped"}]
        /\ replies' \in [Serving!Requests -> Nat]
    BY <1>3, AnswersTyped DEF Serving!Respond, Serving!End, ServesInv, Serving!TypeOK
  <2>3. Serving!TypeOK'
    BY <2>1, <2>2 DEF ServesInv, Serving!TypeOK
  <2>4. /\ \A k \in Connections : thread'[k].step \in {"screened", "admitted", "spawned"}
                                    => kind'[thread'[k].req] = "async"
        /\ \A q \in tracked' : Slow(q)'
    BY <2>1 DEF ServesInv, Slow
  <2> QED
    BY <2>3, <2>4 DEF ServesInv
<1>4. ASSUME Serving!Owner PROVE ServesInv'
  <2>1. CASE Serving!StopReturns
    <3>1. /\ life' = "stopped" /\ tracked' = {} /\ entry' = [k \in Connections |-> "none"]
          /\ UNCHANGED <<socket, thread, handler, from, kind, verdict, replies>>
      BY <2>1 DEF Serving!StopReturns
    <3>2. Serving!TypeOK'
      BY <3>1 DEF ServesInv, Serving!TypeOK
    <3> QED
      BY <3>1, <3>2 DEF ServesInv
  <2>2. CASE ~Serving!StopReturns
    <3>1. /\ UNCHANGED <<socket, entry, thread, tracked, from, kind, verdict, replies, handler>>
          /\ life' \in {"stopped", "up", "closing", "joining"}
      BY <1>4, <2>2 DEF Serving!Owner, Serving!Start, Serving!Stop, Serving!ServerStopped
    <3> QED
      BY <1>1, <3>1 DEF ServesInv, Serving!TypeOK
  <2> QED
    BY <2>1, <2>2
<1>5. ASSUME UNCHANGED servingVars PROVE ServesInv'
  BY <1>1, <1>5 DEF servingVars, ServesInv, Serving!TypeOK
<1>6. ASSUME NEW k \in Connections, Serving!ClientAct(k) PROVE ServesInv'
  BY <1>2, <1>6, ReceiveTypes DEF Serving!ClientAct
<1> QED
  BY <1>3, <1>4, <1>5, <1>6, ConnectionThreadTypes DEF Serving!Next, Serving!HandlerThread

LEMMA ServesBegins == Serving!Init => ServesInv
<1> SUFFICES ASSUME Serving!Init PROVE ServesInv
  OBVIOUS
<1>1. \A k \in Connections : thread[k] = Serving!Idle /\ thread[k].step = "idle"
  BY DEF Serving!Init, Serving!Idle
<1>2. Serving!TypeOK
  BY <1>1 DEF Serving!Init, Serving!TypeOK, Serving!Kinds
<1> QED
  BY <1>1, <1>2 DEF ServesInv, Serving!Init

LEMMA ServingTyped ==
    ASSUME Serving!GatewayAssumption PROVE Serving!Spec => []Serving!TypeOK
<1>1. ServesInv /\ [Serving!Next]_(Serving!vars) => ServesInv'
  BY ServesNext DEF servingVars, Serving!vars
<1>2. Serving!Init => ServesInv
  BY ServesBegins
<1>3. ServesInv => Serving!TypeOK
  BY DEF ServesInv
<1> QED
  BY <1>1, <1>2, <1>3, PTL DEF Serving!Spec

LEMMA ServingBehaves == Spec => Serving!Spec
<1>1. Init => Serving!Init
  BY DEF Init
<1>2. [Next]_vars => [Serving!Next]_(Serving!vars)
  BY StepOfPart DEF servingVars, Serving!vars
<1> QED
  BY <1>1, <1>2, PTL DEF Spec, Serving!Spec

\* What the gateway runs by: each version of the document has two times of
\* modification at most, so that they are bounded as the versions are.
Times == 0..(2 * MaxChanges)
Tasks == [stage : {"idle", "load", "assign", "apply", "check", "done"},
          got : Reload!Version, alone : BOOLEAN]
DocumentTimed ==
    /\ document \in [version : Reload!Version, whole : BOOLEAN]
    /\ stamp \in Nat /\ stamp <= 2 * document.version + (IF document.whole THEN 0 ELSE 1)
    /\ ~document.whole => document.version < MaxChanges
ReloadsInv == Reload!TypeOK /\ DocumentTimed

LEMMA TimesAre ==
    ASSUME DocumentTimed, Reload!ReloadAssumption
    PROVE  /\ stamp \in Times /\ MaxChanges \in Nat
           /\ document.version \in Nat /\ document.version <= MaxChanges
           /\ document.whole \in BOOLEAN
           /\ document = [version |-> document.version, whole |-> document.whole]
<1>1. /\ stamp \in Nat /\ MaxChanges \in Nat
      /\ document.version \in Nat /\ document.version <= MaxChanges
      /\ document.whole \in BOOLEAN
      /\ document = [version |-> document.version, whole |-> document.whole]
  BY DEF DocumentTimed, Reload!ReloadAssumption, Reload!Version
<1> QED
  BY <1>1 DEF DocumentTimed, Times

\* The document, its time, the reloads and what the watcher saw keep their types.
LEMMA ReloadsTyped ==
    ASSUME ReloadsInv, Reload!ReloadAssumption, DocumentTimed',
           gateway' \in {gateway, "watching"},
           config' \in Reload!Version, agent' \in Reload!Version, checker' \in Reload!Version,
           reload' \in [Reload!Threads -> Tasks], requested' \in BOOLEAN,
           seen' \in [last : Times, current : Times],
           signals' \in 0..MaxSignals, trusted' \in BOOLEAN
    PROVE  ReloadsInv'
<1>1. stamp' \in Nat /\ stamp' <= 2 * document'.version + (IF document'.whole THEN 0 ELSE 1)
      /\ document' \in [version : Reload!Version, whole : BOOLEAN]
      /\ (~document'.whole => document'.version < MaxChanges)
  BY DEF DocumentTimed
<1>2. document'.version \in Nat /\ document'.version <= MaxChanges /\ MaxChanges \in Nat
  BY <1>1 DEF Reload!Version, Reload!ReloadAssumption
<1>3. stamp' \in 0..(2 * MaxChanges)
  BY <1>1, <1>2
<1> QED
  BY <1>1, <1>3 DEF ReloadsInv, Reload!TypeOK, Tasks, Times

LEMMA KeptTypes ==
    ASSUME ReloadsInv
    PROVE  /\ gateway \in {"loaded", "watching"}
           /\ config \in Reload!Version /\ agent \in Reload!Version /\ checker \in Reload!Version
           /\ reload \in [Reload!Threads -> Tasks] /\ requested \in BOOLEAN
           /\ seen \in [last : Times, current : Times]
           /\ signals \in 0..MaxSignals /\ trusted \in BOOLEAN /\ DocumentTimed
  BY DEF ReloadsInv, Reload!TypeOK, Tasks, Times

\* The document is replaced, truncated or written to its end.
LEMMA TimedAgain ==
    ASSUME NEW v \in Nat, v <= MaxChanges, NEW w \in BOOLEAN, ~w => v < MaxChanges,
           document' = [version |-> v, whole |-> w],
           stamp' \in Nat, w => stamp' <= 2 * v, ~w => stamp' <= 2 * v + 1, MaxChanges \in Nat
    PROVE  DocumentTimed'
<1>1. document'.version = v /\ document'.whole = w
  OBVIOUS
<1>2. document' \in [version : Reload!Version, whole : BOOLEAN]
  BY DEF Reload!Version
<1> QED
  BY <1>1, <1>2 DEF DocumentTimed

LEMMA ReplacedTimed ==
    ASSUME DocumentTimed, Reload!ReloadAssumption, Reload!Replaced
    PROVE  DocumentTimed'
<1> DEFINE v == document.version + 1
<1>1. /\ document.whole /\ document.version < MaxChanges
      /\ document' = [document EXCEPT !.version = v]
      /\ stamp' = stamp + 1
  BY DEF Reload!Replaced
<1>2. document' = [version |-> v, whole |-> TRUE]
  BY <1>1, TimesAre
<1>3. stamp \in Nat /\ stamp <= 2 * document.version
  BY <1>1, TimesAre DEF DocumentTimed
<1>4. v \in Nat /\ v <= MaxChanges /\ stamp' \in Nat /\ stamp' <= 2 * v
  BY <1>1, <1>3, TimesAre
<1> HIDE DEF v
<1> QED
  BY <1>2, <1>4, TimesAre, TimedAgain

LEMMA DocumentChanges ==
    ASSUME ReloadsInv, Reload!ReloadAssumption,
           Reload!Replace \/ Reload!Truncate \/ Reload!WriteText
    PROVE  ReloadsInv'
<1>1. UNCHANGED <<gateway, config, agent, checker, reload, requested, seen, signals, trusted>>
  BY DEF Reload!Replace, Reload!Truncate, Reload!WriteText, Reload!inForceVars
<1>2. ASSUME Reload!Replace PROVE DocumentTimed'
  <2>1. Reload!Replaced /\ DocumentTimed
    BY <1>2, KeptTypes DEF Reload!Replace
  <2> QED
    BY <2>1, ReplacedTimed
<1>3. ASSUME Reload!Truncate PROVE DocumentTimed'
  <2>1. /\ document.whole /\ document.version < MaxChanges /\ stamp' = stamp + 1
        /\ document' = [document EXCEPT !.whole = FALSE] /\ DocumentTimed
    BY <1>3, KeptTypes DEF Reload!Truncate
  <2>2. document' = [version |-> document.version, whole |-> FALSE]
    BY <2>1, TimesAre
  <2>3. stamp \in Nat /\ stamp <= 2 * document.version
    BY <2>1, TimesAre DEF DocumentTimed
  <2>4. stamp' \in Nat /\ stamp' <= 2 * document.version + 1
    BY <2>1, <2>3, TimesAre
  <2> QED
    BY <2>1, <2>2, <2>4, TimesAre, TimedAgain
<1>4. ASSUME Reload!WriteText PROVE DocumentTimed'
  <2> DEFINE v == document.version + 1
  <2>1. /\ ~document.whole /\ stamp' = stamp + 1 /\ DocumentTimed
        /\ document' = [version |-> v, whole |-> TRUE]
    BY <1>4, KeptTypes DEF Reload!WriteText
  <2>2. stamp \in Nat /\ stamp <= 2 * document.version + 1 /\ document.version < MaxChanges
    BY <2>1, TimesAre DEF DocumentTimed
  <2>3. v \in Nat /\ v <= MaxChanges /\ stamp' \in Nat /\ stamp' <= 2 * v
    BY <2>1, <2>2, TimesAre
  <2> HIDE DEF v
  <2> QED
    BY <2>1, <2>3, TimesAre, TimedAgain
<1>5. DocumentTimed'
  BY <1>2, <1>3, <1>4
<1> QED
  BY <1>1, <1>5, KeptTypes, ReloadsTyped

\* A reload of thread r begins, goes on or returns.
LEMMA TasksTyped ==
    ASSUME ReloadsInv, Reload!ReloadAssumption, NEW r \in Reload!Threads
    PROVE  /\ Reload!Begins(r) => reload' \in [Reload!Threads -> Tasks]
           /\ Reload!Returns(r) => /\ reload' \in [Reload!Threads -> Tasks]
                                   /\ seen' \in [last : Times, current : Times]
<1>1. reload \in [Reload!Threads -> Tasks] /\ seen \in [last : Times, current : Times]
      /\ 0 \in Reload!Version
  BY KeptTypes DEF Reload!Version, Reload!ReloadAssumption
<1>2. ASSUME Reload!Begins(r) PROVE reload' \in [Reload!Threads -> Tasks]
  <2> DEFINE mark(q) == [reload[q] EXCEPT !.alone = FALSE]
             new == [stage |-> "load", got |-> 0, alone |-> Reload!Reloading = {}]
  <2>1. \A q \in Reload!Threads : mark(q) \in Tasks
    BY <1>1 DEF Tasks
  <2>2. new \in Tasks
    <3>1. PICK b \in BOOLEAN : b = (Reload!Reloading = {})
      OBVIOUS
    <3>2. new = [stage |-> "load", got |-> 0, alone |-> b]
      BY <3>1
    <3> HIDE DEF new
    <3> QED
      BY <1>1, <3>2 DEF Tasks
  <2>3. reload' = [q \in Reload!Threads |-> IF q = r THEN new ELSE mark(q)]
    BY <1>2 DEF Reload!Begins
  <2> HIDE DEF mark, new
  <2> QED
    BY <2>1, <2>2, <2>3
<1>3. ASSUME Reload!Returns(r)
      PROVE  reload' \in [Reload!Threads -> Tasks] /\ seen' \in [last : Times, current : Times]
  <2> DEFINE t == [Reload!NoReload EXCEPT !.stage = IF r \in Handler THEN "done" ELSE "idle"]
  <2>1. Reload!NoReload \in Tasks
    BY <1>1 DEF Tasks, Reload!NoReload
  <2>2. t \in Tasks
    BY <2>1 DEF Tasks
  <2>3. reload' = [reload EXCEPT ![r] = t]
    BY <1>3 DEF Reload!Returns
  <2>4. seen' \in [last : Times, current : Times]
    BY <1>1, <1>3 DEF Reload!Returns
  <2> HIDE DEF t
  <2> QED
    BY <1>1, <2>2, <2>3, <2>4
<1> QED
  BY <1>2, <1>3

LEMMA ReloadStepTypes ==
    ASSUME ReloadsInv, Reload!ReloadAssumption, NEW r \in Reload!Threads, Reload!ReloadStep(r)
    PROVE  ReloadsInv'
<1>1. /\ reload \in [Reload!Threads -> Tasks] /\ reload[r] \in Tasks
      /\ reload[r].got \in Reload!Version /\ reload[r].alone \in BOOLEAN
      /\ 0 \in Reload!Version /\ document.version \in Reload!Version
  BY KeptTypes DEF Tasks, Reload!Version, Reload!ReloadAssumption, DocumentTimed
<1>2. UNCHANGED <<gateway, document, stamp, requested, signals>>
  BY DEF Reload!ReloadStep, Reload!LoadFromFile, Reload!Assign, Reload!SetConfig,
         Reload!SetPermissionChecker, Reload!documentVars
<1>3. DocumentTimed'
  BY <1>2, KeptTypes DEF DocumentTimed
<1>4. CASE Reload!LoadFromFile(r)
  <2>1. UNCHANGED <<config, agent, checker, trusted>>
    BY <1>4 DEF Reload!LoadFromFile, Reload!inForceVars
  <2>2. reload' \in [Reload!Threads -> Tasks] /\ seen' \in [last : Times, current : Times]
    <3>1. CASE document.whole
      <4> DEFINE t == [reload[r] EXCEPT !.stage = "assign", !.got = document.version]
      <4>1. t \in Tasks
        BY <1>1 DEF Tasks
      <4>2. reload' = [reload EXCEPT ![r] = t] /\ seen' = seen
        BY <1>1, <1>4, <3>1 DEF Reload!LoadFromFile
      <4> HIDE DEF t
      <4> QED
        BY <1>1, <4>1, <4>2, KeptTypes
    <3>2. CASE ~document.whole
      BY <1>4, <3>2, TasksTyped DEF Reload!LoadFromFile
    <3> QED
      BY <3>1, <3>2
  <2> QED
    BY <1>2, <1>3, <2>1, <2>2, KeptTypes, ReloadsTyped
<1>5. CASE Reload!Assign(r)
  <2> DEFINE t == [reload[r] EXCEPT !.stage = "apply", !.got = 0]
  <2>1. t \in Tasks
    BY <1>1 DEF Tasks
  <2>2. /\ reload' = [reload EXCEPT ![r] = t] /\ config' = reload[r].got
        /\ UNCHANGED <<agent, checker, seen, trusted>>
    BY <1>1, <1>5 DEF Reload!Assign
  <2> HIDE DEF t
  <2>3. reload' \in [Reload!Threads -> Tasks]
    BY <1>1, <2>1, <2>2
  <2> QED
    BY <1>1, <1>2, <1>3, <2>2, <2>3, KeptTypes, ReloadsTyped
<1>6. CASE Reload!SetConfig(r)
  <2> DEFINE t == [reload[r] EXCEPT !.stage = "check"]
  <2>1. t \in Tasks
    BY <1>1 DEF Tasks
  <2>2. /\ reload' = [reload EXCEPT ![r] = t] /\ agent' = config
        /\ UNCHANGED <<config, checker, seen, trusted>>
    BY <1>1, <1>6 DEF Reload!SetConfig
  <2> HIDE DEF t
  <2>3. reload' \in [Reload!Threads -> Tasks]
    BY <1>1, <2>1, <2>2
  <2> QED
    BY <1>2, <1>3, <2>2, <2>3, KeptTypes, ReloadsTyped
<1>7. CASE Reload!SetPermissionChecker(r)
  <2>1. /\ Reload!Returns(r) /\ checker' = config /\ trusted' = reload[r].alone
        /\ UNCHANGED <<config, agent>>
    BY <1>7 DEF Reload!SetPermissionChecker
  <2> QED
    BY <1>1, <1>2, <1>3, <2>1, KeptTypes, TasksTyped, ReloadsTyped
<1> QED
  BY <1>4, <1>5, <1>6, <1>7 DEF Reload!ReloadStep

\* A reload begins: of a handler, which may have replaced the document, on a
\* signal, or of the watcher.
LEMMA ReloadBeginsTypes ==
    ASSUME ReloadsInv, Reload!ReloadAssumption,
           \/ \E h \in Handler : Reload!HandlerReloads(h) \/ Reload!HandlerWrites(h)
           \/ Reload!ReloadOnSignal \/ Reload!ReloadOnChange
    PROVE  ReloadsInv'
<1>1. PICK r \in Reload!Threads :
        /\ Reload!Begins(r) /\ UNCHANGED <<gateway, config, agent, checker, signals, trusted>>
        /\ requested' \in {requested, FALSE}
        /\ seen' \in {seen, [seen EXCEPT !.current = stamp]}
        /\ UNCHANGED <<document, stamp>> \/ Reload!Replaced
  BY DEF Reload!HandlerReloads, Reload!HandlerWrites, Reload!ReloadOnSignal,
         Reload!ReloadOnChange, Reload!Threads, Reload!documentVars, Reload!inForceVars
<1>2. reload' \in [Reload!Threads -> Tasks]
  BY <1>1, TasksTyped
<1>3. DocumentTimed'
  <2>1. CASE UNCHANGED <<document, stamp>>
    BY <2>1, KeptTypes DEF DocumentTimed
  <2> QED
    BY <1>1, <2>1, KeptTypes, ReplacedTimed
<1>4. stamp \in Times /\ seen \in [last : Times, current : Times]
  BY KeptTypes, TimesAre
<1>5. seen' \in [last : Times, current : Times]
  BY <1>1, <1>4
<1>6. requested' \in BOOLEAN
  BY <1>1, KeptTypes
<1> QED
  BY <1>1, <1>2, <1>3, <1>5, <1>6, KeptTypes, ReloadsTyped

LEMMA ReloadsNext ==
    ASSUME ReloadsInv, Reload!ReloadAssumption, Reload!Next \/ UNCHANGED reloadVars
    PROVE  ReloadsInv'
<1>1. ASSUME UNCHANGED <<document, stamp>> PROVE DocumentTimed'
  BY <1>1, KeptTypes DEF DocumentTimed
<1>2. CASE Reload!Signal
  <2>1. /\ UNCHANGED <<gateway, document, stamp, config, agent, checker, reload, seen, trusted>>
        /\ requested' = TRUE /\ signals < MaxSignals /\ signals' = signals + 1
    BY <1>2 DEF Reload!Signal, Reload!documentVars, Reload!inForceVars
  <2>2. signals' \in 0..MaxSignals
    BY <2>1, KeptTypes DEF Reload!ReloadAssumption
  <2> QED
    BY <1>1, <2>1, <2>2, KeptTypes, ReloadsTyped
<1>3. CASE Reload!StartWatching
  <2> DEFINE mark(q) == [reload[q] EXCEPT !.alone = FALSE]
  <2>1. /\ UNCHANGED <<document, stamp, config, agent, checker, requested, signals>>
        /\ gateway' = "watching" /\ seen' = [last |-> stamp, current |-> stamp]
        /\ trusted' = (trusted /\ {agent, checker} = {document.version})
        /\ reload' = [q \in Reload!Threads |-> mark(q)]
    BY <1>3 DEF Reload!StartWatching, Reload!documentVars, Reload!inForceVars
  <2>2. \A q \in Reload!Threads : mark(q) \in Tasks
    BY KeptTypes DEF Tasks
  <2> HIDE DEF mark
  <2>3. reload' \in [Reload!Threads -> Tasks]
    BY <2>1, <2>2
  <2>4. trusted' \in BOOLEAN
    BY <2>1
  <2>5. seen' \in [last : Times, current : Times]
    BY <2>1, KeptTypes, TimesAre
  <2> QED
    BY <1>1, <2>1, <2>3, <2>4, <2>5, KeptTypes, ReloadsTyped
<1>4. CASE UNCHANGED reloadVars
  <2>1. UNCHANGED <<gateway, document, stamp, config, agent, checker, reload, requested, seen,
                    signals, trusted>>
    BY <1>4 DEF reloadVars
  <2> QED
    BY <1>1, <2>1, KeptTypes, ReloadsTyped
<1> QED
  BY <1>2, <1>3, <1>4, DocumentChanges, ReloadStepTypes, ReloadBeginsTypes DEF Reload!Next

LEMMA ReloadsBegin == ASSUME Reload!ReloadAssumption, Reload!Init PROVE ReloadsInv
<1>1. /\ gateway = "loaded" /\ stamp = 0 /\ config = 0 /\ agent = 0 /\ checker = 0
      /\ requested = FALSE /\ signals = 0 /\ trusted = TRUE
      /\ document = [version |-> 0, whole |-> TRUE] /\ seen = [last |-> 0, current |-> 0]
      /\ reload = [r \in Reload!Threads |-> Reload!NoReload]
  BY DEF Reload!Init
<1>2. MaxChanges \in Nat /\ MaxSignals \in Nat
  BY DEF Reload!ReloadAssumption
<1>3. 0 \in Reload!Version /\ 0 \in Times /\ 0 \in 0..MaxSignals
  BY <1>2 DEF Reload!Version, Times
<1>4. Reload!NoReload \in Tasks
  BY <1>3 DEF Tasks, Reload!NoReload
<1>5. DocumentTimed
  BY <1>1, <1>3 DEF DocumentTimed
<1>6. reload \in [Reload!Threads -> Tasks]
  BY <1>1, <1>4
<1>7. stamp \in 0..(2 * MaxChanges)
  BY <1>1, <1>3 DEF Times
<1>8. document \in [version : Reload!Version, whole : BOOLEAN]
  BY <1>5 DEF DocumentTimed
<1>9. seen \in [last : 0..(2 * MaxChanges), current : 0..(2 * MaxChanges)]
  BY <1>1, <1>3 DEF Times
<1> QED
  BY <1>1, <1>3, <1>5, <1>6, <1>7, <1>8, <1>9 DEF ReloadsInv, Reload!TypeOK, Tasks

LEMMA ReloadTyped ==
    ASSUME Reload!ReloadAssumption PROVE Reload!Spec => []Reload!TypeOK
<1>1. ReloadsInv /\ [Reload!Next]_(Reload!reloadVars) => ReloadsInv'
  BY ReloadsNext DEF reloadVars, Reload!reloadVars
<1>2. Reload!Init => ReloadsInv
  BY ReloadsBegin
<1>3. ReloadsInv => Reload!TypeOK
  BY DEF ReloadsInv
<1> QED
  BY <1>1, <1>2, <1>3, PTL DEF Reload!Spec

LEMMA ReloadBehaves == Spec => Reload!Spec
<1>1. Init => Reload!Init
  BY DEF Init
<1>2. [Next]_vars => [Reload!Next]_(Reload!reloadVars)
  BY StepOfPart DEF reloadVars, Reload!reloadVars
<1> QED
  BY <1>1, <1>2, PTL DEF Spec, Reload!Spec

\* Every variable of every part keeps its type: counters stay within their limits,
\* every child, thread, call and request is in a state the code knows, and whatever
\* a connection's thread works on came from that connection.
THEOREM TypesOfProcesses == Spec => []TypeOK
<1>1. /\ Side!SidecarAssumption /\ Serving!GatewayAssumption /\ Peer!ClientAssumption
      /\ Jobs!BackgroundAssumption /\ Exec!ExecAssumption /\ Adapt!AdaptersAssumption
      /\ Life!LifeAssumption /\ Reload!ReloadAssumption
      /\ Stream!StreamAssumption /\ Index!IndexAssumption
  BY ProcessesAssumption DEF ProcessesAssumption
<1>2. Spec => []Side!TypeOK
  BY <1>1, TypeCorrect, SideBehaves, PTL
<1>3. Spec => []Serving!TypeOK
  BY <1>1, ServingTyped, ServingBehaves, PTL
<1>4. Spec => []Peer!TypeOK
  BY <1>1, ClientAlwaysAgrees, PeerBehaves, PTL
<1>5. Spec => []Jobs!TypeOK
  <2>1. JobsInv => Jobs!TypeOK
    BY DEF JobsInv
  <2> QED
    BY <1>1, <2>1, JobsInvAlways, JobsBehave, PTL
<1>6. Spec => []Exec!TypeOK
  BY <1>1, ExecAlwaysAgrees, ExecBehaves, PTL
<1>7. Spec => []Adapt!TypeOK
  BY <1>1, NeverStrays, AdaptBehaves, PTL
<1>8. Spec => []Life!TypeOK
  BY <1>1, LifeAlwaysAgrees, LifeBehaves, PTL
<1>9. Spec => []Reload!TypeOK
  BY <1>1, ReloadTyped, ReloadBehaves, PTL
<1>10. Spec => []Stream!TypeOK
  BY <1>1, StreamAlwaysInOrder, StreamBehaves, PTL
<1>11. Spec => []Index!TypeOK
  BY <1>1, IndexAlwaysCurrent, IndexBehaves, PTL
<1> DEFINE Some == Side!TypeOK /\ Serving!TypeOK /\ Peer!TypeOK /\ Jobs!TypeOK /\ Exec!TypeOK
           Others == Adapt!TypeOK /\ Life!TypeOK /\ Reload!TypeOK /\ Stream!TypeOK /\ Index!TypeOK
<1>12. Spec => []Some
  BY <1>2, <1>3, <1>4, <1>5, <1>6, PTL
<1>13. Spec => []Others
  BY <1>7, <1>8, <1>9, <1>10, <1>11, PTL
<1>14. Some /\ Others => TypeOK
  BY DEF TypeOK
<1> QED
  BY <1>12, <1>13, <1>14, PTL
================================================================================
