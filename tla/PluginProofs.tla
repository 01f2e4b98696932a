----------------------------- MODULE PluginProofs ------------------------------
(***************************************************************************)
(* Proofs about PluginRuntime, for every list of plugins and every number  *)
(* of requests and reloads.                                                *)
(***************************************************************************)
EXTENDS PluginRuntime, TLAPS

(***************************************************************************)
(* The invariant.                                                          *)
(***************************************************************************)

\* The plugins whose service no two tasks changed
Calm == Plugin \ disturbed
LiveOf(p) == {s \in live : s.id = p}
ListedOf(p) == {s \in ToSet(running) : s.id = p}
Listed(p) == \E i \in DOMAIN running : running[i].id = p
Service(r) == request[r].service[1]
Starting(r) == request[r].stage = "starting"
Stopping(r) == request[r].stage = "stopping"

\* Who waits for a plugin's function waits for a plugin.
Placed ==
    /\ \A r \in Request : Starting(r) \/ Stopping(r) => request[r].service # <<>>
    /\ loader.stage \in {"activating", "awaiting"} => loader.at <= Len(Order)
    /\ loader.stage = "stopping" => load < MaxReloads

\* Whatever overlaps with a stop disturbs every plugin.
StopsAlone ==
    Calm # {} =>
      /\ ~(Loading /\ Closing)
      /\ \A r \in Request : Stopping(r) =>
           /\ ~Loading /\ ~Closing
           /\ request[r].at \in DOMAIN running /\ Service(r) = running[request[r].at]
           /\ \A q \in Request : Stopping(q) => q = r

\* A start of an undisturbed plugin is the only one, and of the registries in use.
StartsAlone ==
    \A p \in Calm, r \in Request : Starting(r) /\ Service(r).id = p =>
      /\ ~Loading /\ ~Closing
      /\ Service(r) = Of(p) /\ ~Listed(p)
      /\ \A q \in Request : Starting(q) /\ Service(q).id = p => q = r

\* The one service of p that may run
OneRuns(p) ==
    /\ LiveOf(p) = ListedOf(p) /\ LiveOf(p) \subseteq {Of(p)}
    /\ \A i, j \in DOMAIN running : running[i].id = p /\ running[j].id = p => i = j

\* What runs of p is what the loader, or else the list, knows of it.
WhereItRuns(p) ==
    /\ phase = "exited" => LiveOf(p) = {}
    /\ Alive =>
         /\ loader.stage = "stopping" => LiveOf(p) \subseteq ToSet(loader.todo)
         /\ loader.stage \in {"importing", "activating"} => LiveOf(p) = {} /\ ~Listed(p)
         /\ loader.stage \in {"starting", "awaiting"} =>
              /\ OneRuns(p)
              /\ \A j \in loader.at..Len(Order) : Order[j] = p => ~Listed(p)
         /\ loader.stage = "idle" =>
              /\ ~Closing => OneRuns(p)
              /\ LiveOf(p) \subseteq ToSet(running)
              /\ \A c \in Causes : closing[c].begun => LiveOf(p) \subseteq ToSet(closing[c].todo)

\* Tools and records come from the registries in use.
ToolsOfLoad ==
    /\ tools = {Of(p) : p \in services}
    /\ records \subseteq services /\ loader.loaded \subseteq services
    /\ loader.stage = "activating" => Order[loader.at] \in services

\* The inductive invariant.
PluginInv ==
    /\ TypeOK /\ Placed /\ StopsAlone /\ StartsAlone /\ ToolsOfLoad
    /\ \A p \in Calm : WhereItRuns(p)

-----------------------------------------------------------------------------
(* What the helpers mean                                                    *)

LEMMA OrderFacts ==
    ASSUME RuntimeAssumption
    PROVE  /\ Len(Order) \in Nat /\ DOMAIN Order = 1..Len(Order)
           /\ \A i \in 1..Len(Order) : Order[i] \in Plugin
           /\ \A i, j \in 1..Len(Order) : Order[i] = Order[j] => i = j
           /\ MaxReloads \in Nat
BY DEF RuntimeAssumption, Plugin, ToSet

LEMMA ServiceFacts ==
    ASSUME PluginInv, NEW r \in Request, Starting(r) \/ Stopping(r)
    PROVE  /\ Service(r) \in Instance /\ request[r].service = <<Service(r)>>
           /\ ToSet(request[r].service) = {Service(r)}
<1>1. request[r].service \in {<<s>> : s \in Instance}
  BY DEF PluginInv, TypeOK, Placed, Requests
<1>2. PICK s \in Instance : request[r].service = <<s>>
  BY <1>1
<1>3. Service(r) = s
  BY <1>2 DEF Service
<1>4. ToSet(<<s>>) = {s}
  BY DEF ToSet
<1> QED
  BY <1>2, <1>3, <1>4

LEMMA AskedFacts ==
    ASSUME PluginInv
    PROVE  /\ \A p : p \in AskedIds("starting") <=>
                        \E r \in Request : Starting(r) /\ Service(r).id = p
           /\ \A p : p \in AskedIds("stopping") <=>
                        \E r \in Request : Stopping(r) /\ Service(r).id = p
           /\ Asked("stopping") = {} <=> \A r \in Request : ~Stopping(r)
<1>1. Asked("starting") = {Service(r) : r \in {q \in Request : Starting(q)}}
  BY ServiceFacts DEF Asked, Starting
<1>2. Asked("stopping") = {Service(r) : r \in {q \in Request : Stopping(q)}}
  BY ServiceFacts DEF Asked, Stopping
<1> QED
  BY <1>1, <1>2 DEF AskedIds

LEMMA ListFacts ==
    ASSUME PluginInv
    PROVE  /\ \A p : p \in Ids(running) <=> Listed(p)
           /\ running \in Seq(Instance) /\ Len(running) \in Nat
           /\ DOMAIN running = 1..Len(running)
           /\ \A p : Listed(p) <=> ListedOf(p) # {}
           /\ \A i \in DOMAIN running : running[i] \in Instance /\ running[i] \in ToSet(running)
           /\ \A s \in ToSet(running) : \E i \in DOMAIN running : running[i] = s
<1>1. running \in Seq(Instance)
  BY DEF PluginInv, TypeOK
<1>2. Len(running) \in Nat /\ DOMAIN running = 1..Len(running)
  BY <1>1
<1>3. \A i \in DOMAIN running : running[i] \in Instance /\ running[i] \in ToSet(running)
  BY <1>1, <1>2 DEF ToSet
<1>4. \A s \in ToSet(running) : \E i \in DOMAIN running : running[i] = s
  BY DEF ToSet
<1>5. \A p : p \in Ids(running) <=> Listed(p)
  BY <1>2 DEF Ids, Listed
<1>6. \A p : Listed(p) <=> ListedOf(p) # {}
  BY <1>3, <1>4 DEF Listed, ListedOf
<1> QED
  BY <1>1, <1>2, <1>3, <1>4, <1>5, <1>6

LEMMA AppendToSet ==
    ASSUME NEW S, NEW seq \in Seq(S), NEW e \in S
    PROVE  ToSet(Append(seq, e)) = ToSet(seq) \cup {e}
<1>1. /\ DOMAIN Append(seq, e) = 1..(Len(seq) + 1) /\ DOMAIN seq = 1..Len(seq) /\ Len(seq) \in Nat
      /\ \A i \in 1..Len(seq) : Append(seq, e)[i] = seq[i]
      /\ Append(seq, e)[Len(seq) + 1] = e
  OBVIOUS
<1> QED
  BY <1>1 DEF ToSet

LEMMA ReverseToSet ==
    ASSUME NEW S, NEW seq \in Seq(S)
    PROVE  Reverse(seq) \in Seq(S) /\ ToSet(Reverse(seq)) = ToSet(seq)
<1>1. Len(seq) \in Nat /\ DOMAIN seq = 1..Len(seq) /\ \A i \in 1..Len(seq) : seq[i] \in S
  OBVIOUS
<1>2. Reverse(seq) = [i \in 1..Len(seq) |-> seq[Len(seq) - i + 1]]
  BY DEF Reverse
<1>3. \A i \in 1..Len(seq) : Len(seq) - i + 1 \in 1..Len(seq)
  BY <1>1
<1>4. Reverse(seq) \in [1..Len(seq) -> S]
  BY <1>1, <1>2, <1>3
<1>5. Reverse(seq) \in Seq(S)
  BY <1>1, <1>4
<1>6. DOMAIN Reverse(seq) = 1..Len(seq)
  BY <1>4
<1>7. ToSet(Reverse(seq)) \subseteq ToSet(seq)
  BY <1>1, <1>2, <1>3, <1>6 DEF ToSet
<1>8. ASSUME NEW i \in 1..Len(seq)
      PROVE  seq[i] \in ToSet(Reverse(seq))
  <2>1. Len(seq) - i + 1 \in 1..Len(seq) /\ Len(seq) - (Len(seq) - i + 1) + 1 = i
    BY <1>1
  <2>2. Reverse(seq)[Len(seq) - i + 1] = seq[i]
    BY <1>2, <2>1
  <2> QED
    BY <1>6, <2>1, <2>2 DEF ToSet
<1> QED
  BY <1>1, <1>5, <1>7, <1>8 DEF ToSet

LEMMA TailToSet ==
    ASSUME NEW S, NEW seq \in Seq(S), seq # <<>>
    PROVE  /\ Head(seq) \in S /\ Tail(seq) \in Seq(S)
           /\ ToSet(seq) \subseteq ToSet(Tail(seq)) \cup {Head(seq)}
<1>1. /\ Len(seq) \in Nat \ {0} /\ DOMAIN seq = 1..Len(seq)
      /\ DOMAIN Tail(seq) = 1..(Len(seq) - 1)
      /\ \A i \in 1..(Len(seq) - 1) : Tail(seq)[i] = seq[i + 1]
      /\ Head(seq) = seq[1] /\ Tail(seq) \in Seq(S) /\ Head(seq) \in S
  OBVIOUS
<1>2. ASSUME NEW i \in 1..Len(seq), i # 1
      PROVE  seq[i] \in ToSet(Tail(seq))
  <2>1. i - 1 \in 1..(Len(seq) - 1) /\ i - 1 + 1 = i
    BY <1>1, <1>2
  <2> QED
    BY <1>1, <2>1 DEF ToSet
<1> QED
  BY <1>1, <1>2 DEF ToSet

\* What is left of a list without its member at a place
LEMMA RemovedFacts ==
    ASSUME NEW S, NEW seq \in Seq(S), NEW at \in DOMAIN seq
    PROVE  /\ RemoveAt(seq, at) \in Seq(S)
           /\ DOMAIN RemoveAt(seq, at) = 1..(Len(seq) - 1)
           /\ \A i \in 1..(Len(seq) - 1) :
                RemoveAt(seq, at)[i] = IF i < at THEN seq[i] ELSE seq[i + 1]
<1>1. Len(seq) \in Nat /\ at \in 1..Len(seq)
  OBVIOUS
<1> DEFINE before == SubSeq(seq, 1, at - 1)
           after == SubSeq(seq, at + 1, Len(seq))
<1>2. /\ before \in Seq(S) /\ Len(before) = at - 1
      /\ \A i \in 1..(at - 1) : before[i] = seq[i]
  BY <1>1
<1>3. /\ after \in Seq(S) /\ Len(after) = Len(seq) - at
      /\ \A i \in 1..(Len(seq) - at) : after[i] = seq[at + i]
  BY <1>1
<1>4. RemoveAt(seq, at) = before \o after
  BY DEF RemoveAt
<1> HIDE DEF before, after
<1>5. before \o after \in Seq(S) /\ Len(before \o after) = Len(seq) - 1
  BY <1>1, <1>2, <1>3
<1>6. ASSUME NEW i \in 1..(Len(seq) - 1)
      PROVE  (before \o after)[i] = IF i < at THEN seq[i] ELSE seq[i + 1]
  <2>1. CASE i < at
    BY <1>1, <1>2, <1>3, <2>1
  <2>2. CASE i >= at
    <3>1. i - Len(before) \in 1..(Len(seq) - at) /\ at + (i - Len(before)) = i + 1
      BY <1>1, <1>2, <2>2
    <3>2. (before \o after)[i] = after[i - Len(before)]
      BY <1>1, <1>2, <1>3, <2>2, <3>1, SMTT(30)
    <3> QED
      BY <1>1, <1>3, <2>2, <3>1, <3>2, SMTT(30)
  <2>3. i < at \/ i >= at
    BY <1>1
  <2> QED
    BY <2>1, <2>2, <2>3
<1>7. DOMAIN (before \o after) = 1..(Len(seq) - 1)
  BY <1>5
<1> QED
  BY <1>4, <1>5, <1>6, <1>7

LEMMA LoaderFacts ==
    ASSUME RuntimeAssumption
    PROVE  /\ IdleLoader = [stage |-> "idle", at |-> 1, todo |-> <<>>, loaded |-> {}]
           /\ IdleLoader \in Loaders
           /\ \A l \in Loaders :
                /\ \A s \in {"idle", "stopping", "importing", "activating", "starting", "awaiting"} :
                     [l EXCEPT !.stage = s] \in Loaders
                /\ \A i \in 1..(Len(Order) + 1) : [l EXCEPT !.at = i] \in Loaders
                /\ \A t \in Seq(Instance) : [l EXCEPT !.todo = t] \in Loaders
                /\ \A P \in SUBSET Plugin : [l EXCEPT !.loaded = P] \in Loaders
<1>1. 1 \in 1..(Len(Order) + 1)
  BY OrderFacts
<1> QED
  BY <1>1 DEF IdleLoader, Loaders

LEMMA LoaderTyped ==
    ASSUME RuntimeAssumption, PluginInv
    PROVE  /\ loader \in Loaders /\ loader.at \in 1..(Len(Order) + 1)
           /\ loader.at <= Len(Order) => loader.at \in 1..Len(Order) /\ Order[loader.at] \in Plugin
           /\ loader.stage \in {"activating", "awaiting"} => loader.at \in 1..Len(Order)
           /\ loader.todo \in Seq(Instance) /\ loader.loaded \in SUBSET Plugin
<1>1. loader \in Loaders
  BY DEF PluginInv, TypeOK
<1>2. /\ loader.at \in 1..(Len(Order) + 1)
      /\ loader.todo \in Seq(Instance) /\ loader.loaded \in SUBSET Plugin
  BY <1>1 DEF Loaders
<1>3. loader.at <= Len(Order) => loader.at \in 1..Len(Order)
  BY <1>2, OrderFacts
<1>4. loader.stage \in {"activating", "awaiting"} => loader.at <= Len(Order)
  BY DEF PluginInv, Placed
<1> QED
  BY <1>1, <1>2, <1>3, <1>4, OrderFacts

\* A step that goes on with the plugin at hand, or to the next one
LEMMA LoaderGoesOn ==
    ASSUME RuntimeAssumption, loader \in Loaders, loader.at \in 1..Len(Order),
           NEW s \in {"importing", "activating", "starting", "awaiting"},
           NEW P \in SUBSET Plugin,
           \/ loader' = [loader EXCEPT !.stage = s]
           \/ loader' = [loader EXCEPT !.stage = s, !.at = @ + 1]
           \/ loader' = [loader EXCEPT !.stage = s, !.at = @ + 1, !.loaded = P]
    PROVE  /\ loader' \in Loaders /\ loader'.stage = s
           /\ loader'.at \in {loader.at, loader.at + 1}
           /\ loader'.loaded \in {loader.loaded, P}
           /\ loader' = [loader EXCEPT !.stage = s] => loader'.at = loader.at
<1>1. loader.at + 1 \in 1..(Len(Order) + 1) /\ loader.at \in 1..(Len(Order) + 1)
  BY OrderFacts
<1> QED
  BY <1>1 DEF Loaders

-----------------------------------------------------------------------------
(* Loading, and starting what was loaded                                    *)

LEMMA LoaderKeeps ==
    ASSUME PluginInv, UNCHANGED <<request, running, closing, load>>,
           disturbed \subseteq disturbed', Loading' => Loading
    PROVE  StopsAlone' /\ StartsAlone' /\ Calm' \subseteq Calm
BY DEF PluginInv, StopsAlone, StartsAlone, Calm, Starting, Stopping, Service, Closing, Of, Listed

LEMMA InitPlugins == ASSUME RuntimeAssumption, Init PROVE PluginInv
<1>1. loader \in Loaders /\ NoRequest \in Requests /\ NotClosing \in Closings
  <2>1. loader = [IdleLoader EXCEPT !.stage = "importing"]
    BY DEF Init
  <2>2. loader \in Loaders
    BY <2>1, LoaderFacts
  <2> QED
    BY <2>2 DEF Requests, Closings, NoRequest, NotClosing
<1>0. TypeOK
  BY <1>1, OrderFacts DEF Init, TypeOK
<1>2. Placed /\ StopsAlone /\ StartsAlone
  BY DEF Init, Placed, StopsAlone, StartsAlone, IdleLoader, NoRequest, NotClosing, Starting,
         Stopping, Closing
<1>3. ToolsOfLoad
  BY DEF Init, ToolsOfLoad, IdleLoader
<1>4. \A p \in Calm : WhereItRuns(p)
  BY DEF Init, WhereItRuns, IdleLoader, LiveOf, Listed, Alive
<1> QED
  BY <1>0, <1>2, <1>3, <1>4 DEF PluginInv

LEMMA ImportKeeps == ASSUME RuntimeAssumption, PluginInv, Import PROVE PluginInv'
<1> DEFINE p == Order[loader.at]
<1>1. loader.at \in 1..Len(Order) /\ p \in Plugin
  BY LoaderTyped DEF Import
<1>2. /\ loader.stage = "importing" /\ loader'.stage \in {"importing", "activating"}
      /\ loader' \in Loaders
      /\ loader'.loaded = loader.loaded
      /\ loader'.stage = "activating" => loader'.at = loader.at
  <2>1. loader \in Loaders /\ loader.stage = "importing"
    BY LoaderTyped DEF Import
  <2>2. CASE loader' = [loader EXCEPT !.stage = "activating"]
    BY <1>1, <2>1, <2>2, LoaderTyped, LoaderGoesOn
  <2>3. CASE loader' = [loader EXCEPT !.stage = "importing", !.at = @ + 1]
    BY <1>1, <2>1, <2>3, LoaderTyped, LoaderGoesOn
  <2> QED
    BY <2>1, <2>2, <2>3 DEF Import, Goes, Skips
<1>3. /\ UNCHANGED <<phase, load, records, running, live, request, closing, disturbed>>
      /\ \/ /\ tools' = tools \cup {Of(p)} /\ services' = services \cup {p}
         \/ UNCHANGED <<tools, services>> /\ loader'.stage = "importing"
  BY LoaderTyped DEF Import, Goes, Skips, Loaders
<1>4. Of(p) \in Instance
  BY <1>1, OrderFacts DEF PluginInv, TypeOK, Of, Instance
<1>5. TypeOK'
  BY <1>1, <1>2, <1>3, <1>4 DEF PluginInv, TypeOK
<1>6. Placed'
  BY <1>1, <1>2, <1>3 DEF PluginInv, Placed, Starting, Stopping
<1>7. StopsAlone' /\ StartsAlone'
  BY <1>2, <1>3, LoaderKeeps DEF Loading
<1>8. ToolsOfLoad'
  <2>1. CASE UNCHANGED <<tools, services>> /\ loader'.stage = "importing"
    BY <1>2, <1>3, <2>1 DEF PluginInv, ToolsOfLoad, Of
  <2>2. CASE tools' = tools \cup {Of(p)} /\ services' = services \cup {p}
    BY <1>2, <1>3, <2>2 DEF PluginInv, ToolsOfLoad, Of
  <2> QED
    BY <1>3, <2>1, <2>2
<1>9. \A q \in Calm' : WhereItRuns(q)'
  BY <1>2, <1>3 DEF PluginInv, WhereItRuns, Calm, LiveOf, Listed, Alive
<1> QED
  BY <1>5, <1>6, <1>7, <1>8, <1>9 DEF PluginInv

LEMMA ActivateKeeps == ASSUME RuntimeAssumption, PluginInv, Activate PROVE PluginInv'
<1> DEFINE p == Order[loader.at]
<1>1. loader.at \in 1..Len(Order) /\ p \in Plugin /\ p \in services
  <2>1. loader.at \in 1..Len(Order) /\ p \in Plugin
    BY LoaderTyped DEF Activate
  <2> QED
    BY <2>1 DEF PluginInv, Activate, ToolsOfLoad
<1>2. /\ loader.stage = "activating" /\ loader'.stage = "importing"
      /\ loader' \in Loaders
      /\ loader'.loaded \subseteq loader.loaded \cup {p}
  <2>1. loader \in Loaders /\ loader.stage = "activating" /\ loader.loaded \subseteq Plugin
    BY LoaderTyped DEF Activate
  <2>2. PICK P \in {loader.loaded, loader.loaded \cup {p}} :
          loader' = [loader EXCEPT !.stage = "importing", !.at = @ + 1, !.loaded = P]
    BY DEF Activate, Outcomes
  <2>3. P \in SUBSET Plugin
    BY <1>1, <2>1, <2>2
  <2> QED
    BY <1>1, <2>1, <2>2, <2>3, LoaderGoesOn
<1>3. UNCHANGED <<phase, load, tools, services, records, running, live, request, closing,
                  disturbed>>
  BY DEF Activate
<1>4. TypeOK'
  BY <1>2, <1>3 DEF PluginInv, TypeOK
<1>5. Placed'
  BY <1>2, <1>3 DEF PluginInv, Placed, Starting, Stopping
<1>6. StopsAlone' /\ StartsAlone'
  BY <1>2, <1>3, LoaderKeeps DEF Loading
<1>7. ToolsOfLoad'
  BY <1>1, <1>2, <1>3 DEF PluginInv, ToolsOfLoad, Of
<1>8. \A q \in Calm' : WhereItRuns(q)'
  BY <1>2, <1>3 DEF PluginInv, WhereItRuns, Calm, LiveOf, Listed, Alive
<1> QED
  BY <1>4, <1>5, <1>6, <1>7, <1>8 DEF PluginInv

LEMMA NoneRuns ==
    ASSUME PluginInv, NEW p, LiveOf(p) = {}, ~Listed(p)
    PROVE  OneRuns(p)
BY ListFacts DEF OneRuns, Listed

LEMMA LoadedKeeps == ASSUME RuntimeAssumption, PluginInv, Loaded PROVE PluginInv'
<1>1. /\ loader.stage = "importing" /\ records' = loader.loaded
      /\ loader' = [IdleLoader EXCEPT !.stage = "starting"]
      /\ UNCHANGED <<phase, load, tools, services, running, live, request, closing, disturbed>>
  BY DEF Loaded
<1>2. /\ loader' = [stage |-> "starting", at |-> 1, todo |-> <<>>, loaded |-> {}]
      /\ loader' \in Loaders /\ loader.loaded \in SUBSET Plugin
  <2>1. loader' = [IdleLoader EXCEPT !.stage = "starting"]
    BY <1>1
  <2>2. loader' \in Loaders
    BY <2>1, LoaderFacts
  <2>3. loader' = [stage |-> "starting", at |-> 1, todo |-> <<>>, loaded |-> {}]
    BY <2>1 DEF IdleLoader
  <2> QED
    BY <2>2, <2>3, LoaderTyped
<1>3. TypeOK'
  BY <1>1, <1>2 DEF PluginInv, TypeOK
<1>4. Placed'
  BY <1>1, <1>2 DEF PluginInv, Placed, Starting, Stopping
<1>5. StopsAlone' /\ StartsAlone'
  BY <1>1, <1>2, LoaderKeeps DEF Loading
<1>6. ToolsOfLoad'
  BY <1>1, <1>2 DEF PluginInv, ToolsOfLoad, Of
<1>7. ASSUME NEW p \in Calm'
      PROVE  WhereItRuns(p)'
  <2>1. p \in Calm /\ WhereItRuns(p)
    BY <1>1, <1>7 DEF PluginInv, Calm
  <2>2. Alive => LiveOf(p) = {} /\ ~Listed(p) /\ OneRuns(p)
    BY <1>1, <2>1, NoneRuns DEF WhereItRuns
  <2>3. (Alive' <=> Alive) /\ LiveOf(p)' = LiveOf(p) /\ (Listed(p)' <=> Listed(p))
        /\ (OneRuns(p)' <=> OneRuns(p))
    BY <1>1 DEF Alive, LiveOf, Listed, OneRuns, ListedOf, Of
  <2> QED
    BY <1>1, <1>2, <2>1, <2>2, <2>3 DEF WhereItRuns
<1> QED
  BY <1>3, <1>4, <1>5, <1>6, <1>7 DEF PluginInv

LEMMA StartNextKeeps == ASSUME RuntimeAssumption, PluginInv, StartNext PROVE PluginInv'
<1>1. /\ loader.stage = "starting" /\ loader.at \in 1..Len(Order)
      /\ UNCHANGED <<phase, load, tools, services, records, running, live, request, closing,
                     disturbed>>
  BY LoaderTyped DEF StartNext
<1>2. /\ loader' \in Loaders
      /\ loader'.stage \in {"starting", "awaiting"} /\ loader'.loaded = loader.loaded
      /\ loader'.at >= loader.at
      /\ loader'.stage = "awaiting" => loader'.at = loader.at
  <2>1. loader \in Loaders /\ loader.stage = "starting"
    BY LoaderTyped DEF StartNext
  <2>0. loader.loaded \in SUBSET Plugin /\ loader.at + 1 >= loader.at /\ loader.at >= loader.at
    BY <1>1, LoaderTyped, OrderFacts
  <2>2. CASE loader' = [loader EXCEPT !.stage = "awaiting"]
    BY <1>1, <2>0, <2>1, <2>2, LoaderGoesOn
  <2>3. CASE loader' = [loader EXCEPT !.at = @ + 1]
    <3>1. loader' = [loader EXCEPT !.stage = "starting", !.at = @ + 1]
      BY <2>1, <2>3 DEF Loaders
    <3> QED
      BY <1>1, <2>0, <2>1, <3>1, LoaderGoesOn
  <2> QED
    BY <2>2, <2>3 DEF StartNext, Goes
<1>3. TypeOK'
  BY <1>1, <1>2 DEF PluginInv, TypeOK
<1>4. Placed'
  BY <1>1, <1>2 DEF PluginInv, Placed, Starting, Stopping
<1>5. StopsAlone' /\ StartsAlone'
  BY <1>1, <1>2, LoaderKeeps DEF Loading
<1>6. ToolsOfLoad'
  BY <1>1, <1>2 DEF PluginInv, ToolsOfLoad, Of
<1>7. ASSUME NEW p \in Calm'
      PROVE  WhereItRuns(p)'
  <2>1. p \in Calm /\ WhereItRuns(p)
    BY <1>1, <1>7 DEF PluginInv, Calm
  <2>2. (Alive' <=> Alive) /\ LiveOf(p)' = LiveOf(p) /\ (Listed(p)' <=> Listed(p))
        /\ (OneRuns(p)' <=> OneRuns(p))
    BY <1>1 DEF Alive, LiveOf, Listed, OneRuns, ListedOf, Of
  <2>3. \A j \in loader'.at..Len(Order) : j \in loader.at..Len(Order)
    BY <1>1, <1>2, OrderFacts DEF Loaders
  <2> QED
    BY <1>1, <1>2, <2>1, <2>2, <2>3 DEF WhereItRuns
<1> QED
  BY <1>3, <1>4, <1>5, <1>6, <1>7 DEF PluginInv

LEMMA AllStartedKeeps == ASSUME RuntimeAssumption, PluginInv, AllStarted PROVE PluginInv'
<1>1. /\ Alive /\ loader.stage = "starting" /\ loader' = IdleLoader
      /\ phase' \in {"booting", "up", "unconnected"}
      /\ UNCHANGED <<load, tools, services, records, running, live, request, closing, disturbed>>
  BY DEF AllStarted, Alive
<1>2. loader' = [stage |-> "idle", at |-> 1, todo |-> <<>>, loaded |-> {}] /\ loader' \in Loaders
  BY <1>1, LoaderFacts
<1>3. TypeOK'
  BY <1>1, <1>2, OrderFacts DEF PluginInv, TypeOK
<1>4. Placed'
  BY <1>1, <1>2 DEF PluginInv, Placed, Starting, Stopping
<1>5. StopsAlone' /\ StartsAlone'
  BY <1>1, <1>2, LoaderKeeps DEF Loading
<1>6. ToolsOfLoad'
  BY <1>1, <1>2 DEF PluginInv, ToolsOfLoad, Of
<1>7. ASSUME NEW p \in Calm'
      PROVE  WhereItRuns(p)'
  <2>1. p \in Calm /\ WhereItRuns(p) /\ OneRuns(p)
    BY <1>1, <1>7 DEF PluginInv, Calm, WhereItRuns
  <2>2. LiveOf(p)' = LiveOf(p) /\ (Listed(p)' <=> Listed(p)) /\ (OneRuns(p)' <=> OneRuns(p))
    BY <1>1 DEF LiveOf, Listed, OneRuns, ListedOf, Of
  <2>3. LiveOf(p) \subseteq ToSet(running)
    BY <2>1 DEF OneRuns, ListedOf
  <2>4. ~Closing'
    <3>1. ~(Loading /\ Closing)
      BY <2>1 DEF PluginInv, StopsAlone
    <3> QED
      BY <1>1, <3>1 DEF Loading, Closing
  <2>5. \A c \in Causes : ~closing'[c].begun
    BY <2>4 DEF Closing
  <2> QED
    BY <1>1, <1>2, <2>1, <2>2, <2>3, <2>5 DEF WhereItRuns
<1> QED
  BY <1>3, <1>4, <1>5, <1>6, <1>7 DEF PluginInv

\* What a service more in the list changes
LEMMA AppendedRuns ==
    ASSUME PluginInv, NEW s \in Instance, running' = Append(running, s)
    PROVE  /\ running' \in Seq(Instance) /\ ToSet(running)' = ToSet(running) \cup {s}
           /\ \A i \in DOMAIN running : i \in DOMAIN running' /\ running'[i] = running[i]
           /\ \A q : Listed(q)' <=> Listed(q) \/ q = s.id
           /\ \A q : ListedOf(q)' = ListedOf(q) \cup {t \in {s} : t.id = q}
           /\ \A q : (q = s.id => ~Listed(q)) =>
                \A i, j \in DOMAIN running' :
                   running'[i].id = q /\ running'[j].id = q =>
                     \/ i = j
                     \/ /\ i \in DOMAIN running /\ j \in DOMAIN running
                        /\ running[i].id = q /\ running[j].id = q
<1>1. /\ DOMAIN running = 1..Len(running) /\ Len(running) \in Nat /\ running \in Seq(Instance)
  BY ListFacts
<1>2. /\ running' \in Seq(Instance) /\ DOMAIN running' = 1..(Len(running) + 1)
      /\ \A i \in 1..Len(running) : running'[i] = running[i]
      /\ running'[Len(running) + 1] = s
  BY <1>1
<1>3. ToSet(running)' = ToSet(running) \cup {s}
  BY <1>1, AppendToSet
<1>4. DOMAIN running' = DOMAIN running \cup {Len(running) + 1}
  BY <1>1, <1>2
<1>5. \A i \in DOMAIN running : i \in DOMAIN running' /\ running'[i] = running[i]
  BY <1>1, <1>2, <1>4
<1>6. ASSUME NEW q
      PROVE  Listed(q)' <=> Listed(q) \/ q = s.id
  BY <1>2, <1>4, <1>5 DEF Listed
<1>7. ASSUME NEW q
      PROVE  ListedOf(q)' = ListedOf(q) \cup {t \in {s} : t.id = q}
  BY <1>3 DEF ListedOf
<1>8. ASSUME NEW q, q = s.id => ~Listed(q),
             NEW i \in DOMAIN running', NEW j \in DOMAIN running',
             running'[i].id = q, running'[j].id = q, i # j
      PROVE  i \in DOMAIN running /\ j \in DOMAIN running
             /\ running[i].id = q /\ running[j].id = q
  <2>1. CASE q = s.id
    <3>1. \A k \in DOMAIN running : running[k].id # q
      BY <1>8, <2>1 DEF Listed
    <3> QED
      BY <1>4, <1>5, <1>8, <3>1
  <2>2. CASE q # s.id
    BY <1>2, <1>4, <1>5, <1>8, <2>2
  <2> QED
    BY <2>1, <2>2
<1> QED
  BY <1>2, <1>3, <1>5, <1>6, <1>7, <1>8

\* One that was neither listed nor running now is both.
LEMMA AppendedOnce ==
    ASSUME PluginInv, NEW s \in Instance, running' = Append(running, s), live' = live \cup {s},
           NEW q, OneRuns(q), load' = load, q = s.id => s = Of(q) /\ ~Listed(q)
    PROVE  OneRuns(q)'
<1>1. LiveOf(q)' = LiveOf(q) \cup {t \in {s} : t.id = q}
  BY DEF LiveOf
<1>2. ListedOf(q)' = ListedOf(q) \cup {t \in {s} : t.id = q}
  BY AppendedRuns
<1>3. LiveOf(q)' \subseteq {Of(q)}'
  BY <1>1 DEF OneRuns, Of
<1>4. \A i, j \in DOMAIN running' : running'[i].id = q /\ running'[j].id = q => i = j
  <2>1. \A i, j \in DOMAIN running : running[i].id = q /\ running[j].id = q => i = j
    BY DEF OneRuns
  <2> QED
    BY <2>1, AppendedRuns
<1>5. LiveOf(q) = ListedOf(q)
  BY DEF OneRuns
<1> QED
  BY <1>1, <1>2, <1>3, <1>4, <1>5 DEF OneRuns

LEMMA StartedKeeps == ASSUME RuntimeAssumption, PluginInv, Started PROVE PluginInv'
<1> DEFINE p == Order[loader.at]
<1>1. /\ Alive /\ loader.stage = "awaiting" /\ loader.at \in 1..Len(Order) /\ p \in Plugin
      /\ UNCHANGED <<phase, load, tools, services, records, request, closing, disturbed>>
  BY LoaderTyped DEF Started
<1>2. /\ loader' \in Loaders /\ loader'.stage = "starting" /\ loader'.at = loader.at + 1
      /\ loader'.loaded = loader.loaded
  <2>1. loader \in Loaders /\ loader.loaded \in SUBSET Plugin
    BY LoaderTyped
  <2>2. loader' = [loader EXCEPT !.stage = "starting", !.at = @ + 1]
    BY DEF Started
  <2>3. loader' \in Loaders /\ loader'.stage = "starting" /\ loader'.loaded = loader.loaded
    BY <1>1, <2>1, <2>2, LoaderGoesOn
  <2>4. loader'.at = loader.at + 1
    BY <2>1, <2>2 DEF Loaders
  <2> QED
    BY <2>3, <2>4
<1>3. Of(p) \in Instance
  BY <1>1 DEF PluginInv, TypeOK, Of, Instance
<1>4. \/ UNCHANGED <<live, running>>
      \/ live' = live \cup {Of(p)} /\ running' = Append(running, Of(p))
  BY DEF Started
<1>5. TypeOK'
  <2>1. running' \in Seq(Instance) /\ live' \subseteq Instance
    BY <1>3, <1>4, AppendedRuns DEF PluginInv, TypeOK
  <2> QED
    BY <1>1, <1>2, <2>1 DEF PluginInv, TypeOK
<1>6. Placed'
  BY <1>1, <1>2 DEF PluginInv, Placed, Starting, Stopping
<1>7. StopsAlone' /\ StartsAlone'
  BY <1>1 DEF PluginInv, StopsAlone, StartsAlone, Calm, Starting, Stopping, Service, Loading,
              Closing
<1>8. ToolsOfLoad'
  BY <1>1, <1>2 DEF PluginInv, ToolsOfLoad, Of
<1>9. ASSUME NEW q \in Calm'
      PROVE  WhereItRuns(q)'
  <2>1. q \in Calm /\ OneRuns(q) /\ \A j \in loader.at..Len(Order) : Order[j] = q => ~Listed(q)
    BY <1>1, <1>9 DEF PluginInv, Calm, WhereItRuns
  <2>2. q = p => ~Listed(q)
    BY <1>1, <2>1, OrderFacts
  <2>3. ASSUME NEW j \in loader'.at..Len(Order), Order[j] = q
        PROVE  j \in loader.at..Len(Order) /\ q # p
    BY <1>1, <1>2, <2>3, OrderFacts
  <2>4. CASE UNCHANGED <<live, running>>
    <3>1. (Listed(q)' <=> Listed(q)) /\ (OneRuns(q)' <=> OneRuns(q))
      BY <1>1, <2>4 DEF LiveOf, Listed, OneRuns, ListedOf, Of
    <3> QED
      BY <1>1, <1>2, <2>1, <2>3, <3>1 DEF WhereItRuns, Alive
  <2>5. CASE live' = live \cup {Of(p)} /\ running' = Append(running, Of(p))
    <3>1. Of(p).id = p
      BY DEF Of
    <3>2. Listed(q)' <=> Listed(q) \/ q = p
      BY <1>3, <2>5, <3>1, AppendedRuns
    <3>3. OneRuns(q)'
      BY <1>1, <1>3, <2>1, <2>2, <2>5, <3>1, AppendedOnce
    <3> QED
      BY <1>1, <1>2, <2>1, <2>3, <3>2, <3>3 DEF WhereItRuns, Alive
  <2> QED
    BY <1>4, <2>4, <2>5
<1> QED
  BY <1>5, <1>6, <1>7, <1>8, <1>9 DEF PluginInv

-----------------------------------------------------------------------------
(* plugin.services                                                          *)

\* What is answered is neither started nor stopped any more.
LEMMA AnswerFacts ==
    ASSUME PluginInv, NEW r \in Request, Answer(r)
    PROVE  /\ request' \in [Request -> Requests]
           /\ ~Starting(r)' /\ ~Stopping(r)'
           /\ \A q \in Request : q # r => request'[q] = request[q]
           /\ \A q \in Request : Starting(q)' \/ Stopping(q)' => q # r
<1>1. request \in [Request -> Requests]
  BY DEF PluginInv, TypeOK
<1>2. request' = [request EXCEPT ![r] = [stage |-> "answered", service |-> <<>>, at |-> 0]]
  <2>1. [NoRequest EXCEPT !.stage = "answered"] = [stage |-> "answered", service |-> <<>>, at |-> 0]
    BY DEF NoRequest
  <2> QED
    BY <2>1 DEF Answer
<1>3. [stage |-> "answered", service |-> <<>>, at |-> 0] \in Requests
  BY DEF Requests
<1> QED
  BY <1>1, <1>2, <1>3 DEF Starting, Stopping

\* The services that run are where they were if only requests change.
LEMMA RunsAsBefore ==
    ASSUME PluginInv, UNCHANGED <<phase, load, loader, running, live, closing>>,
           disturbed \subseteq disturbed'
    PROVE  \A q \in Calm' : WhereItRuns(q)'
BY DEF PluginInv, WhereItRuns, Calm, LiveOf, Listed, ListedOf, OneRuns, Alive, Closing, Of

LEMMA StartServiceKeeps ==
    ASSUME RuntimeAssumption, PluginInv, NEW r \in Request, NEW p \in Plugin, StartService(r, p)
    PROVE  PluginInv'
<1>1. /\ request[r].stage = "none" /\ ~Starting(r) /\ ~Stopping(r)
      /\ UNCHANGED <<phase, load, tools, services, records, loader, running, live, closing>>
  BY DEF StartService, CanAsk, Starting, Stopping
<1>2. request \in [Request -> Requests] /\ disturbed \subseteq Plugin
  BY DEF PluginInv, TypeOK
<1> DEFINE asked == [stage |-> "starting", service |-> <<Of(p)>>, at |-> 0]
<1>3. Of(p) \in Instance /\ Of(p).id = p
  BY DEF PluginInv, TypeOK, Of, Instance
<1>4. asked \in Requests /\ asked.service[1] = Of(p)
  BY <1>3 DEF Requests
<1>5. CASE Answer(r) /\ UNCHANGED disturbed
  <2>1. TypeOK'
    BY <1>1, <1>5, AnswerFacts DEF PluginInv, TypeOK
  <2>2. Placed'
    BY <1>1, <1>5, AnswerFacts DEF PluginInv, Placed, Starting, Stopping
  <2>3. \A q \in Request : Starting(q)' \/ Stopping(q)' => request'[q] = request[q]
    BY <1>5, AnswerFacts
  <2>4. StopsAlone'
    BY <1>1, <1>5, <2>3 DEF PluginInv, StopsAlone, Calm, Starting, Stopping, Service, Loading, Closing
  <2>5. StartsAlone'
    BY <1>1, <1>5, <2>3
    DEF PluginInv, StartsAlone, Calm, Starting, Stopping, Service, Loading, Closing, Listed, Of
  <2>6. ToolsOfLoad'
    BY <1>1 DEF PluginInv, ToolsOfLoad, Of
  <2> QED
    BY <1>1, <1>5, <2>1, <2>2, <2>4, <2>5, <2>6, RunsAsBefore DEF PluginInv
<1>6. CASE /\ p \notin Ids(running)
           /\ request' = [request EXCEPT ![r] = asked]
           /\ disturbed' = IF Loading \/ Closing \/ p \in AskedIds("starting") \cup AskedIds("stopping")
                           THEN disturbed \cup {p} ELSE disturbed
  <2>1. /\ request' \in [Request -> Requests] /\ request'[r] = asked
        /\ \A q \in Request : q # r => request'[q] = request[q]
    BY <1>2, <1>4, <1>6
  <2>2. disturbed \subseteq disturbed' /\ disturbed' \subseteq Plugin
    BY <1>2, <1>6
  <2>3. Starting(r)' /\ ~Stopping(r)' /\ Service(r)' = Of(p) /\ ~Listed(p)
    BY <1>4, <1>6, <2>1, ListFacts DEF Starting, Stopping, Service
  <2>4. \A q \in Request : (Starting(q)' \/ Stopping(q)') /\ q # r => request'[q] = request[q]
    BY <2>1
  <2>5. TypeOK'
    BY <1>1, <2>1, <2>2 DEF PluginInv, TypeOK
  <2>6. Placed'
    BY <1>1, <1>6, <2>1 DEF PluginInv, Placed, Starting, Stopping
  <2>7. StopsAlone'
    BY <1>1, <2>1, <2>2, <2>3
    DEF PluginInv, StopsAlone, Calm, Starting, Stopping, Service, Loading, Closing
  <2>8. ASSUME NEW q \in Calm', NEW t \in Request, Starting(t)', Service(t)'.id = q
        PROVE  /\ ~Loading' /\ ~Closing' /\ Service(t)' = Of(q)' /\ ~Listed(q)'
               /\ \A u \in Request : Starting(u)' /\ Service(u)'.id = q => u = t
    <3>1. q \in Calm /\ (Loading' <=> Loading) /\ (Closing' <=> Closing) /\ Of(q)' = Of(q)
          /\ (Listed(q)' <=> Listed(q))
      BY <1>1, <2>2, <2>8 DEF Calm, Loading, Closing, Of, Listed
    <3>2. CASE q = p
      <4>1. ~Loading /\ ~Closing /\ p \notin AskedIds("starting")
        BY <1>6, <2>8, <3>2 DEF Calm
      <4>2. \A u \in Request : Starting(u) => Service(u).id # p
        BY <4>1, AskedFacts
      <4>3. \A u \in Request : Starting(u)' /\ Service(u)'.id = p => u = r
        BY <2>4, <4>2 DEF Starting, Service
      <4> QED
        BY <2>3, <2>8, <3>1, <3>2, <4>1, <4>3
    <3>3. CASE q # p
      <4>1. \A u \in Request : Starting(u)' /\ Service(u)'.id = q =>
              u # r /\ Starting(u) /\ Service(u).id = q /\ Service(u)' = Service(u)
        BY <1>3, <2>3, <2>4, <3>3 DEF Starting, Service
      <4> QED
        BY <2>8, <3>1, <4>1 DEF PluginInv, StartsAlone
    <3> QED
      BY <3>2, <3>3
  <2>9. StartsAlone'
    BY <2>8 DEF StartsAlone
  <2>10. ToolsOfLoad'
    BY <1>1 DEF PluginInv, ToolsOfLoad, Of
  <2> QED
    BY <1>1, <2>2, <2>5, <2>6, <2>7, <2>9, <2>10, RunsAsBefore DEF PluginInv
<1> QED
  BY <1>5, <1>6 DEF StartService, Starts

LEMMA ServiceStartedKeeps ==
    ASSUME RuntimeAssumption, PluginInv, NEW r \in Request, ServiceStarted(r)
    PROVE  PluginInv'
<1> DEFINE s == Service(r)
<1>1. /\ Alive /\ Starting(r) /\ Answer(r)
      /\ UNCHANGED <<phase, load, tools, services, records, loader, closing, disturbed>>
  BY DEF ServiceStarted, Starting
<1>2. s \in Instance /\ request[r].service = <<s>> /\ ToSet(request[r].service) = {s}
  BY <1>1, ServiceFacts
<1>3. \/ UNCHANGED <<live, running>>
      \/ live' = live \cup {s} /\ running' = Append(running, s)
  <2>1. running \in Seq(Instance)
    BY ListFacts
  <2>2. running \o <<s>> = Append(running, s)
    BY <1>2, <2>1
  <2> QED
    BY <1>2, <2>2 DEF ServiceStarted
<1>4. \A q \in Request : Starting(q)' \/ Stopping(q)' => q # r /\ request'[q] = request[q]
  BY <1>1, AnswerFacts
<1>5. s.id \in Calm => ~Loading /\ ~Closing /\ s = Of(s.id) /\ ~Listed(s.id)
  BY <1>1 DEF PluginInv, StartsAlone
<1>6. TypeOK'
  <2>1. running' \in Seq(Instance) /\ live' \subseteq Instance
    BY <1>2, <1>3, AppendedRuns DEF PluginInv, TypeOK
  <2> QED
    BY <1>1, <2>1, AnswerFacts DEF PluginInv, TypeOK
<1>7. Placed'
  BY <1>1, <1>4 DEF PluginInv, Placed, Starting, Stopping
<1>8. StopsAlone'
  <2>1. \A i \in DOMAIN running : i \in DOMAIN running' /\ running'[i] = running[i]
    BY <1>2, <1>3, AppendedRuns
  <2> QED
    BY <1>1, <1>4, <2>1 DEF PluginInv, StopsAlone, Calm, Starting, Stopping, Service, Loading, Closing
<1>9. ASSUME NEW q \in Calm', NEW t \in Request, Starting(t)', Service(t)'.id = q
      PROVE  /\ ~Loading' /\ ~Closing' /\ Service(t)' = Of(q)' /\ ~Listed(q)'
             /\ \A u \in Request : Starting(u)' /\ Service(u)'.id = q => u = t
  <2>1. q \in Calm /\ (Loading' <=> Loading) /\ (Closing' <=> Closing) /\ Of(q)' = Of(q)
    BY <1>1, <1>9 DEF Calm, Loading, Closing, Of
  <2>2. \A u \in Request : Starting(u)' /\ Service(u)'.id = q =>
          u # r /\ Starting(u) /\ Service(u).id = q /\ Service(u)' = Service(u)
    BY <1>4 DEF Starting, Service
  <2>3. s.id # q
    BY <1>1, <1>9, <2>1, <2>2 DEF PluginInv, StartsAlone
  <2>4. ~Listed(q)
    BY <1>9, <2>1, <2>2 DEF PluginInv, StartsAlone
  <2>5. ~Listed(q)'
    <3>1. CASE UNCHANGED <<live, running>>
      BY <2>4, <3>1 DEF Listed
    <3>2. CASE running' = Append(running, s)
      BY <1>2, <2>3, <2>4, <3>2, AppendedRuns
    <3> QED
      BY <1>3, <3>1, <3>2
  <2> QED
    BY <1>9, <2>1, <2>2, <2>5 DEF PluginInv, StartsAlone
<1>10. StartsAlone'
  BY <1>9 DEF StartsAlone
<1>11. ToolsOfLoad'
  BY <1>1 DEF PluginInv, ToolsOfLoad, Of
<1>12. CASE UNCHANGED <<live, running>>
  BY <1>1, <1>6, <1>7, <1>8, <1>10, <1>11, <1>12, RunsAsBefore DEF PluginInv
<1>13. CASE live' = live \cup {s} /\ running' = Append(running, s)
  <2>1. ASSUME NEW q \in Calm'
        PROVE  WhereItRuns(q)'
    <3>1. q \in Calm /\ WhereItRuns(q) /\ (Closing' <=> Closing)
      BY <1>1, <2>1 DEF PluginInv, Calm, Closing
    <3>2. q = s.id => ~Loading /\ ~Closing /\ s = Of(q) /\ ~Listed(q)
      BY <1>5, <3>1
    <3>3. OneRuns(q) => OneRuns(q)'
      BY <1>1, <1>2, <1>13, <3>2, AppendedOnce
    <3>4. q # s.id => LiveOf(q)' = LiveOf(q) /\ (Listed(q)' <=> Listed(q))
      BY <1>2, <1>13, AppendedRuns DEF LiveOf
    <3>5. ToSet(running) \subseteq ToSet(running)'
      BY <1>2, <1>13, AppendedRuns
    <3>6. CASE q # s.id
      BY <1>1, <3>1, <3>3, <3>4, <3>5, <3>6 DEF WhereItRuns, Alive
    <3>7. CASE q = s.id
      <4>1. loader.stage = "idle" /\ ~Closing /\ OneRuns(q)'
        BY <1>1, <3>1, <3>2, <3>3, <3>7 DEF Loading, WhereItRuns
      <4>2. LiveOf(q)' \subseteq ToSet(running)'
        BY <4>1 DEF OneRuns, ListedOf
      <4>3. \A c \in Causes : ~closing'[c].begun
        BY <1>1, <4>1 DEF Closing
      <4>4. loader'.stage = "idle" /\ phase' # "exited"
        BY <1>1, <4>1 DEF Alive
      <4> QED
        BY <4>1, <4>2, <4>3, <4>4 DEF WhereItRuns
    <3> QED
      BY <3>6, <3>7
  <2> QED
    BY <1>6, <1>7, <1>8, <1>10, <1>11, <2>1 DEF PluginInv
<1> QED
  BY <1>3, <1>12, <1>13

LEMMA StopServiceKeeps ==
    ASSUME RuntimeAssumption, PluginInv, NEW r \in Request, NEW p \in Plugin, StopService(r, p)
    PROVE  PluginInv'
<1>1. /\ request[r].stage = "none" /\ ~Starting(r) /\ ~Stopping(r)
      /\ UNCHANGED <<phase, load, tools, services, records, loader, running, live, closing>>
  BY DEF StopService, CanAsk, Starting, Stopping
<1>2. request \in [Request -> Requests] /\ disturbed \subseteq Plugin
  BY DEF PluginInv, TypeOK
<1>3. ToolsOfLoad'
  BY <1>1 DEF PluginInv, ToolsOfLoad, Of
<1>4. CASE Answer(r) /\ UNCHANGED disturbed
  <2>1. TypeOK'
    BY <1>1, <1>4, AnswerFacts DEF PluginInv, TypeOK
  <2>2. \A q \in Request : Starting(q)' \/ Stopping(q)' => request'[q] = request[q]
    BY <1>4, AnswerFacts
  <2>3. Placed'
    BY <1>1, <2>2 DEF PluginInv, Placed, Starting, Stopping
  <2>4. StopsAlone'
    BY <1>1, <1>4, <2>2 DEF PluginInv, StopsAlone, Calm, Starting, Stopping, Service, Loading, Closing
  <2>5. StartsAlone'
    BY <1>1, <1>4, <2>2
    DEF PluginInv, StartsAlone, Calm, Starting, Stopping, Service, Loading, Closing, Listed, Of
  <2> QED
    BY <1>1, <1>3, <1>4, <2>1, <2>3, <2>4, <2>5, RunsAsBefore DEF PluginInv
<1>5. ASSUME NEW at \in DOMAIN running,
             request' = [request EXCEPT ![r] =
                           [stage |-> "stopping", service |-> <<running[at]>>, at |-> at]],
             disturbed' = IF Loading \/ Closing \/ Asked("stopping") # {}
                          THEN Plugin ELSE disturbed
      PROVE  PluginInv'
  <2> DEFINE asked == [stage |-> "stopping", service |-> <<running[at]>>, at |-> at]
  <2>1. running[at] \in Instance /\ at \in Nat
    BY ListFacts
  <2>2. asked \in Requests /\ asked.service[1] = running[at] /\ asked.at = at
    BY <2>1 DEF Requests
  <2>3. /\ request' \in [Request -> Requests] /\ request'[r] = asked
        /\ \A q \in Request : q # r => request'[q] = request[q]
    BY <1>2, <1>5, <2>2
  <2>4. disturbed \subseteq disturbed' /\ disturbed' \subseteq Plugin
    BY <1>2, <1>5
  <2>5. TypeOK'
    BY <1>1, <2>3, <2>4 DEF PluginInv, TypeOK
  <2>6. Placed'
    BY <1>1, <2>3 DEF PluginInv, Placed, Starting, Stopping
  <2>7. /\ ~Starting(r)' /\ Stopping(r)' /\ Service(r)' = running[at]
        /\ \A q \in Request : Starting(q)' => q # r /\ Starting(q) /\ Service(q)' = Service(q)
        /\ \A q \in Request : Stopping(q)' /\ q # r => Stopping(q)
    BY <2>2, <2>3 DEF Starting, Stopping, Service
  <2>8. Calm' # {} => ~Loading /\ ~Closing /\ \A q \in Request : ~Stopping(q)
    BY <1>5, AskedFacts DEF Calm
  <2>9. StopsAlone'
    <3>1. Calm' # {} => ~Loading' /\ ~Closing'
      BY <1>1, <2>8 DEF Loading, Closing
    <3>2. Calm' # {} => \A q \in Request : Stopping(q)' => q = r
      BY <2>7, <2>8
    <3>3. request'[r].at \in DOMAIN running' /\ Service(r)' = running'[request'[r].at]
      BY <1>1, <2>2, <2>3, <2>7
    <3> QED
      BY <3>1, <3>2, <3>3 DEF StopsAlone
  <2>10. StartsAlone'
    BY <1>1, <2>4, <2>7 DEF PluginInv, StartsAlone, Calm, Loading, Closing, Listed, Of
  <2> QED
    BY <1>1, <1>3, <2>4, <2>5, <2>6, <2>9, <2>10, RunsAsBefore DEF PluginInv
<1> QED
  BY <1>4, <1>5 DEF StopService

\* What is listed when the service at a place is no more
LEMMA RemovedRuns ==
    ASSUME PluginInv, NEW at \in DOMAIN running, running' = RemoveAt(running, at)
    PROVE  /\ running' \in Seq(Instance)
           /\ \A i, j \in DOMAIN running' :
                \E k, l \in DOMAIN running \ {at} :
                   /\ running'[i] = running[k] /\ running'[j] = running[l]
                   /\ k = l => i = j
           /\ \A k \in DOMAIN running \ {at} : running[k] \in ToSet(running)'
<1>1. /\ DOMAIN running = 1..Len(running) /\ Len(running) \in Nat /\ running \in Seq(Instance)
  BY ListFacts
<1>2. /\ running' \in Seq(Instance) /\ DOMAIN running' = 1..(Len(running) - 1)
      /\ \A i \in 1..(Len(running) - 1) :
           running'[i] = IF i < at THEN running[i] ELSE running[i + 1]
  BY <1>1, RemovedFacts
<1> DEFINE Old(i) == IF i < at THEN i ELSE i + 1
<1>3. \A i \in 1..(Len(running) - 1) : Old(i) \in DOMAIN running \ {at}
  BY <1>1
<1>4. \A i \in DOMAIN running' : running'[i] = running[Old(i)]
  BY <1>1, <1>2
<1>5. \A i, j \in 1..(Len(running) - 1) : Old(i) = Old(j) => i = j
  BY <1>1
<1>6. ASSUME NEW k \in DOMAIN running \ {at}
      PROVE  running[k] \in ToSet(running)'
  <2> DEFINE i == IF k < at THEN k ELSE k - 1
  <2>1. i \in 1..(Len(running) - 1) /\ Old(i) = k
    BY <1>1
  <2> QED
    BY <1>2, <1>4, <2>1 DEF ToSet
<1> HIDE DEF Old
<1>7. ASSUME NEW i \in DOMAIN running', NEW j \in DOMAIN running'
      PROVE  \E k, l \in DOMAIN running \ {at} :
                /\ running'[i] = running[k] /\ running'[j] = running[l]
                /\ k = l => i = j
  BY <1>2, <1>3, <1>4, <1>5
<1> QED
  BY <1>2, <1>6, <1>7

LEMMA ServiceStoppedKeeps ==
    ASSUME RuntimeAssumption, PluginInv, NEW r \in Request, ServiceStopped(r)
    PROVE  PluginInv'
<1> DEFINE s == Service(r)
           at == request[r].at
<1>1. /\ Alive /\ Stopping(r) /\ Answer(r)
      /\ UNCHANGED <<phase, load, tools, services, records, loader, closing, disturbed>>
  BY DEF ServiceStopped, Stopping
<1>2. s \in Instance /\ ToSet(request[r].service) = {s} /\ at \in Nat
  BY <1>1, ServiceFacts DEF PluginInv, TypeOK, Requests
<1>3. \/ UNCHANGED <<live, running>>
      \/ /\ live' = live \ {s}
         /\ \/ running' = RemoveAt(running, at) /\ at <= Len(running)
            \/ running' = running /\ ~(at <= Len(running))
  BY <1>2 DEF ServiceStopped
<1>4. \A q \in Request : Starting(q)' \/ Stopping(q)' => q # r /\ request'[q] = request[q]
  BY <1>1, AnswerFacts
<1>5. Calm # {} => /\ ~Loading /\ ~Closing /\ at \in DOMAIN running /\ s = running[at]
                   /\ \A q \in Request : Stopping(q) => q = r
  BY <1>1 DEF PluginInv, StopsAlone
<1>7. TypeOK'
  <2>1. running' \in Seq(Instance)
    <3>1. CASE running' = RemoveAt(running, at) /\ at \in DOMAIN running
      BY <3>1, RemovedRuns
    <3>2. CASE running' = RemoveAt(running, at) /\ at = 0
      <4>1. /\ SubSeq(running, 1, 0 - 1) = <<>>
            /\ SubSeq(running, 0 + 1, Len(running)) = running
        BY ListFacts
      <4> QED
        BY <3>2, <4>1, ListFacts DEF RemoveAt
    <3>3. at <= Len(running) => at = 0 \/ at \in DOMAIN running
      BY <1>2, ListFacts
    <3> QED
      BY <1>3, <3>1, <3>2, <3>3, ListFacts
  <2>2. live' \subseteq Instance
    BY <1>3 DEF PluginInv, TypeOK
  <2> QED
    BY <1>1, <2>1, <2>2, AnswerFacts DEF PluginInv, TypeOK
<1>8. Placed'
  BY <1>1, <1>4 DEF PluginInv, Placed, Starting, Stopping
<1>9. Calm' = Calm /\ (Loading' <=> Loading) /\ (Closing' <=> Closing)
  BY <1>1 DEF Calm, Loading, Closing
<1>10. StopsAlone'
  <2>1. Calm # {} => \A q \in Request : ~Stopping(q)'
    BY <1>4, <1>5 DEF Stopping
  <2> QED
    BY <1>5, <1>9, <2>1 DEF StopsAlone
<1>11. ToolsOfLoad'
  BY <1>1 DEF PluginInv, ToolsOfLoad, Of
<1>12. CASE UNCHANGED <<live, running>>
  <2>1. StartsAlone'
    BY <1>1, <1>4, <1>12
    DEF PluginInv, StartsAlone, Calm, Starting, Stopping, Service, Loading, Closing, Listed, Of
  <2> QED
    BY <1>1, <1>7, <1>8, <1>10, <1>11, <1>12, <2>1, RunsAsBefore DEF PluginInv
<1>13. CASE Calm = {}
  BY <1>7, <1>8, <1>9, <1>10, <1>11, <1>13 DEF PluginInv, StartsAlone
<1>14. CASE Calm # {} /\ live' = live \ {s} /\ running' = RemoveAt(running, at)
  <2>1. /\ at \in DOMAIN running /\ s = running[at] /\ ~Loading /\ ~Closing
    BY <1>5, <1>14
  <2>2. ASSUME NEW q \in Calm
        PROVE  /\ OneRuns(q)' /\ (Listed(q)' => Listed(q))
    <3>1. OneRuns(q)
      BY <1>1, <2>1 DEF PluginInv, WhereItRuns, Loading
    <3>2. \A i, j \in DOMAIN running' :
             \E k, l \in DOMAIN running \ {at} :
               running'[i] = running[k] /\ running'[j] = running[l] /\ (k = l => i = j)
      BY <1>14, <2>1, RemovedRuns
    <3>3. \A k \in DOMAIN running \ {at} : running[k] \in ToSet(running)'
      BY <1>14, <2>1, RemovedRuns
    <3>4. \A i, j \in DOMAIN running' : running'[i].id = q /\ running'[j].id = q => i = j
      BY <3>1, <3>2 DEF OneRuns
    <3>5. Listed(q)' => Listed(q)
      BY <3>2 DEF Listed
    <3>6. LiveOf(q)' = LiveOf(q) \ {s}
      BY <1>14 DEF LiveOf
    <3>7. ListedOf(q)' \subseteq ListedOf(q)
      BY <3>2 DEF ListedOf, ToSet
    <3>8. s \notin ListedOf(q)'
      <4>1. SUFFICES ASSUME s \in ListedOf(q)' PROVE FALSE
        OBVIOUS
      <4>2. s.id = q /\ \E i \in DOMAIN running' : running'[i] = s
        BY <4>1 DEF ListedOf, ToSet
      <4>3. PICK k \in DOMAIN running \ {at} : running[k] = s
        BY <3>2, <4>2
      <4> QED
        BY <2>1, <3>1, <4>2, <4>3 DEF OneRuns
    <3>9. ListedOf(q) \ {s} \subseteq ListedOf(q)'
      <4>1. ASSUME NEW t \in ListedOf(q), t # s
            PROVE  t \in ListedOf(q)'
        <5>1. t.id = q /\ \E k \in DOMAIN running : running[k] = t
          BY <4>1 DEF ListedOf, ToSet
        <5>2. PICK k \in DOMAIN running \ {at} : running[k] = t
          BY <2>1, <4>1, <5>1
        <5> QED
          BY <3>3, <5>1, <5>2 DEF ListedOf
      <4> QED
        BY <4>1
    <3>10. LiveOf(q) = ListedOf(q) /\ LiveOf(q) \subseteq {Of(q)} /\ Of(q)' = Of(q)
      BY <1>1, <3>1 DEF OneRuns, Of
    <3>11. LiveOf(q)' = ListedOf(q)' /\ LiveOf(q)' \subseteq {Of(q)}'
      BY <3>6, <3>7, <3>8, <3>9, <3>10
    <3> QED
      BY <3>4, <3>5, <3>11 DEF OneRuns
  <2>3. ASSUME NEW q \in Calm'
        PROVE  WhereItRuns(q)'
    <3>1. OneRuns(q)' /\ ~Closing' /\ phase' # "exited" /\ loader'.stage = "idle"
      BY <1>1, <1>9, <2>1, <2>2, <2>3 DEF Loading, Alive
    <3>2. LiveOf(q)' \subseteq ToSet(running)'
      BY <3>1 DEF OneRuns, ListedOf
    <3>3. \A c \in Causes : ~closing'[c].begun
      BY <3>1 DEF Closing
    <3> QED
      BY <3>1, <3>2, <3>3 DEF WhereItRuns
  <2>4. StartsAlone'
    <3>1. \A q \in Request : Starting(q)' => Starting(q) /\ Service(q)' = Service(q)
      BY <1>4 DEF Starting, Service
    <3>2. \A q : Of(q)' = Of(q)
      BY <1>1 DEF Of
    <3> QED
      BY <1>9, <2>2, <3>1, <3>2 DEF PluginInv, StartsAlone
  <2> QED
    BY <1>7, <1>8, <1>10, <1>11, <2>3, <2>4 DEF PluginInv
<1>15. Calm # {} => at <= Len(running)
  BY <1>5, ListFacts
<1> QED
  BY <1>3, <1>12, <1>13, <1>14, <1>15

-----------------------------------------------------------------------------
(* stopServices, for a reload and for the end                               *)

\* Stopping what runs disturbs whoever is still being started or stopped.
LEMMA DisturbsFacts ==
    ASSUME PluginInv, disturbed' = Disturbs
    PROVE  /\ disturbed \subseteq disturbed' /\ disturbed' \subseteq Plugin
           /\ Calm' \subseteq Calm
           /\ Calm' # {} => ~Loading /\ ~Closing /\ \A r \in Request : ~Stopping(r)
           /\ \A p \in Calm', r \in Request : Starting(r) => Service(r).id # p
<1>1. disturbed \subseteq Plugin
  BY DEF PluginInv, TypeOK
<1>2. \A p \in AskedIds("starting") : p \in Plugin
  <2>1. \A r \in Request : Starting(r) => Service(r).id \in Plugin
    BY ServiceFacts DEF Instance
  <2> QED
    BY <2>1, AskedFacts
<1>3. disturbed \subseteq disturbed' /\ disturbed' \subseteq Plugin
  BY <1>1, <1>2 DEF Disturbs
<1>4. Calm' # {} => /\ ~Loading /\ ~Closing /\ \A r \in Request : ~Stopping(r)
                    /\ disturbed' = disturbed \cup AskedIds("starting")
  BY AskedFacts DEF Disturbs, Calm
<1>5. \A p \in Calm', r \in Request : Starting(r) => Service(r).id # p
  BY <1>4, AskedFacts DEF Calm
<1> QED
  BY <1>3, <1>4, <1>5 DEF Calm

LEMMA ReloadKeeps == ASSUME RuntimeAssumption, PluginInv, ReloadPlugins PROVE PluginInv'
<1>1. /\ phase = "up" /\ load < MaxReloads /\ ~Loading /\ disturbed' = Disturbs
      /\ loader' = [IdleLoader EXCEPT !.stage = "stopping", !.todo = Reverse(running)]
      /\ UNCHANGED <<phase, load, tools, services, records, running, live, request, closing>>
  BY DEF ReloadPlugins
<1>2. Reverse(running) \in Seq(Instance) /\ ToSet(Reverse(running)) = ToSet(running)
  BY ListFacts, ReverseToSet
<1>3. /\ loader' \in Loaders /\ loader'.stage = "stopping" /\ loader'.todo = Reverse(running)
      /\ loader'.loaded = {}
  <2>1. loader' = [stage |-> "stopping", at |-> 1, todo |-> Reverse(running), loaded |-> {}]
    BY <1>1 DEF IdleLoader
  <2>2. 1 \in 1..(Len(Order) + 1)
    BY OrderFacts
  <2>3. loader' \in Loaders
    BY <1>2, <2>1, <2>2, Zenon DEF Loaders
  <2> QED
    BY <2>1, <2>3
<1>4. TypeOK'
  BY <1>1, <1>3, DisturbsFacts DEF PluginInv, TypeOK
<1>5. Placed'
  BY <1>1, <1>3 DEF PluginInv, Placed, Starting, Stopping
<1>6. StopsAlone'
  BY <1>1, DisturbsFacts DEF StopsAlone, Stopping, Closing
<1>7. StartsAlone'
  BY <1>1, DisturbsFacts DEF StartsAlone, Starting, Service
<1>8. ToolsOfLoad'
  BY <1>1, <1>3 DEF PluginInv, ToolsOfLoad, Of
<1>9. ASSUME NEW q \in Calm'
      PROVE  WhereItRuns(q)'
  <2>1. LiveOf(q) \subseteq ToSet(running)
    BY <1>1, <1>9, DisturbsFacts DEF PluginInv, WhereItRuns, Alive, Loading
  <2>2. LiveOf(q)' \subseteq ToSet(loader'.todo)
    BY <1>1, <1>2, <1>3, <2>1 DEF LiveOf
  <2> QED
    BY <1>1, <1>3, <2>2 DEF WhereItRuns
<1> QED
  BY <1>4, <1>5, <1>6, <1>7, <1>8, <1>9 DEF PluginInv

LEMMA StopFacts ==
    ASSUME PluginInv, NEW todo \in Seq(Instance), todo # <<>>, StopsFirst(todo)
    PROVE  /\ live' \subseteq Instance /\ disturbed' \subseteq Plugin
           /\ disturbed \subseteq disturbed' /\ Calm' \subseteq Calm
           /\ \A q \in Calm' : LiveOf(q)' \subseteq LiveOf(q) \ {Head(todo)}
<1>0. Head(todo) \in Instance
  BY TailToSet
<1>1. Head(todo) \in Instance /\ Head(todo).id \in Plugin
  BY <1>0 DEF Instance
<1>2. live \subseteq Instance /\ disturbed \subseteq Plugin
  BY DEF PluginInv, TypeOK
<1>3. CASE live' = live \ {Head(todo)} /\ UNCHANGED disturbed
  BY <1>2, <1>3 DEF Calm, LiveOf
<1>4. CASE UNCHANGED live /\ disturbed' = disturbed \cup {Head(todo).id}
  BY <1>1, <1>2, <1>4 DEF Calm, LiveOf
<1> QED
  BY <1>3, <1>4 DEF StopsFirst

LEMMA ReloadStopsKeeps == ASSUME RuntimeAssumption, PluginInv, ReloadStops PROVE PluginInv'
<1> DEFINE todo == loader.todo
<1>1. /\ loader.stage = "stopping" /\ todo # <<>> /\ StopsFirst(todo)
      /\ UNCHANGED <<phase, load, tools, services, records, running, request, closing>>
  BY DEF ReloadStops
<1>2. todo \in Seq(Instance) /\ Tail(todo) \in Seq(Instance)
  BY <1>1, LoaderTyped, TailToSet
<1>3. loader' = [loader EXCEPT !.todo = Tail(todo)]
  BY DEF ReloadStops
<1>4. /\ loader' \in Loaders /\ loader'.stage = "stopping" /\ loader'.todo = Tail(todo)
      /\ loader'.loaded = loader.loaded
  <2>1. loader \in Loaders /\ [loader EXCEPT !.todo = Tail(todo)] \in Loaders
    BY <1>2, LoaderTyped, LoaderFacts, Zenon
  <2> QED
    BY <1>1, <1>3, <2>1 DEF Loaders
<1>5. TypeOK'
  BY <1>1, <1>2, <1>4, StopFacts DEF PluginInv, TypeOK
<1>6. Placed'
  BY <1>1, <1>4 DEF PluginInv, Placed, Starting, Stopping
<1>7. StopsAlone' /\ StartsAlone' /\ Calm' \subseteq Calm
  BY <1>1, <1>2, StopFacts, LoaderKeeps DEF Loading
<1>8. ToolsOfLoad'
  BY <1>1, <1>4 DEF PluginInv, ToolsOfLoad, Of
<1>9. ASSUME NEW q \in Calm'
      PROVE  WhereItRuns(q)'
  <2>1. (phase = "exited" => LiveOf(q) = {}) /\ (Alive => LiveOf(q) \subseteq ToSet(todo))
    BY <1>1, <1>7, <1>9 DEF PluginInv, WhereItRuns
  <2>2. LiveOf(q)' \subseteq LiveOf(q) \ {Head(todo)}
    BY <1>1, <1>2, <1>9, StopFacts
  <2>3. ToSet(todo) \subseteq ToSet(Tail(todo)) \cup {Head(todo)}
    BY <1>1, <1>2, TailToSet
  <2>4. Alive => LiveOf(q)' \subseteq ToSet(loader'.todo)
    BY <1>4, <2>1, <2>2, <2>3
  <2> QED
    BY <1>1, <1>4, <2>1, <2>2, <2>4 DEF WhereItRuns, Alive
<1> QED
  BY <1>5, <1>6, <1>7, <1>8, <1>9 DEF PluginInv

LEMMA ResetKeeps == ASSUME RuntimeAssumption, PluginInv, Reset PROVE PluginInv'
<1>1. /\ Alive /\ loader.stage = "stopping" /\ loader.todo = <<>>
      /\ running' = <<>> /\ services' = {} /\ records' = {} /\ tools' = {}
      /\ load' = load + 1 /\ loader' = [IdleLoader EXCEPT !.stage = "importing"]
      /\ UNCHANGED <<phase, live, request, closing, disturbed>>
  BY DEF Reset, Forget
<1>2. loader' \in Loaders /\ loader'.stage = "importing" /\ loader'.loaded = {}
  <2>1. loader' = [stage |-> "importing", at |-> 1, todo |-> <<>>, loaded |-> {}]
    BY <1>1 DEF IdleLoader
  <2>2. 1 \in 1..(Len(Order) + 1) /\ <<>> \in Seq(Instance)
    BY OrderFacts
  <2>3. loader' \in Loaders
    BY <2>1, <2>2, Zenon DEF Loaders
  <2> QED
    BY <2>1, <2>3
<1>3. TypeOK'
  <2>1. load \in 0..MaxReloads /\ load < MaxReloads
    BY <1>1 DEF PluginInv, TypeOK, Placed
  <2>2. load' \in 0..MaxReloads
    BY <1>1, <2>1, OrderFacts
  <2> QED
    BY <1>1, <1>2, <2>2 DEF PluginInv, TypeOK
<1>4. Placed'
  BY <1>1, <1>2 DEF PluginInv, Placed, Starting, Stopping
<1>5. Calm' = Calm /\ Loading /\ (Closing' <=> Closing)
  BY <1>1 DEF Calm, Loading, Closing
<1>6. StopsAlone'
  BY <1>1, <1>5 DEF PluginInv, StopsAlone, Stopping
<1>7. StartsAlone'
  BY <1>1, <1>5 DEF PluginInv, StartsAlone, Starting, Service
<1>8. ToolsOfLoad'
  BY <1>1, <1>2 DEF ToolsOfLoad
<1>9. ASSUME NEW q \in Calm'
      PROVE  WhereItRuns(q)'
  <2>1. LiveOf(q) = {}
    BY <1>1, <1>5, <1>9 DEF PluginInv, WhereItRuns, ToSet
  <2> QED
    BY <1>1, <1>2, <2>1 DEF WhereItRuns, LiveOf, Listed
<1> QED
  BY <1>3, <1>4, <1>6, <1>7, <1>8, <1>9 DEF PluginInv

\* At the end nothing is loaded, started or stopped that is not disturbed.
LEMMA AtTheEnd ==
    ASSUME PluginInv, Closing
    PROVE  /\ Calm # {} => ~Loading /\ \A r \in Request : ~Stopping(r)
           /\ \A p \in Calm, r \in Request : Starting(r) => Service(r).id # p
BY DEF PluginInv, StopsAlone, StartsAlone

LEMMA ShutdownKeeps ==
    ASSUME RuntimeAssumption, PluginInv, NEW c \in Causes, Shutdown(c) PROVE PluginInv'
<1>1. /\ phase = "up"
      /\ closing' = [closing EXCEPT ![c] = [begun |-> TRUE, todo |-> Reverse(running)]]
      /\ UNCHANGED <<phase, load, tools, services, records, loader, running, live, request>>
      /\ disturbed' = IF Closing THEN disturbed ELSE Disturbs
  BY DEF Shutdown
<1>2. Reverse(running) \in Seq(Instance) /\ ToSet(Reverse(running)) = ToSet(running)
  BY ListFacts, ReverseToSet
<1>3. /\ closing' \in [Causes -> Closings] /\ closing'[c].todo = Reverse(running)
      /\ \A d \in Causes : d # c => closing'[d] = closing[d]
  BY <1>1, <1>2 DEF PluginInv, TypeOK, Closings
<1>4. /\ disturbed \subseteq disturbed' /\ disturbed' \subseteq Plugin /\ Calm' \subseteq Calm
      /\ Calm' # {} => ~Loading /\ \A r \in Request : ~Stopping(r)
      /\ \A p \in Calm', r \in Request : Starting(r) => Service(r).id # p
  <2>1. CASE Closing
    BY <1>1, <2>1, AtTheEnd DEF Calm, PluginInv, TypeOK
  <2>2. CASE ~Closing
    BY <1>1, <2>2, DisturbsFacts
  <2> QED
    BY <2>1, <2>2
<1>5. TypeOK'
  BY <1>1, <1>3, <1>4 DEF PluginInv, TypeOK
<1>6. Placed'
  BY <1>1 DEF PluginInv, Placed, Starting, Stopping
<1>7. StopsAlone'
  BY <1>1, <1>4 DEF StopsAlone, Stopping, Loading
<1>8. StartsAlone'
  BY <1>1, <1>4 DEF StartsAlone, Starting, Service
<1>9. ToolsOfLoad'
  BY <1>1 DEF PluginInv, ToolsOfLoad, Of
<1>10. ASSUME NEW q \in Calm'
       PROVE  WhereItRuns(q)'
  <2>1. loader.stage = "idle" /\ WhereItRuns(q) /\ Alive
    BY <1>1, <1>4, <1>10 DEF Loading, PluginInv, Alive
  <2>2. /\ LiveOf(q) \subseteq ToSet(running)
        /\ \A d \in Causes : closing[d].begun => LiveOf(q) \subseteq ToSet(closing[d].todo)
    BY <2>1 DEF WhereItRuns
  <2>3. \A d \in Causes : closing'[d].begun => LiveOf(q) \subseteq ToSet(closing'[d].todo)
    BY <1>2, <1>3, <2>2
  <2>4. Closing'
    <3>1. closing'[c].begun
      BY <1>1 DEF PluginInv, TypeOK
    <3> QED
      BY <3>1 DEF Closing
  <2>5. LiveOf(q)' = LiveOf(q)
    BY <1>1 DEF LiveOf
  <2> QED
    BY <1>1, <2>1, <2>2, <2>3, <2>4, <2>5 DEF WhereItRuns
<1> QED
  BY <1>5, <1>6, <1>7, <1>8, <1>9, <1>10 DEF PluginInv

LEMMA ShutdownStopsKeeps ==
    ASSUME RuntimeAssumption, PluginInv, NEW c \in Causes, ShutdownStops(c) PROVE PluginInv'
<1> DEFINE todo == closing[c].todo
<1>1. /\ Alive /\ closing[c].begun /\ todo # <<>> /\ StopsFirst(todo) /\ Closing
      /\ closing' = [closing EXCEPT ![c].todo = Tail(todo)]
      /\ UNCHANGED <<phase, load, tools, services, records, loader, running, request>>
  BY DEF ShutdownStops, Closing
<1>2. todo \in Seq(Instance) /\ Tail(todo) \in Seq(Instance)
  BY <1>1, TailToSet DEF PluginInv, TypeOK, Closings
<1>3. /\ closing' \in [Causes -> Closings] /\ closing'[c].todo = Tail(todo)
      /\ closing'[c].begun
      /\ \A d \in Causes : d # c => closing'[d] = closing[d]
  BY <1>1, <1>2 DEF PluginInv, TypeOK, Closings
<1>4. Closing'
  BY <1>3 DEF Closing
<1>5. TypeOK'
  BY <1>1, <1>2, <1>3, StopFacts DEF PluginInv, TypeOK
<1>6. Placed'
  BY <1>1 DEF PluginInv, Placed, Starting, Stopping
<1>7. Calm' \subseteq Calm
  BY <1>1, <1>2, StopFacts
<1>8. StopsAlone'
  BY <1>1, <1>7, AtTheEnd DEF StopsAlone, Stopping, Loading
<1>9. StartsAlone'
  BY <1>1, <1>7, AtTheEnd DEF StartsAlone, Starting, Service
<1>10. ToolsOfLoad'
  BY <1>1 DEF PluginInv, ToolsOfLoad, Of
<1>11. ASSUME NEW q \in Calm'
       PROVE  WhereItRuns(q)'
  <2>1. loader.stage = "idle" /\ WhereItRuns(q)
    BY <1>1, <1>7, <1>11, AtTheEnd DEF Loading, PluginInv
  <2>2. /\ LiveOf(q) \subseteq ToSet(running)
        /\ \A d \in Causes : closing[d].begun => LiveOf(q) \subseteq ToSet(closing[d].todo)
    BY <1>1, <2>1 DEF WhereItRuns
  <2>3. LiveOf(q)' \subseteq LiveOf(q) \ {Head(todo)}
    BY <1>1, <1>2, <1>11, StopFacts
  <2>4. LiveOf(q)' \subseteq ToSet(closing'[c].todo)
    <3>1. ToSet(todo) \subseteq ToSet(Tail(todo)) \cup {Head(todo)}
      BY <1>1, <1>2, TailToSet
    <3> QED
      BY <1>1, <1>3, <2>2, <2>3, <3>1
  <2>5. \A d \in Causes : closing'[d].begun => LiveOf(q)' \subseteq ToSet(closing'[d].todo)
    BY <1>3, <2>2, <2>3, <2>4
  <2>6. loader'.stage = "idle" /\ phase' # "exited" /\ ToSet(running)' = ToSet(running)
    BY <1>1, <2>1 DEF Alive
  <2> QED
    BY <1>4, <2>2, <2>3, <2>5, <2>6 DEF WhereItRuns
<1> QED
  BY <1>5, <1>6, <1>8, <1>9, <1>10, <1>11 DEF PluginInv

LEMMA ExitKeeps ==
    ASSUME RuntimeAssumption, PluginInv, NEW c \in Causes, Exit(c) PROVE PluginInv'
<1>1. /\ Alive /\ closing[c].begun /\ closing[c].todo = <<>> /\ Closing
      /\ running' = <<>> /\ phase' = "exited"
      /\ UNCHANGED <<load, tools, services, records, loader, live, request, closing, disturbed>>
  BY DEF Exit, Closing
<1>2. TypeOK'
  BY <1>1 DEF PluginInv, TypeOK
<1>3. Placed'
  BY <1>1 DEF PluginInv, Placed, Starting, Stopping
<1>4. StopsAlone'
  BY <1>1, AtTheEnd DEF StopsAlone, Stopping, Loading, Calm
<1>5. StartsAlone'
  BY <1>1, AtTheEnd DEF StartsAlone, Starting, Service, Calm
<1>6. ToolsOfLoad'
  BY <1>1 DEF PluginInv, ToolsOfLoad, Of
<1>7. ASSUME NEW q \in Calm'
      PROVE  WhereItRuns(q)'
  <2>1. q \in Calm /\ loader.stage = "idle"
    BY <1>1, <1>7, AtTheEnd DEF Calm, Loading
  <2>2. LiveOf(q) = {}
    BY <1>1, <2>1 DEF PluginInv, WhereItRuns, ToSet
  <2> QED
    BY <1>1, <2>2 DEF WhereItRuns, LiveOf, Alive
<1> QED
  BY <1>2, <1>3, <1>4, <1>5, <1>6, <1>7 DEF PluginInv

-----------------------------------------------------------------------------
(* The theorems                                                             *)

LEMMA PluginNext == ASSUME RuntimeAssumption, PluginInv, [Next]_runtimeVars PROVE PluginInv'
<1>1. CASE Import \/ Activate \/ Loaded \/ StartNext \/ Started \/ AllStarted
  BY <1>1, ImportKeeps, ActivateKeeps, LoadedKeeps, StartNextKeeps, StartedKeeps, AllStartedKeeps
<1>2. CASE \E r \in Request : \/ \E p \in Plugin : StartService(r, p) \/ StopService(r, p)
                              \/ ServiceStarted(r) \/ ServiceStopped(r)
  BY <1>2, StartServiceKeeps, StopServiceKeeps, ServiceStartedKeeps, ServiceStoppedKeeps
<1>3. CASE ReloadPlugins \/ ReloadStops \/ Reset
  BY <1>3, ReloadKeeps, ReloadStopsKeeps, ResetKeeps
<1>4. CASE \E c \in Causes : Shutdown(c) \/ ShutdownStops(c) \/ Exit(c)
  BY <1>4, ShutdownKeeps, ShutdownStopsKeeps, ExitKeeps
<1>5. CASE UNCHANGED runtimeVars
  BY <1>5 DEF runtimeVars, PluginInv, TypeOK, Placed, StopsAlone, StartsAlone, ToolsOfLoad,
              WhereItRuns, Calm, LiveOf, ListedOf, Listed, Service, Starting, Stopping, OneRuns,
              Alive, Loading, Closing, Of
<1> QED
  BY <1>1, <1>2, <1>3, <1>4, <1>5 DEF Next

THEOREM PluginInvAlways == ASSUME RuntimeAssumption PROVE Spec => []PluginInv
<1>1. Init => PluginInv
  BY InitPlugins
<1>2. PluginInv /\ [Next]_runtimeVars => PluginInv'
  BY PluginNext
<1> QED
  BY <1>1, <1>2, PTL DEF Spec

LEMMA PluginInvMeans == PluginInv => TypeOK /\ PluginsAgree
<1>1. PluginInv => TypeOK
  BY DEF PluginInv
<1>2. PluginInv => ListedAreRunning
  BY DEF PluginInv, WhereItRuns, OneRuns, Calm, LiveOf, ListedOf, ListedAreRunning, Settled,
         Alive, Loading
<1>3. PluginInv => ToolsAreCurrent
  BY DEF PluginInv, ToolsOfLoad, ToolsAreCurrent
<1>4. PluginInv => EndsClean
  BY DEF PluginInv, TypeOK, WhereItRuns, Calm, LiveOf, Instance, EndsClean
<1> QED
  BY <1>1, <1>2, <1>3, <1>4 DEF PluginsAgree

\* A service of a plugin that no two tasks changed runs if and only if it is
\* listed, once and from the last load; what can be called is what was loaded last; and
\* nothing runs when the process has ended (sidecar/src/index.ts).
THEOREM PluginsAlwaysAgree == ASSUME RuntimeAssumption PROVE Spec => [](TypeOK /\ PluginsAgree)
BY PluginInvAlways, PluginInvMeans, PTL
================================================================================
