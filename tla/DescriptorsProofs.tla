------------------------- MODULE DescriptorsProofs -------------------------
(***************************************************************************)
(* Theorems about Descriptors: its safety properties for every number of   *)
(* process substitutions and every set of commands.                        *)
(***************************************************************************)
EXTENDS Descriptors, TLAPS

----------------------------------------------------------------------------
(* The inductive invariant.                                                *)

InStart == pc \in {"openread", "openwrite", "yield"}

OursFds == {Ours(s) : s \in AllSubs}
TheirsFds == {Theirs(s) : s \in AllSubs}
PtyFds == IF opt.pty = "none" THEN {} ELSE {Parent, Child}
ChildFor(kinds) == IF opt.pty \in kinds THEN {Child} ELSE {}

\* What stays open in this process after the launch.
StaysOpen == {Parent} \cup Slots({"ownedfile"}) \cup TheirsFds
             \cup BsdChild

\* Where the descriptors come from.
MadeInv ==
  /\ made \subseteq OursFds \cup TheirsFds \cup Slots({"path"}) \cup PtyFds
  /\ openFds \subseteq (OursFds \cup Slots({"path", "owned"}) \cup PassIf("owned")
                        \cup ChildFor({"linux"})) \cap (made \cup TakenOver)
  /\ pty # "none" => opt.pty # "none" /\ {Parent, Child} \subseteq made
  /\ {Theirs(s) : s \in started} \subseteq TheirsFds \cap made
  /\ later \subseteq {Parent} \cap made
  /\ later # {} => pc = "done"
  /\ started # {} => pc \in {"running", "done"} /\ failed \in {"no", "kill"}

\* What the stages that are over have put into open_fds.
SetUpInv ==
  pc = "setup" =>
    /\ at \in 1..7 /\ failed = "no"
    /\ \A f \in Fd : closed[f] = 0
    /\ pty = IF at > 5 /\ opt.pty # "none" THEN "fds" ELSE "none"
    /\ pty = "none" => made \cap {Parent, Child} = {}
    /\ at = 1 => made = {} /\ openFds = {}
    /\ made \subseteq openFds \cup StaysOpen
    /\ at > 1 => TheirsFds \subseteq made
    /\ at > 2 => Slots({"owned"}) \cap {<<"in", 0>>} \subseteq openFds
    /\ at > 3 => Slots({"owned"}) \cap {<<"out", 0>>} \subseteq openFds
    /\ at > 4 => Slots({"owned"}) \cap {<<"err", 0>>} \subseteq openFds
    /\ at > 6 => PassIf("owned") \subseteq openFds

\* Between __enter__ and the launch.
StartInv ==
  InStart =>
    /\ failed = "no"
    /\ \A f \in Fd : \/ closed[f] = 0
                     \/ f = Child /\ opt.pty = "freebsd" /\ closed[f] = 1
    /\ pty = IF opt.pty = "none" THEN "none"
             ELSE IF pc = "yield" THEN "streams" ELSE "fds"
    /\ pc # "yield" => opt.pty # "none"
    /\ made \cup TakenOver \subseteq openFds \cup StaysOpen
    /\ TheirsFds \subseteq made

RunInv ==
  pc = "running" =>
    /\ failed = "no"
    /\ closed[Parent] = 0
    /\ pty = IF opt.pty = "none" THEN "none" ELSE "streams"
    /\ TheirsFds \subseteq {Theirs(s) : s \in started} \cup Ownerless
    /\ Held \subseteq StaysOpen

\* What nobody closes any more, by what made the start fail.
Leak ==
  CASE failed = "setup"   -> made \ {Parent, Child}
    [] failed = "adapter" -> made
    [] failed \in {"openwrite", "spawn"} ->
         Slots({"ownedfile"}) \cup {Theirs(s) : s \in Subs({"wpipe"})}
    [] failed = "kill"    -> {Parent} \cup BsdChild \cup Slots({"ownedfile"})
                             \cup Ownerless
    [] OTHER              -> Slots({"ownedfile"}) \cup Ownerless

DoneInv ==
  pc = "done" =>
    Held \subseteq later \cup {Theirs(s) : s \in started} \cup Leak

IInv ==
  /\ TypeOK /\ MadeInv /\ SetUpInv /\ StartInv /\ RunInv /\ DoneInv
  /\ ClosedOnce /\ ForeignKept

----------------------------------------------------------------------------
(* The descriptors.                                                        *)

\* Descriptors of different kinds are different.
LEMMA FdsDiffer ==
  /\ Parent # Child /\ Parent # Pass /\ Child # Pass
  /\ \A s : Ours(s) \notin {Parent, Child, Pass} /\ Theirs(s) \notin {Parent, Child, Pass}
  /\ \A s, t : Ours(s) # Theirs(t) /\ (Theirs(s) = Theirs(t) => s = t)
  /\ \A x \in Slot : /\ <<x, 0>> \notin {Parent, Child, Pass}
                     /\ \A s : <<x, 0>> # Ours(s) /\ <<x, 0>> # Theirs(s)
                     /\ \A y \in Slot : <<x, 0>> = <<y, 0>> => x = y
BY DEF Parent, Child, Pass, Ours, Theirs, Slot

\* A slot holds descriptors of one kind only.
LEMMA SlotsFacts ==
  ASSUME NEW K, NEW L
  PROVE  /\ Slots(K) \subseteq {<<x, 0>> : x \in Slot}
         /\ Slots(K \cup L) = Slots(K) \cup Slots(L)
         /\ K \cap L = {} => Slots(K) \cap Slots(L) = {}
<1>1. Slots(K) \subseteq {<<x, 0>> : x \in Slot}
  BY DEF Slots
<1>2. Slots(K \cup L) = Slots(K) \cup Slots(L)
  BY DEF Slots
<1>3. ASSUME K \cap L = {}, NEW f \in Slots(K), f \in Slots(L) PROVE FALSE
  <2>1. PICK x \in Slot : f = <<x, 0>> /\ opt.slot[x] \in K
    BY DEF Slots
  <2>2. PICK y \in Slot : f = <<y, 0>> /\ opt.slot[y] \in L
    BY <1>3 DEF Slots
  <2>3. x = y
    BY <2>1, <2>2, FdsDiffer
  <2> QED BY <1>3, <2>1, <2>2, <2>3
<1> QED BY <1>1, <1>2, <1>3

\* What is made, what is taken over and what only is lent have nothing in common.
LEMMA KindsDiffer ==
  /\ OursFds \cup TheirsFds \cup Slots({"path"}) \cup TakenOver \cup {Parent, Child} \subseteq Fd
  /\ (OursFds \cup TheirsFds \cup Slots({"path"}) \cup {Parent, Child})
       \cap (Given \cup TakenOver) = {}
  /\ Given \cap TakenOver = {}
  /\ TheirsFds \cap (OursFds \cup Slots({"path"})) = {}
  /\ {Parent, Child} \cap (OursFds \cup TheirsFds \cup Slots({"path"})) = {}
  /\ Parent # Child
  /\ TakenOver = Slots({"owned"}) \cup Slots({"ownedfile"}) \cup PassIf("owned")
  /\ Slots({"path", "owned"}) = Slots({"path"}) \cup Slots({"owned"})
<1> DEFINE S == {<<x, 0>> : x \in Slot}
<1>1. /\ OursFds \subseteq Fd /\ TheirsFds \subseteq Fd /\ S \subseteq Fd
      /\ {Parent, Child, Pass} \subseteq Fd
  BY DEF OursFds, TheirsFds, AllSubs, Subs, Fd
<1>2. PassIf("owned") \subseteq {Pass} /\ PassIf("given") \subseteq {Pass}
      /\ PassIf("owned") \cap PassIf("given") = {}
  BY DEF PassIf
<1>3. /\ OursFds \cap (S \cup {Parent, Child, Pass}) = {}
      /\ TheirsFds \cap (S \cup {Parent, Child, Pass}) = {}
      /\ S \cap {Parent, Child, Pass} = {}
      /\ OursFds \cap TheirsFds = {}
      /\ Parent # Child /\ Parent # Pass /\ Child # Pass
  BY FdsDiffer DEF OursFds, TheirsFds
<1>4. /\ Slots({"path"}) \subseteq S /\ Slots({"owned", "ownedfile"}) \subseteq S
      /\ Slots({"given", "file"}) \subseteq S
  BY SlotsFacts
<1>5. /\ Slots({"path"}) \cap Slots({"owned", "ownedfile"}) = {}
      /\ Slots({"path"}) \cap Slots({"given", "file"}) = {}
      /\ Slots({"owned", "ownedfile"}) \cap Slots({"given", "file"}) = {}
  <2>1. /\ {"path"} \cap {"owned", "ownedfile"} = {}
        /\ {"path"} \cap {"given", "file"} = {}
        /\ {"owned", "ownedfile"} \cap {"given", "file"} = {}
    OBVIOUS
  <2> QED BY <2>1, SlotsFacts
<1>6. /\ Slots({"owned"} \cup {"ownedfile"}) = Slots({"owned"}) \cup Slots({"ownedfile"})
      /\ Slots({"path"} \cup {"owned"}) = Slots({"path"}) \cup Slots({"owned"})
  BY SlotsFacts
<1>7. {"owned"} \cup {"ownedfile"} = {"owned", "ownedfile"}
      /\ {"path"} \cup {"owned"} = {"path", "owned"}
  OBVIOUS
<1>8. TakenOver = Slots({"owned"}) \cup Slots({"ownedfile"}) \cup PassIf("owned")
  BY <1>6, <1>7 DEF TakenOver
<1> HIDE DEF S
<1>9. /\ (OursFds \cup TheirsFds \cup Slots({"path"}) \cup {Parent, Child})
           \cap (Given \cup TakenOver) = {}
      /\ Given \cap TakenOver = {}
  BY <1>2, <1>3, <1>4, <1>5 DEF Given, TakenOver
<1> QED BY <1>1, <1>2, <1>3, <1>4, <1>6, <1>7, <1>8, <1>9 DEF TakenOver

\* The redirections of process substitutions that a failed launch closes, and the others.
LEMMA CleanupSubsFacts ==
  /\ CleanupSubs \subseteq TheirsFds
  /\ TheirsFds \subseteq CleanupSubs \cup {Theirs(s) : s \in Subs({"wpipe"})}
  /\ started = {} => {Theirs(s) : s \in Subs({"wpipe"})} \subseteq Ownerless
BY DEF CleanupSubs, TheirsFds, AllSubs, Subs, Ownerless

\* The options do not change during a run.
LEMMA SameOptions ==
  ASSUME opt' = opt
  PROVE  /\ OursFds' = OursFds /\ TheirsFds' = TheirsFds /\ PtyFds' = PtyFds
         /\ TakenOver' = TakenOver /\ Given' = Given /\ StaysOpen' = StaysOpen
         /\ Slots({"path"})' = Slots({"path"}) /\ Slots({"owned"})' = Slots({"owned"})
         /\ Slots({"ownedfile"})' = Slots({"ownedfile"})
         /\ Slots({"path", "owned"})' = Slots({"path", "owned"})
         /\ PassIf("owned")' = PassIf("owned")
         /\ ChildFor({"linux"})' = ChildFor({"linux"})
         /\ Subs({"wpipe"})' = Subs({"wpipe"}) /\ BsdChild' = BsdChild
         /\ Subs({"pipe", "wpipe"})' = Subs({"pipe", "wpipe"})
         /\ started' = started => Ownerless' = Ownerless
BY DEF OursFds, TheirsFds, PtyFds, TakenOver, Given, StaysOpen, Slots, AllSubs, Subs, PassIf,
       ChildFor, BsdChild, Ownerless

\* What PtyFds.close closes at once, and what it leaves to a transport.
LEMMA PtyFacts ==
  ASSUME NEW S, closed \in [Fd -> 0..2]
  PROVE  /\ PtyNow("none", S) = {} /\ PtyLater("none") = {}
         /\ PtyNow("fds", S) = {Parent} \cup ChildOnce(S) /\ PtyLater("fds") = {}
         /\ PtyNow("streams", S) = ChildOnce(S) /\ PtyLater("streams") = {Parent}
         /\ ChildOnce(S) \subseteq {Child}
         /\ closed[Child] # 0 => ChildOnce(S) = {}
         /\ closed[Child] = 0 => Child \in S \cup ChildOnce(S)
BY DEF PtyNow, PtyLater, ChildOnce

\* What a close does to the counters.
LEMMA CloseFacts ==
  ASSUME closed \in [Fd -> 0..2], NEW S, Close(S)
  PROVE  /\ closed' \in [Fd -> Nat]
         /\ \A f \in Fd : closed[f] \in Nat
                          /\ closed'[f] = IF f \in S THEN closed[f] + 1 ELSE closed[f]
BY DEF Close

----------------------------------------------------------------------------
(* The initial states, and the actions one by one.                         *)

\* At the start nothing is made, opened or closed.
LEMMA Starts == Init => IInv
<1> SUFFICES ASSUME Init PROVE IInv
  OBVIOUS
<1>1. TypeOK
  BY DEF Init, TypeOK, Stages
<1>2. {Theirs(s) : s \in started} = {} /\ MadeInv
  BY DEF Init, MadeInv
<1>3. SetUpInv
  BY DEF Init, SetUpInv
<1>4. StartInv /\ RunInv /\ DoneInv
  BY DEF Init, StartInv, InStart, RunInv, DoneInv
<1>5. ClosedOnce
  BY DEF Init, ClosedOnce
<1>6. ForeignKept
  BY DEF Init, ForeignKept
<1> QED BY <1>1, <1>2, <1>3, <1>4, <1>5, <1>6 DEF IInv

\* A stage of the set-up makes and records descriptors of the command's options.
LEMMA StepSetUp == IInv /\ SetUp => IInv'
<1> SUFFICES ASSUME IInv, SetUp PROVE IInv'
  OBVIOUS
<1> USE DEF IInv
<1>0. opt' = opt /\ closed' = closed /\ later' = later /\ started' = started
      /\ failed' = failed /\ pc = "setup" /\ at' = at + 1 /\ at \in 1..7
      /\ failed = "no" /\ later = {} /\ started = {}
  BY DEF SetUp, SetUpInv, MadeInv
<1>1. /\ made \subseteq made' /\ openFds \subseteq openFds'
      /\ made' = made \cup Creates(Stages[at]) /\ openFds' = openFds \cup Adds(Stages[at])
      /\ pty' = IF at = 5 /\ opt.pty # "none" THEN "fds" ELSE pty
      /\ pc' = IF at < 7 THEN "setup" ELSE IF opt.pty = "none" THEN "yield" ELSE "openread"
  BY <1>0 DEF SetUp, Stage, Stages
<1>2. /\ at = 1 => /\ Creates(Stages[at]) = OursFds \cup TheirsFds
                   /\ Adds(Stages[at]) = OursFds
      /\ at \in 2..4 => /\ Creates(Stages[at]) = Slots({"path"}) \cap {<<Stages[at], 0>>}
                        /\ Adds(Stages[at]) = Slots({"owned", "path"}) \cap {<<Stages[at], 0>>}
      /\ at = 5 => /\ Creates(Stages[at]) = PtyFds
                   /\ Adds(Stages[at]) = ChildFor({"linux"})
      /\ at = 6 => Creates(Stages[at]) = {} /\ Adds(Stages[at]) = PassIf("owned")
      /\ at = 7 => Creates(Stages[at]) = {} /\ Adds(Stages[at]) = {}
  BY <1>0 DEF Creates, Adds, Stages, Slot, OursFds, TheirsFds, PtyFds, ChildFor, AllSubs
<1>3. {"owned", "path"} = {"path", "owned"}
  OBVIOUS
<1>4. TypeOK'
  BY <1>0, <1>1, <1>2, <1>3, KindsDiffer DEF TypeOK, Stages, PtyFds, ChildFor
<1>5. MadeInv'
  <2>1. made' \subseteq OursFds \cup TheirsFds \cup Slots({"path"}) \cup PtyFds
    BY <1>0, <1>1, <1>2 DEF MadeInv
  <2>2. openFds' \subseteq (OursFds \cup Slots({"path", "owned"}) \cup PassIf("owned")
                           \cup ChildFor({"linux"}))
    BY <1>0, <1>1, <1>2, <1>3 DEF MadeInv
  <2>3. openFds' \subseteq made' \cup TakenOver
    BY <1>0, <1>1, <1>2, <1>3, KindsDiffer DEF MadeInv, PtyFds, ChildFor
  <2>4. pty' # "none" => opt.pty # "none" /\ {Parent, Child} \subseteq made'
    BY <1>1, <1>2 DEF MadeInv, PtyFds
  <2>5. {Theirs(s) : s \in started'} \subseteq TheirsFds \cap made'
    BY <1>0, <1>1 DEF MadeInv
  <2> QED BY <1>0, <2>1, <2>2, <2>3, <2>4, <2>5, SameOptions DEF MadeInv
<1>6. SetUpInv'
  <2> SUFFICES ASSUME at < 7 PROVE SetUpInv'
    BY <1>1 DEF SetUpInv
  <2>1. /\ made' \subseteq openFds' \cup StaysOpen
        /\ pty' = "none" => made' \cap {Parent, Child} = {}
    BY <1>0, <1>1, <1>2, <1>3, KindsDiffer DEF SetUpInv, StaysOpen, PtyFds, ChildFor, BsdChild
  <2>2. /\ at' > 1 => TheirsFds \subseteq made'
        /\ at' > 6 => PassIf("owned") \subseteq openFds'
    BY <1>0, <1>1, <1>2 DEF SetUpInv
  <2>3. /\ at' > 2 => Slots({"owned"}) \cap {<<"in", 0>>} \subseteq openFds'
        /\ at' > 3 => Slots({"owned"}) \cap {<<"out", 0>>} \subseteq openFds'
        /\ at' > 4 => Slots({"owned"}) \cap {<<"err", 0>>} \subseteq openFds'
    BY <1>0, <1>1, <1>2, <1>3, KindsDiffer DEF SetUpInv, Stages
  <2>4. pty' = IF at' > 5 /\ opt.pty # "none" THEN "fds" ELSE "none"
    BY <1>0, <1>1 DEF SetUpInv
  <2> QED BY <1>0, <2>1, <2>2, <2>3, <2>4, SameOptions DEF SetUpInv
<1>7. StartInv'
  <2> SUFFICES ASSUME at = 7 PROVE StartInv'
    BY <1>0, <1>1 DEF StartInv, InStart
  <2>1. Slots({"owned"}) \subseteq {<<"in", 0>>, <<"out", 0>>, <<"err", 0>>}
    BY SlotsFacts DEF Slot
  <2>2. made' = made /\ openFds' = openFds /\ pty' = pty
    BY <1>1, <1>2
  <2>3. made' \cup TakenOver \subseteq openFds' \cup StaysOpen
    BY <1>0, <2>1, <2>2, KindsDiffer DEF SetUpInv, StaysOpen
  <2> QED BY <1>0, <1>1, <2>2, <2>3, SameOptions DEF SetUpInv, StartInv
<1>8. RunInv' /\ DoneInv'
  BY <1>1 DEF RunInv, DoneInv
<1>9. ClosedOnce' /\ ForeignKept'
  BY <1>0, <1>1, SameOptions DEF ClosedOnce, ForeignKept, SetUpInv
<1> QED BY <1>4, <1>5, <1>6, <1>7, <1>8, <1>9

\* If __enter__ fails, everything that is closed was open.
LEMMA StepEnterFails ==
  ASSUME IInv, pc = "setup", UNCHANGED <<opt, at, openFds, later, started>>,
         NEW why \in {"setup", "adapter"}, EnterFails(why, pty'),
         made' \subseteq OursFds \cup TheirsFds \cup Slots({"path"}) \cup PtyFds,
         openFds \subseteq made' \cup TakenOver,
         pty' \in {"none", "fds"},
         pty' = "fds" => opt.pty # "none" /\ {Parent, Child} \subseteq made',
         why = "setup" /\ pty' = "none" => made' \cap {Parent, Child} = {}
  PROVE  IInv'
<1> USE DEF IInv
<1>0. closed \in [Fd -> 0..2] /\ closed' \in [Fd -> Nat] /\ started = {} /\ later = {}
      /\ pc' = "done" /\ failed' = why
      /\ \A f \in Fd : /\ closed[f] = 0
                       /\ closed'[f] = IF f \in TakenOver \cup PtyNow(pty', {}) THEN 1 ELSE 0
  BY CloseFacts DEF TypeOK, MadeInv, SetUpInv, EnterFails, Cleanup
<1>1. PtyNow(pty', {}) = IF pty' = "fds" THEN {Parent, Child} ELSE {}
  <2>1. CASE pty' = "none"
    BY <1>0, <2>1, PtyFacts
  <2>2. CASE pty' = "fds"
    <3>1. ChildOnce({}) = {Child}
      BY <1>0, KindsDiffer, PtyFacts
    <3> QED BY <1>0, <2>2, <3>1, PtyFacts
  <2> QED BY <2>1, <2>2
<1>2. TypeOK'
  BY <1>0, KindsDiffer DEF TypeOK, PtyFds
<1>3. MadeInv'
  BY <1>0, SameOptions DEF MadeInv
<1>4. SetUpInv' /\ StartInv' /\ RunInv'
  BY <1>0 DEF SetUpInv, StartInv, InStart, RunInv
<1>5. ClosedOnce'
  BY <1>0 DEF ClosedOnce
<1>6. ForeignKept'
  BY <1>0, <1>1, KindsDiffer, SameOptions DEF ForeignKept
<1>7. DoneInv'
  <2>1. Held' \subseteq IF why = "setup" THEN made' \ {Parent, Child} ELSE made'
    BY <1>0, <1>1, KindsDiffer, SameOptions DEF Held
  <2> QED BY <1>0, <2>1 DEF DoneInv, Leak
<1> QED BY <1>2, <1>3, <1>4, <1>5, <1>6, <1>7

LEMMA StepSetUpFails == IInv /\ SetUpFails => IInv'
<1> SUFFICES ASSUME IInv, SetUpFails PROVE IInv'
  OBVIOUS
<1>0. pc = "setup" /\ UNCHANGED <<opt, at, openFds, later, started>>
      /\ pty' = pty /\ EnterFails("setup", pty')
  BY DEF SetUpFails, EnterFails
<1>1. /\ pty \in {"none", "fds"}
      /\ pty = "fds" => at > 5 /\ opt.pty # "none" /\ {Parent, Child} \subseteq made
      /\ pty = "none" => made \cap {Parent, Child} = {}
      /\ at = 1 => made = {} /\ openFds = {}
      /\ at \in 1..7
  BY <1>0 DEF IInv, SetUpInv, MadeInv
<1>2. CASE made' = made
  <2>1. /\ made' \subseteq OursFds \cup TheirsFds \cup Slots({"path"}) \cup PtyFds
        /\ openFds \subseteq made' \cup TakenOver
    BY <1>2 DEF IInv, MadeInv
  <2> QED BY <1>0, <1>1, <1>2, <2>1, StepEnterFails
<1>3. CASE Stage = "subs"
           /\ \E S \in SUBSET AllSubs :
                made' = {Ours(s) : s \in S} \cup {Theirs(s) : s \in S}
  <2>1. at = 1
    BY <1>1, <1>3 DEF Stage, Stages
  <2>2. made' \subseteq OursFds \cup TheirsFds
    BY <1>3 DEF OursFds, TheirsFds
  <2>3. pty' = "none" /\ made' \cap {Parent, Child} = {} /\ openFds = {}
    BY <1>0, <1>1, <2>1, <2>2, KindsDiffer
  <2> QED BY <1>0, <2>2, <2>3, StepEnterFails
<1> QED BY <1>2, <1>3 DEF SetUpFails

\* The terminal exists, and pty_fds is set or not.
LEMMA StepTerminalFails == IInv /\ (AdapterRaises \/ TtynameFails) => IInv'
<1> SUFFICES ASSUME IInv, AdapterRaises \/ TtynameFails PROVE IInv'
  OBVIOUS
<1>0. pc = "setup" /\ opt.pty # "none" /\ made' = made \cup {Parent, Child}
      /\ UNCHANGED <<opt, at, openFds, later, started>>
  BY DEF AdapterRaises, TtynameFails, EnterFails
<1>1. /\ made' \subseteq OursFds \cup TheirsFds \cup Slots({"path"}) \cup PtyFds
      /\ openFds \subseteq made' \cup TakenOver
  BY <1>0 DEF IInv, MadeInv, PtyFds
<1>2. CASE AdapterRaises
  <2>1. pty' = "none" /\ EnterFails("adapter", pty')
    BY <1>2 DEF AdapterRaises, EnterFails
  <2> QED BY <1>0, <1>1, <2>1, StepEnterFails
<1>3. CASE TtynameFails
  <2>1. pty' = "fds" /\ EnterFails("setup", pty')
    BY <1>3 DEF TtynameFails, EnterFails
  <2> QED BY <1>0, <1>1, <2>1, StepEnterFails
<1> QED BY <1>2, <1>3

\* A stream of the terminal is connected: only pty_fds changes.
LEMMA StepConnected == IInv /\ (ReadConnected \/ WriteConnected) => IInv'
<1> SUFFICES ASSUME IInv, ReadConnected \/ WriteConnected PROVE IInv'
  OBVIOUS
<1> USE DEF IInv
<1>0. /\ UNCHANGED <<opt, at, made, openFds, closed, later, started, failed>>
      /\ pc \in {"openread", "openwrite"}
      /\ pc' = IF pc = "openread" THEN "openwrite" ELSE "yield"
      /\ pty' = IF pc = "openread" THEN pty ELSE "streams"
  BY DEF ReadConnected, WriteConnected
<1>1. pty = "fds" /\ opt.pty # "none"
  BY <1>0 DEF StartInv, InStart
<1>2. TypeOK' /\ MadeInv'
  <2>1. later = {} /\ started = {}
    BY <1>0 DEF MadeInv
  <2> QED BY <1>0, <1>1, <2>1, SameOptions DEF TypeOK, MadeInv
<1>3. SetUpInv' /\ RunInv' /\ DoneInv'
  BY <1>0 DEF SetUpInv, RunInv, DoneInv
<1>4. StartInv'
  BY <1>0, <1>1, SameOptions DEF StartInv, InStart
<1>5. ClosedOnce' /\ ForeignKept'
  BY <1>0, SameOptions DEF ClosedOnce, ForeignKept
<1> QED BY <1>2, <1>3, <1>4, <1>5

\* A launch that fails closes all but what it leaves to a transport or leaks.
LEMMA StepStartFails ==
  ASSUME IInv, WriteFails \/ SpawnFails, failed' # "kill"
  PROVE  IInv'
<1> USE DEF IInv
<1> DEFINE S == openFds \cup CleanupSubs
           T == S \cup PtyNow(pty, S)
<1>0. /\ UNCHANGED <<opt, at, made, pty, started>> /\ InStart
      /\ pc' = "done" /\ openFds' = {} /\ Close(T)
      /\ failed' = IF pc = "openwrite" THEN "openwrite" ELSE "spawn"
      /\ later' = PtyLater(pty) \cup IF pc = "openwrite" THEN {Parent} ELSE {}
  <2>1. CASE WriteFails
    <3>1. pc = "openwrite" /\ pty = "fds"
      BY <2>1 DEF WriteFails, StartInv, InStart
    <3> QED BY <2>1, <3>1 DEF WriteFails, InStart, PtyLater
  <2>2. CASE SpawnFails
    BY <2>2 DEF SpawnFails, ClosesTerminal, InStart
  <2> QED BY <2>1, <2>2
<1>1. /\ closed \in [Fd -> 0..2] /\ closed' \in [Fd -> Nat] /\ started = {}
      /\ made \cup TakenOver \subseteq Fd
      /\ pty = IF opt.pty = "none" THEN "none" ELSE IF pc = "yield" THEN "streams" ELSE "fds"
      /\ \A f \in Fd : closed'[f] = IF f \in T THEN closed[f] + 1 ELSE closed[f]
      /\ \A f \in Fd \ {Child} : closed[f] = 0
      /\ closed[Child] \in 0..1 /\ (closed[Child] # 0 => opt.pty = "freebsd")
  <2>1. started = {} /\ made \cup TakenOver \subseteq Fd
    BY <1>0, KindsDiffer DEF TypeOK, MadeInv, InStart
  <2>2. closed \in [Fd -> 0..2] /\ Child \in Fd
    BY KindsDiffer DEF TypeOK
  <2>3. /\ closed' \in [Fd -> Nat]
        /\ \A f \in Fd : closed'[f] = IF f \in T THEN closed[f] + 1 ELSE closed[f]
    <3> HIDE DEF T
    <3> QED BY <1>0, <2>2, CloseFacts
  <2>4. /\ pty = IF opt.pty = "none" THEN "none" ELSE IF pc = "yield" THEN "streams" ELSE "fds"
        /\ \A f \in Fd \ {Child} : closed[f] = 0
        /\ closed[Child] \in 0..1 /\ (closed[Child] # 0 => opt.pty = "freebsd")
    BY <1>0, <2>2 DEF StartInv
  <2> QED BY <2>1, <2>2, <2>3, <2>4
<1>2. /\ S \subseteq (made \cup TakenOver) \ Given
      /\ Parent \notin S
      /\ Child \in S => opt.pty = "linux"
  BY <1>0, KindsDiffer, CleanupSubsFacts DEF MadeInv, StartInv, ChildFor
<1>3. /\ pty # "none" => {Parent, Child} \subseteq made
      /\ pty = "none" => {Parent, Child} \cap made = {}
  BY <1>1, KindsDiffer DEF MadeInv, PtyFds
<1>4. /\ T \subseteq (made \cup TakenOver) \ Given
      /\ Child \in T => closed[Child] = 0
      /\ Parent \in T => pty = "fds"
      /\ later' = IF pty = "streams" \/ pc = "openwrite" THEN {Parent} ELSE {}
      /\ pty # "none" => Parent \in T \cup later' /\ (Child \in T \/ closed[Child] # 0)
  <2>1. CASE pty = "none"
    BY <1>0, <1>1, <1>2, <2>1, PtyFacts DEF StartInv
  <2>2. CASE pty = "fds"
    BY <1>0, <1>1, <1>2, <1>3, <2>2, PtyFacts, KindsDiffer
  <2>3. CASE pty = "streams"
    BY <1>0, <1>1, <1>2, <1>3, <2>3, PtyFacts, KindsDiffer
  <2> QED BY <1>1, <2>1, <2>2, <2>3
<1> HIDE DEF T
<1>5. ClosedOnce'
  <2> SUFFICES ASSUME NEW f \in Fd
               PROVE  closed'[f] + (IF f \in later' THEN 1 ELSE 0) <=
                        IF f = Parent /\ failed' = "openwrite" THEN 2 ELSE 1
    BY DEF ClosedOnce
  <2>1. CASE f = Parent
    BY <1>0, <1>1, <1>4, <2>1, KindsDiffer
  <2>2. CASE f = Child
    BY <1>1, <1>4, <2>2, KindsDiffer
  <2>3. CASE f \notin {Parent, Child}
    BY <1>1, <1>4, <2>3
  <2> QED BY <2>1, <2>2, <2>3
<1>6. TypeOK'
  <2>1. \A f \in Fd : closed'[f] \in 0..2
    BY <1>0, <1>1, <1>5 DEF ClosedOnce
  <2>2. later' \subseteq Fd
    BY <1>4, KindsDiffer
  <2> QED BY <1>0, <1>1, <2>1, <2>2 DEF TypeOK
<1>7. MadeInv'
  BY <1>0, <1>1, <1>3, <1>4, SameOptions DEF MadeInv, StartInv
<1>8. SetUpInv' /\ StartInv' /\ RunInv'
  BY <1>0 DEF SetUpInv, StartInv, InStart, RunInv
<1>9. ForeignKept'
  <2>1. \A f \in Fd : closed'[f] > 0 => f \in T \/ closed[f] > 0
    BY <1>1
  <2> QED BY <1>0, <1>4, <2>1, SameOptions DEF ForeignKept
<1>10. DoneInv'
  <2>1. Held' = {f \in made \cup TakenOver : closed'[f] = 0}
    BY <1>0, SameOptions DEF Held
  <2>2. ASSUME NEW f \in Held'
        PROVE  f \in later' \cup Slots({"ownedfile"}) \cup {Theirs(s) : s \in Subs({"wpipe"})}
    <3>1. f \in made \cup TakenOver /\ f \in Fd /\ f \notin T /\ closed[f] = 0
      BY <1>1, <2>1, <2>2
    <3>2. f \in StaysOpen /\ f \notin CleanupSubs
      BY <1>0, <3>1 DEF StartInv, T
    <3>3. f \notin {Parent, Child} \/ f \in later'
      BY <1>1, <1>3, <1>4, <3>1, KindsDiffer
    <3> QED BY <3>2, <3>3, CleanupSubsFacts DEF StaysOpen, BsdChild
  <2> QED BY <1>0, <2>2, SameOptions DEF DoneInv, Leak
<1> QED BY <1>5, <1>6, <1>7, <1>8, <1>9, <1>10

\* The launch closes open_fds, and the process substitutions own their pipes.
LEMMA StepLaunched == IInv /\ Launched => IInv'
<1> SUFFICES ASSUME IInv, Launched PROVE IInv'
  OBVIOUS
<1> USE DEF IInv
<1>0. /\ UNCHANGED <<opt, at, made, pty, later, failed>>
      /\ pc = "yield" /\ pc' = "running" /\ openFds' = {} /\ Close(openFds)
      /\ started' = AllSubs
  BY DEF Launched
<1>1. /\ closed \in [Fd -> 0..2] /\ closed' \in [Fd -> Nat] /\ later = {}
      /\ made \cup TakenOver \subseteq Fd
      /\ \A f \in Fd : closed'[f] = IF f \in openFds THEN closed[f] + 1 ELSE closed[f]
      /\ \A f \in Fd : closed[f] # 0 => f = Child /\ opt.pty = "freebsd" /\ closed[f] = 1
      /\ pty = IF opt.pty = "none" THEN "none" ELSE "streams"
  <2>1. closed \in [Fd -> 0..2] /\ made \cup TakenOver \subseteq Fd /\ later = {}
    BY <1>0, KindsDiffer DEF TypeOK, MadeInv
  <2>2. /\ closed' \in [Fd -> Nat]
        /\ \A f \in Fd : closed'[f] = IF f \in openFds THEN closed[f] + 1 ELSE closed[f]
    BY <1>0, <2>1, CloseFacts
  <2>3. \A f \in Fd : closed[f] # 0 => f = Child /\ opt.pty = "freebsd" /\ closed[f] = 1
    BY <1>0 DEF StartInv, InStart
  <2>4. pty = IF opt.pty = "none" THEN "none" ELSE "streams"
    BY <1>0 DEF StartInv, InStart
  <2> QED BY <2>1, <2>2, <2>3, <2>4
<1>2. /\ openFds \subseteq (made \cup TakenOver) \ Given
      /\ Parent \notin openFds
      /\ Child \in openFds => opt.pty = "linux"
  BY KindsDiffer DEF MadeInv, ChildFor
<1>3. \A f \in Fd : closed'[f] \in 0..1
  BY <1>1, <1>2
<1>4. TypeOK'
  BY <1>0, <1>1, <1>3 DEF TypeOK, AllSubs, Subs
<1>5. TheirsFds \subseteq made /\ {Theirs(s) : s \in started'} = TheirsFds
      /\ failed = "no"
  BY <1>0 DEF StartInv, InStart, TheirsFds
<1>6. MadeInv'
  BY <1>0, <1>1, <1>5, SameOptions DEF MadeInv
<1>7. SetUpInv' /\ StartInv' /\ DoneInv'
  BY <1>0 DEF SetUpInv, StartInv, InStart, DoneInv
<1>8. ClosedOnce'
  BY <1>0, <1>1, <1>3 DEF ClosedOnce
<1>9. ForeignKept'
  BY <1>0, <1>1, <1>2, SameOptions DEF ForeignKept
<1>10. RunInv'
  <2>1. Held' \subseteq StaysOpen
    BY <1>0, <1>1, SameOptions DEF Held, StartInv, InStart
  <2>2. closed'[Parent] = 0
    BY <1>1, <1>2, KindsDiffer
  <2> QED BY <1>0, <1>1, <1>5, <2>1, <2>2, SameOptions DEF RunInv, StartInv, InStart
<1> QED BY <1>4, <1>6, <1>7, <1>8, <1>9, <1>10

\* If _start fails and _kill as well, the terminal stays open.
LEMMA StepKillRaises ==
  ASSUME IInv, UNCHANGED <<opt, at, made, pty, started>>, NEW S, Close(S),
         \/ pc = "yield" /\ S = openFds \cup CleanupSubs /\ openFds' = {}
         \/ pc = "running" /\ S = {} /\ openFds' = openFds,
         pc' = "done", failed' = "kill", later' = {}
  PROVE  IInv'
<1> USE DEF IInv
<1>1. /\ closed \in [Fd -> 0..2] /\ closed' \in [Fd -> Nat] /\ made \cup TakenOver \subseteq Fd
      /\ \A f \in Fd : closed'[f] = IF f \in S THEN closed[f] + 1 ELSE closed[f]
      /\ \A f \in Fd : closed[f] \in 0..1
      /\ later = {} /\ failed = "no"
  <2>1. later = {} /\ failed = "no"
    BY DEF MadeInv, StartInv, InStart, RunInv
  <2>2. closed \in [Fd -> 0..2] /\ made \cup TakenOver \subseteq Fd
    BY KindsDiffer DEF TypeOK
  <2> QED BY <2>1, <2>2, CloseFacts DEF ClosedOnce
<1>2. /\ S \subseteq (made \cup TakenOver) \ Given
      /\ \A f \in Fd : f \in S => closed[f] = 0
  <2>1. CASE pc = "running"
    BY <2>1
  <2>2. CASE pc = "yield"
    <3>1. S \subseteq (made \cup TakenOver) \ Given /\ (Child \in S => opt.pty = "linux")
      BY <2>2, KindsDiffer, CleanupSubsFacts DEF MadeInv, StartInv, InStart, ChildFor
    <3>2. \A f \in Fd : closed[f] # 0 => f = Child /\ opt.pty = "freebsd"
      BY <2>2 DEF StartInv, InStart
    <3> QED BY <3>1, <3>2
  <2> QED BY <2>1, <2>2
<1>3. \A f \in Fd : closed'[f] \in 0..1
  BY <1>1, <1>2
<1>4. TypeOK'
  BY <1>1, <1>3 DEF TypeOK
<1>5. MadeInv'
  BY <1>1, SameOptions DEF MadeInv
<1>6. SetUpInv' /\ StartInv' /\ RunInv'
  BY DEF SetUpInv, StartInv, InStart, RunInv
<1>7. ClosedOnce'
  BY <1>3 DEF ClosedOnce
<1>8. ForeignKept'
  <2>1. \A f \in Fd : closed'[f] > 0 => f \in S \/ closed[f] > 0
    BY <1>1
  <2> QED BY <1>2, <2>1, SameOptions DEF ForeignKept
<1>9. DoneInv'
  <2>1. ASSUME NEW f \in Held'
        PROVE  f \in {Theirs(s) : s \in started} \cup {Parent} \cup BsdChild
                     \cup Slots({"ownedfile"}) \cup Ownerless
    <3>1. f \in made \cup TakenOver /\ f \in Fd /\ f \notin S /\ closed[f] = 0
      BY <1>1, <2>1, SameOptions DEF Held
    <3>2. CASE pc = "running"
      <4>1. f \in StaysOpen
        BY <3>1, <3>2 DEF RunInv, Held
      <4> QED BY <3>2, <4>1 DEF StaysOpen, RunInv
    <3>3. CASE pc = "yield"
      <4>1. f \in StaysOpen /\ f \notin CleanupSubs /\ started = {}
        BY <3>1, <3>3 DEF StartInv, InStart, MadeInv
      <4> QED BY <4>1, CleanupSubsFacts DEF StaysOpen
    <3> QED BY <3>2, <3>3
  <2>2. Leak' = {Parent} \cup BsdChild \cup Slots({"ownedfile"}) \cup Ownerless
    BY SameOptions DEF Leak
  <2> QED BY <2>1, <2>2 DEF DoneInv
<1> QED BY <1>4, <1>5, <1>6, <1>7, <1>8, <1>9

LEMMA StepSpawnFails == IInv /\ (WriteFails \/ SpawnFails) => IInv'
<1> SUFFICES ASSUME IInv, WriteFails \/ SpawnFails, failed' = "kill" PROVE IInv'
  BY StepStartFails
<1>1. /\ UNCHANGED <<opt, at, made, pty, started>> /\ openFds' = {}
      /\ Close(openFds \cup CleanupSubs) /\ pc = "yield"
      /\ pc' = "done" /\ later' = {}
  <2>1. SpawnFails /\ pc = "yield"
    BY DEF WriteFails, SpawnFails, ClosesTerminal
  <2>2. /\ UNCHANGED <<opt, at, made, pty, started>> /\ openFds' = {} /\ pc' = "done"
        /\ ClosesTerminal(openFds \cup CleanupSubs, pty, "kill")
    BY <2>1 DEF SpawnFails, ClosesTerminal
  <2>3. (openFds \cup CleanupSubs) \cup {} = openFds \cup CleanupSubs
    OBVIOUS
  <2> QED BY <2>1, <2>2, <2>3 DEF ClosesTerminal
<1> QED BY <1>1, StepKillRaises

\* The end of the run closes the terminal, or leaves its parent side to the transport.
LEMMA StepRunEnds == IInv /\ RunEnds => IInv'
<1>k. ASSUME IInv, RunEnds, failed' = "kill" PROVE IInv'
  <2>1. /\ UNCHANGED <<opt, at, made, openFds, pty, started>> /\ Close({})
        /\ pc = "running" /\ pc' = "done" /\ later' = {}
    <3>1. /\ UNCHANGED <<opt, at, made, openFds, pty, started>>
          /\ pc = "running" /\ pc' = "done" /\ ClosesTerminal({}, pty, "kill")
      BY <1>k DEF RunEnds, ClosesTerminal
    <3>2. {} \cup {} = {}
      OBVIOUS
    <3> QED BY <3>1, <3>2 DEF ClosesTerminal
  <2> QED BY <1>k, <2>1, StepKillRaises
<1> SUFFICES ASSUME IInv, RunEnds, failed' # "kill" PROVE IInv'
  BY <1>k
<1> USE DEF IInv
<1>0. /\ UNCHANGED <<opt, at, made, openFds, pty, started, failed>>
      /\ pc = "running" /\ pc' = "done"
      /\ Close(PtyNow(pty, {})) /\ later' = PtyLater(pty)
  <2>1. /\ UNCHANGED <<opt, at, made, openFds, pty, started>>
        /\ pc = "running" /\ pc' = "done" /\ ClosesTerminal({}, pty, "no")
    BY DEF RunEnds, ClosesTerminal
  <2>2. {} \cup PtyNow(pty, {}) = PtyNow(pty, {})
    OBVIOUS
  <2>3. failed = "no"
    BY <2>1 DEF RunInv
  <2> QED BY <2>1, <2>2, <2>3 DEF ClosesTerminal
<1>1. /\ closed \in [Fd -> 0..2] /\ closed' \in [Fd -> Nat] /\ later = {}
      /\ made \cup TakenOver \subseteq Fd /\ Child \in Fd /\ Parent \in Fd
      /\ failed = "no" /\ closed[Parent] = 0
      /\ pty = IF opt.pty = "none" THEN "none" ELSE "streams"
      /\ \A f \in Fd : closed'[f] = IF f \in PtyNow(pty, {}) THEN closed[f] + 1 ELSE closed[f]
  BY <1>0, CloseFacts, KindsDiffer DEF TypeOK, MadeInv, RunInv
<1>2. /\ pty # "none" => {Parent, Child} \subseteq made
      /\ pty = "none" => {Parent, Child} \cap made = {}
  BY <1>1, KindsDiffer DEF MadeInv, PtyFds
<1>3. /\ PtyNow(pty, {}) \subseteq {Child} \cap made
      /\ Child \in PtyNow(pty, {}) => closed[Child] = 0
      /\ pty # "none" => Child \in PtyNow(pty, {}) \/ closed[Child] # 0
      /\ later' = IF pty = "none" THEN {} ELSE {Parent}
  <2>1. CASE pty = "none"
    BY <1>0, <1>1, <2>1, PtyFacts
  <2>2. CASE pty = "streams"
    <3>1. /\ PtyNow(pty, {}) = ChildOnce({}) /\ PtyLater(pty) = {Parent}
          /\ ChildOnce({}) \subseteq {Child}
          /\ closed[Child] # 0 => ChildOnce({}) = {}
          /\ closed[Child] = 0 => Child \in ChildOnce({})
      BY <1>1, <2>2, PtyFacts
    <3> QED BY <1>0, <1>2, <2>2, <3>1
  <2> QED BY <1>1, <2>1, <2>2
<1>4. \A f \in Fd : closed[f] \in 0..1
  BY <1>1 DEF ClosedOnce
<1>5. ClosedOnce'
  <2> SUFFICES ASSUME NEW f \in Fd
               PROVE  closed'[f] + (IF f \in later' THEN 1 ELSE 0) <= 1
    BY <1>0, <1>1 DEF ClosedOnce
  <2> QED BY <1>1, <1>3, <1>4, KindsDiffer
<1>6. TypeOK'
  <2>1. \A f \in Fd : closed'[f] \in 0..2
    BY <1>1, <1>4
  <2> QED BY <1>0, <1>1, <1>3, <2>1 DEF TypeOK
<1>7. MadeInv'
  BY <1>0, <1>1, <1>2, <1>3, SameOptions DEF MadeInv
<1>8. SetUpInv' /\ StartInv' /\ RunInv'
  BY <1>0 DEF SetUpInv, StartInv, InStart, RunInv
<1>9. ForeignKept'
  <2>1. \A f \in Fd : closed'[f] > 0 => f \in {Child} \cap made \/ closed[f] > 0
    BY <1>1, <1>3
  <2>2. Child \notin Given
    BY KindsDiffer
  <2> QED BY <1>0, <2>1, <2>2, SameOptions DEF ForeignKept
<1>10. DoneInv'
  <2>1. ASSUME NEW f \in Held'
        PROVE  f \in later' \cup Slots({"ownedfile"}) \cup {Theirs(s) : s \in started}
                     \cup Ownerless
    <3>1. f \in made \cup TakenOver /\ f \in Fd /\ f \notin PtyNow(pty, {}) /\ closed[f] = 0
      BY <1>0, <1>1, <2>1, SameOptions DEF Held
    <3>2. f \in StaysOpen
      BY <1>0, <3>1 DEF RunInv, Held
    <3>3. f \notin {Parent, Child} \/ f \in later'
      BY <1>1, <1>2, <1>3, <3>1, KindsDiffer
    <3>4. f \notin BsdChild \/ f = Child
      BY DEF BsdChild
    <3> QED BY <1>0, <3>2, <3>3, <3>4 DEF StaysOpen, RunInv
  <2> QED BY <1>0, <1>1, <2>1, SameOptions DEF DoneInv, Leak
<1> QED BY <1>5, <1>6, <1>7, <1>8, <1>9, <1>10

\* Somebody else closes a descriptor that was made and is still open.
LEMMA StepOneClosed ==
  ASSUME IInv, UNCHANGED <<opt, pc, at, made, openFds, pty, later, started, failed>>,
         NEW f \in made \ {Parent}, closed[f] = 0, Close({f}),
         pc # "setup", InStart => f = Child /\ opt.pty = "freebsd"
  PROVE  IInv'
<1> USE DEF IInv
<1>1. /\ closed \in [Fd -> 0..2] /\ closed' \in [Fd -> Nat] /\ made \cup TakenOver \subseteq Fd
      /\ \A g \in Fd : closed'[g] = IF g = f THEN 1 ELSE closed[g]
      /\ f \notin Given /\ f \notin later /\ f # Parent /\ Parent \in Fd /\ Parent \notin Given
  <2>1. closed \in [Fd -> 0..2] /\ f \in Fd /\ later \subseteq {Parent}
    BY DEF TypeOK, MadeInv
  <2>2. f \notin Given
    BY KindsDiffer DEF MadeInv, PtyFds
  <2> QED BY <2>1, <2>2, CloseFacts, KindsDiffer DEF TypeOK
<1>2. Held' \subseteq Held
  BY <1>1, SameOptions DEF Held
<1>3. TypeOK'
  <2>1. \A g \in Fd : closed'[g] \in 0..2
    BY <1>1
  <2> QED BY <1>1, <2>1 DEF TypeOK
<1>4. MadeInv'
  BY SameOptions DEF MadeInv
<1>5. SetUpInv'
  BY DEF SetUpInv
<1>6. StartInv'
  <2> SUFFICES ASSUME InStart PROVE StartInv'
    BY DEF StartInv, InStart
  <2>1. \A g \in Fd : \/ closed'[g] = 0
                      \/ g = Child /\ opt.pty = "freebsd" /\ closed'[g] = 1
    BY <1>1 DEF StartInv
  <2> QED BY <2>1, SameOptions DEF StartInv
<1>7. RunInv'
  BY <1>1, <1>2, SameOptions DEF RunInv
<1>8. DoneInv'
  BY <1>2, SameOptions DEF DoneInv, Leak
<1>9. ClosedOnce'
  BY <1>1 DEF ClosedOnce
<1>10. ForeignKept'
  BY <1>1, SameOptions DEF ForeignKept
<1> QED BY <1>3, <1>4, <1>5, <1>6, <1>7, <1>8, <1>9, <1>10

LEMMA StepSubCloses == ASSUME IInv, NEW s \in Sub, SubCloses(s) PROVE IInv'
<1>1. /\ UNCHANGED <<opt, pc, at, made, openFds, pty, later, started, failed>>
      /\ s \in started /\ closed[Theirs(s)] = 0 /\ Close({Theirs(s)})
  BY DEF SubCloses
<1>2. pc \in {"running", "done"} /\ Theirs(s) \in made
  BY <1>1 DEF IInv, MadeInv
<1>3. Theirs(s) # Parent /\ ~InStart
  BY <1>2, FdsDiffer DEF InStart
<1> QED BY <1>1, <1>2, <1>3, StepOneClosed

\* A pipeline that runs no command leaves its redirection to nobody.
LEMMA StepSubFails == ASSUME IInv, NEW s \in Sub, SubFails(s) PROVE IInv'
<1> USE DEF IInv
<1>0. /\ UNCHANGED <<opt, pc, at, made, openFds, pty, closed, later, failed>>
      /\ s \in started /\ started' = started \ {s} /\ s \in Subs({"pipe", "wpipe"})
      /\ pc \in {"running", "done"} /\ failed \in {"no", "kill"}
  BY DEF SubFails, MadeInv
<1>1. {Theirs(t) : t \in started} \cup Ownerless
        \subseteq {Theirs(t) : t \in started'} \cup Ownerless'
  BY <1>0, SameOptions DEF Ownerless
<1>2. TypeOK' /\ MadeInv'
  BY <1>0, SameOptions DEF TypeOK, MadeInv
<1>3. SetUpInv' /\ StartInv'
  BY <1>0 DEF SetUpInv, StartInv, InStart
<1>4. Held' = Held
  BY <1>0, SameOptions DEF Held
<1>5. RunInv'
  BY <1>0, <1>1, <1>4, SameOptions DEF RunInv
<1>6. DoneInv'
  <2> SUFFICES ASSUME pc = "done" PROVE DoneInv'
    BY <1>0 DEF DoneInv
  <2>1. CASE failed = "no"
    BY <1>0, <1>1, <1>4, <2>1, SameOptions DEF DoneInv, Leak
  <2>2. CASE failed = "kill"
    BY <1>0, <1>1, <1>4, <2>2, SameOptions DEF DoneInv, Leak
  <2> QED BY <1>0, <2>1, <2>2
<1>7. ClosedOnce' /\ ForeignKept'
  BY <1>0, SameOptions DEF ClosedOnce, ForeignKept
<1> QED BY <1>2, <1>3, <1>5, <1>6, <1>7

LEMMA StepDataReceived == IInv /\ DataReceived => IInv'
<1> SUFFICES ASSUME IInv, DataReceived PROVE IInv'
  OBVIOUS
<1>1. /\ UNCHANGED <<opt, pc, at, made, openFds, pty, later, started, failed>>
      /\ closed[Child] = 0 /\ Close({Child}) /\ opt.pty # "none"
      /\ pc \in {"openwrite", "yield", "running"}
      /\ pc # "running" => opt.pty = "freebsd"
  BY DEF DataReceived
<1>2. pty # "none"
  BY <1>1 DEF IInv, StartInv, InStart, RunInv
<1>3. Child \in made \ {Parent}
  BY <1>2, KindsDiffer DEF IInv, MadeInv
<1> QED BY <1>1, <1>3, StepOneClosed DEF InStart

\* A close that was announced happens.
LEMMA StepTransportCloses == IInv /\ TransportCloses => IInv'
<1> SUFFICES ASSUME IInv, TransportCloses PROVE IInv'
  OBVIOUS
<1> USE DEF IInv
<1>0. /\ UNCHANGED <<opt, pc, at, made, openFds, pty, started, failed>>
      /\ Close(later) /\ later' = {} /\ later = {Parent} /\ pc = "done" /\ Parent \in made
  BY DEF TransportCloses, MadeInv
<1>1. /\ closed \in [Fd -> 0..2] /\ closed' \in [Fd -> Nat] /\ made \cup TakenOver \subseteq Fd
      /\ \A g \in Fd : closed'[g] = IF g = Parent THEN closed[g] + 1 ELSE closed[g]
      /\ Parent \notin Given
  BY <1>0, CloseFacts, KindsDiffer DEF TypeOK
<1>2. ClosedOnce'
  <2> SUFFICES ASSUME NEW f \in Fd
               PROVE  closed'[f] <= IF f = Parent /\ failed = "openwrite" THEN 2 ELSE 1
    BY <1>0, <1>1 DEF ClosedOnce
  <2>1. closed[f] + (IF f \in later THEN 1 ELSE 0)
          <= IF f = Parent /\ failed = "openwrite" THEN 2 ELSE 1
    BY DEF ClosedOnce
  <2> QED BY <1>0, <1>1, <2>1
<1>3. TypeOK'
  <2>1. \A g \in Fd : closed'[g] \in 0..2
    BY <1>0, <1>1, <1>2 DEF ClosedOnce
  <2> QED BY <1>0, <1>1, <2>1 DEF TypeOK
<1>4. MadeInv'
  BY <1>0, SameOptions DEF MadeInv
<1>5. SetUpInv' /\ StartInv' /\ RunInv'
  BY <1>0 DEF SetUpInv, StartInv, InStart, RunInv
<1>6. DoneInv'
  <2>1. Held' \subseteq Held \ {Parent}
    BY <1>0, <1>1, SameOptions DEF Held
  <2> QED BY <1>0, <2>1, SameOptions DEF DoneInv, Leak
<1>7. ForeignKept'
  BY <1>0, <1>1, SameOptions DEF ForeignKept
<1> QED BY <1>2, <1>3, <1>4, <1>5, <1>6, <1>7

\* A step that changes nothing.
LEMMA StepStutters == IInv /\ UNCHANGED vars => IInv'
<1> SUFFICES ASSUME IInv, UNCHANGED vars PROVE IInv'
  OBVIOUS
<1>1. TypeOK' /\ ClosedOnce' /\ ForeignKept'
  BY SameOptions DEF IInv, TypeOK, ClosedOnce, ForeignKept, vars
<1>2. MadeInv' /\ SetUpInv' /\ StartInv'
  BY SameOptions DEF IInv, MadeInv, SetUpInv, StartInv, InStart, vars
<1>3. RunInv' /\ DoneInv'
  <2>1. Held' = Held /\ Leak' = Leak
    BY SameOptions DEF Held, Leak, vars
  <2> QED BY <2>1, SameOptions DEF IInv, RunInv, DoneInv, vars
<1> QED BY <1>1, <1>2, <1>3 DEF IInv

LEMMA Steps == IInv /\ [Next]_vars => IInv'
BY StepSetUp, StepSetUpFails, StepTerminalFails, StepConnected, StepSpawnFails,
   StepLaunched, StepRunEnds, StepSubCloses, StepSubFails, StepDataReceived,
   StepTransportCloses, StepStutters DEF Next

LEMMA Inductive == Spec => []IInv
BY Starts, Steps, PTL DEF Spec

----------------------------------------------------------------------------
(* The theorems.                                                           *)

\* Every variable has its type in every reachable state; so no counter of closes
\* exceeds 2.
THEOREM TypeCorrect == Spec => []TypeOK
<1>1. IInv => TypeOK
  BY DEF IInv
<1> QED BY <1>1, Inductive, PTL

\* _cleanup, __exit__, PtyFds.close, the process substitutions, and the transports never
\* close a descriptor twice between them, but for a cancelled open_streams.
THEOREM ClosesOnce == Spec => []ClosedOnce
<1>1. IInv => ClosedOnce
  BY DEF IInv
<1> QED BY <1>1, Inductive, PTL

\* What the caller keeps is never closed.
THEOREM KeepsForeign == Spec => []ForeignKept
<1>1. IInv => ForeignKept
  BY DEF IInv
<1> QED BY <1>1, Inductive, PTL

\* Nothing that the process is to inherit is closed before the launch.
THEOREM KeepsForLaunch == Spec => []KeptForLaunch
<1>1. IInv => KeptForLaunch
  BY DEF IInv, KeptForLaunch, SetUpInv, StartInv, InStart
<1> QED BY <1>1, Inductive, PTL

\* A running command hides no end of file: this process has closed all it does not need.
THEOREM ShowsEndOfFile == Spec => []EndOfFileSeen
<1>1. IInv => EndOfFileSeen
  BY DEF IInv, EndOfFileSeen, RunInv, StaysOpen
<1> QED BY <1>1, Inductive, PTL

\* After the run nothing is open but what the comment of NothingLeaks lists.
THEOREM LeaksNothing == Spec => []NothingLeaks
<1>1. IInv => NothingLeaks
  <2> SUFFICES ASSUME IInv, Settled PROVE NothingLeaks
    BY DEF NothingLeaks
  <2>1. /\ pc = "done" /\ later = {}
        /\ \A s \in started : Theirs(s) \notin Held
    BY DEF Settled, Held
  <2>2. Held \subseteq Leak
    BY <2>1 DEF IInv, DoneInv
  <2>3. failed \in {"no", "setup", "adapter", "openwrite", "spawn", "kill"}
    BY DEF IInv, TypeOK
  <2> QED BY <2>2, <2>3 DEF NothingLeaks, Leak
<1> QED BY <1>1, Inductive, PTL

=============================================================================
