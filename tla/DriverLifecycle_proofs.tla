----------------------- MODULE DriverLifecycle_proofs -----------------------
(***************************************************************************)
(* What is proved of DriverLifecycle.tla, for any number of files.  Each   *)
(* property holds for every driver whose scripts meet a condition, which   *)
(* says what the order of its requests and of what it gives back has to    *)
(* be; at the end, that the scripts of DriverScripts.tla meet them.        *)
(***************************************************************************)
EXTENDS MCDriverLifecycle, TLAPS

Entries == {"chrdev", "cdev", "class", "device", "driver", "client"}
Things == Names \cup Aliases

\* What is named in a sequence; what the requests before the k-th have obtained.
Set(q) == {q[i] : i \in 1..Len(q)}
Got(a, k) == {a[i].res : i \in 1..(k - 1)} \ {"check"}
All(a) == Got(a, Len(a) + 1)
Distinct(q) == \A i, j \in 1..Len(q) : q[i] = q[j] => i = j

\* Each map is given back after the interrupt.
Guarded(q) == \A i \in 1..Len(q) : q[i] \in Maps => \E j \in 1..(i - 1) : q[j] = "irqOfIsr"

\* The class is given back after the device.
ClassLast(q) == \A i, j \in 1..Len(q) : q[i] = "class" /\ q[j] = "device" => j < i

-----------------------------------------------------------------------------
(* Conditions on the scripts of a driver *)

\* What init has registered is undone by each of its error paths and by exit, and the
\* probe registers nothing.
Undoes(s) ==
  /\ \A k \in 1..Len(s.init) : \A u \in s.init[k].undo : Got(s.init, k) \cap Entries \subseteq Set(u)
  /\ All(s.init) \cap Entries \subseteq Set(s.exit)
  /\ All(s.probe) \cap Entries = {}

\* Between them exit and remove give back everything, but for the adapter and for
\* an interrupt that is named by its handler.
Exception(r, q) == r = "adapter" \/ (r = "irq" /\ "irqOfIsr" \in q)
Clears(s) ==
  /\ "driver" \in Set(s.exit) /\ Set(s.remove) \cap {"class", "device"} = {}
  /\ ClassLast(s.exit) /\ ("device" \in Set(s.exit) => "class" \in All(s.init))
  /\ \A r \in All(s.init) : r \in Set(s.exit) \/ r = "adapter"
  /\ \A r \in All(s.probe) :
       r \in Set(s.exit) \cup Set(s.remove) \/ Exception(r, Set(s.remove))

\* exit gives back what init has obtained, remove what the probe has, and each once.
Owns(s) ==
  /\ Set(s.exit) \subseteq All(s.init) /\ Distinct(s.exit)
  /\ ClassLast(s.exit) /\ ("device" \in Set(s.exit) => "class" \in Set(s.exit))
  /\ Set(s.remove) \subseteq All(s.probe) \cup {"irqOfIsr"} /\ Distinct(s.remove)
  /\ Set(s.remove) \cap Set(s.exit) = {} /\ Set(s.remove) \cap {"class", "device"} = {}

\* Neither goes on without what was refused, and an error path gives back, once,
\* what its function had obtained until then: the device only that of the last request.
Tidy(s) ==
  /\ \A k \in 1..Len(s.init) :
       /\ ~s.init[k].goOn
       /\ \A u \in s.init[k].undo :
            /\ Distinct(u) /\ Set(u) \subseteq Got(s.init, k) \cup {"irqOfIsr"}
            /\ "device" \in Set(u) => s.init[k].res = "driver"
  /\ \A k \in 1..Len(s.probe) :
       /\ ~s.probe[k].goOn
       /\ \A u \in s.probe[k].undo : /\ Distinct(u) /\ Set(u) \cap (Set(s.exit) \cup {"device"}) = {}
                                     /\ Set(u) \subseteq Got(s.probe, k) \cup {"irqOfIsr"}

\* The interrupt is the last thing the probe asks for and the first remove gives back.
IrqLast(s) ==
  /\ "irq" \notin All(s.init)
  /\ \A k \in 1..Len(s.probe) : ~s.probe[k].goOn /\ (s.probe[k].res = "irq" => k = Len(s.probe))
  /\ Guarded(s.remove) /\ Set(s.exit) \cap Maps = {}

-----------------------------------------------------------------------------
(* The invariants *)

UndoneInv == Undoes(Scripts) =>
  /\ phase = "init" => held \cap Entries \subseteq Got(Scripts.init, step)
  /\ phase \in {"initFails", "exit"} =>
       held \cap Entries \subseteq Set(todo) \cup ({"device"} \cap stray)
  /\ phase \in {"loaded", "probe", "probeFails"} => held \cap Entries \subseteq All(Scripts.init)
  /\ phase = "unloaded" => held \cap Entries \subseteq {"device"} \cap stray

\* The device is looked up while its class is there.
ByClass == ClassLast(todo) /\ ("device" \in Set(todo) => "class" \in held)

\* What is still to be given back, with what remove adds to it.
Coming == IF bound THEN Set(todo) \cup Set(Scripts.remove) ELSE Set(todo)

ClearInv == Clears(Scripts) /\ ~refused =>
  /\ phase \notin {"initFails", "probeFails"}
  /\ phase = "init" => held = Got(Scripts.init, step) /\ ~bound
  /\ phase = "probe" => held = All(Scripts.init) \cup Got(Scripts.probe, step) /\ ~bound
  /\ phase = "loaded" => IF bound THEN held = All(Scripts.init) \cup All(Scripts.probe)
                                  ELSE held = All(Scripts.init)
  /\ phase = "exit" => /\ ByClass
                       /\ bound => "driver" \in Set(todo)
                       /\ \A r \in held : r \in Coming \/ Exception(r, Coming \cup stray)
  /\ phase = "unloaded" => \A r \in held : Exception(r, stray)

\* Of these nothing is given back that is not there.
Careful == Owns(Scripts) /\ (Tidy(Scripts) \/ ~refused)

\* What the error path of the registration does not find.
Unfound == {r \in {"device"} : RegistrationRefused}

OwnInv == Careful =>
  /\ stray \subseteq {"irqOfIsr"} \cup Unfound
  /\ ~refused => phase \notin {"initFails", "probeFails"}
  /\ phase \in {"init", "initFails", "probe", "probeFails"} => ~bound
  /\ phase = "init" => Got(Scripts.init, step) \subseteq held
  /\ phase = "probe" => Got(Scripts.probe, step) \subseteq held
  /\ phase \in {"probe", "probeFails", "loaded"} => Set(Scripts.exit) \subseteq held
  /\ phase \in Giving => Distinct(todo) /\ Set(todo) \subseteq held \cup {"irqOfIsr"}
  /\ phase \in {"init", "probe", "probeFails", "loaded", "exit"} => ~initFailed
  /\ phase = "initFails" => Set(todo) \cap {"device"} \subseteq Unfound
  /\ phase = "probeFails" => Set(todo) \cap (Set(Scripts.exit) \cup {"device"}) = {}
  /\ phase = "exit" => ByClass
  /\ phase \in {"loaded", "exit"} /\ bound => Set(Scripts.remove) \subseteq held \cup {"irqOfIsr"}
  /\ phase = "exit" /\ bound => Set(Scripts.remove) \cap Set(todo) = {}

IrqInv == IrqLast(Scripts) =>
  /\ phase \in {"init", "initFails", "probeFails"} => "irq" \notin held
  /\ phase = "probe" => /\ Got(Scripts.probe, step) \subseteq held
                        /\ "irq" \in held => step = Len(Scripts.probe) + 1
  /\ phase \in {"loaded", "exit", "unloaded"} /\ "irq" \in held /\ "irqOfIsr" \notin stray =>
       /\ All(Scripts.probe) \cap Maps \subseteq held
       /\ Guarded(todo)

FilesInv == Scripts.owner =>
  /\ phase = "initFails" => initFailed
  /\ phase = "exit" => files = 0
  /\ phase = "unloaded" /\ ~initFailed => files = 0

-----------------------------------------------------------------------------
(* Lemmas on sequences *)

LEMMA TailOf ==
  ASSUME NEW q \in Seq(Things), q # <<>>
  PROVE  /\ Tail(q) \in Seq(Things) /\ Head(q) = q[1] /\ Head(q) \in Things
         /\ Len(q) \in Nat /\ Len(q) >= 1 /\ Len(Tail(q)) = Len(q) - 1
         /\ \A i \in 1..(Len(q) - 1) : Tail(q)[i] = q[i + 1]
  OBVIOUS

LEMMA SetOfTail ==
  ASSUME NEW q \in Seq(Things), q # <<>>
  PROVE  Set(q) = {Head(q)} \cup Set(Tail(q)) /\ Head(q) \in Set(q)
<1>1. /\ Head(q) = q[1] /\ Len(q) \in Nat /\ Len(q) >= 1 /\ Len(Tail(q)) = Len(q) - 1
      /\ \A i \in 1..(Len(q) - 1) : Tail(q)[i] = q[i + 1]
  BY TailOf
<1>2. ASSUME NEW i \in 1..Len(q)
      PROVE  q[i] \in {Head(q)} \cup Set(Tail(q))
  <2>1. CASE i = 1
    BY <1>1, <2>1
  <2>2. CASE i # 1
    <3>1. i - 1 \in 1..(Len(q) - 1) /\ (i - 1) + 1 = i
      BY <1>1, <2>2
    <3> QED
      BY <1>1, <3>1 DEF Set
  <2> QED
    BY <2>1, <2>2
<1>3. ASSUME NEW i \in 1..Len(Tail(q))
      PROVE  Tail(q)[i] \in Set(q)
  <2>1. i \in 1..(Len(q) - 1) /\ i + 1 \in 1..Len(q)
    BY <1>1
  <2> QED
    BY <1>1, <2>1 DEF Set
<1>4. Head(q) \in Set(q)
  BY <1>1 DEF Set
<1> QED
  BY <1>2, <1>3, <1>4 DEF Set

LEMMA SetOfConcat ==
  ASSUME NEW a \in Seq(Things), NEW b \in Seq(Things)
  PROVE  /\ a \o b \in Seq(Things) /\ Len(a \o b) = Len(a) + Len(b)
         /\ \A i \in 1..Len(a) : (a \o b)[i] = a[i]
         /\ \A i \in 1..Len(b) : (a \o b)[Len(a) + i] = b[i]
         /\ Set(a \o b) = Set(a) \cup Set(b)
<1>1. /\ a \o b \in Seq(Things) /\ Len(a \o b) = Len(a) + Len(b)
      /\ Len(a) \in Nat /\ Len(b) \in Nat
  OBVIOUS
<1>2. \A i \in 1..Len(a) : (a \o b)[i] = a[i]
  OBVIOUS
<1>3. \A i \in 1..Len(b) : (a \o b)[Len(a) + i] = b[i]
  OBVIOUS
<1>4. ASSUME NEW i \in 1..Len(a \o b)
      PROVE  (a \o b)[i] \in Set(a) \cup Set(b)
  <2>1. CASE i <= Len(a)
    BY <1>1, <1>2, <2>1 DEF Set
  <2>2. CASE i > Len(a)
    <3>1. i - Len(a) \in 1..Len(b) /\ Len(a) + (i - Len(a)) = i
      BY <1>1, <2>2
    <3> QED
      BY <1>3, <3>1 DEF Set
  <2> QED
    BY <1>1, <2>1, <2>2
<1>5. ASSUME NEW i \in 1..Len(a)
      PROVE  a[i] \in Set(a \o b)
  <2>1. i \in 1..Len(a \o b)
    BY <1>1
  <2> QED
    BY <1>2, <2>1 DEF Set
<1>6. ASSUME NEW i \in 1..Len(b)
      PROVE  b[i] \in Set(a \o b)
  <2>1. Len(a) + i \in 1..Len(a \o b)
    BY <1>1
  <2> QED
    BY <1>3, <2>1 DEF Set
<1>7. Set(a \o b) = Set(a) \cup Set(b)
  BY <1>4, <1>5, <1>6 DEF Set
<1> QED
  BY <1>1, <1>2, <1>3, <1>7

LEMMA DistinctTail ==
  ASSUME NEW q \in Seq(Things), q # <<>>, Distinct(q)
  PROVE  Distinct(Tail(q)) /\ Head(q) \notin Set(Tail(q))
<1>1. /\ Head(q) = q[1] /\ Len(q) \in Nat /\ Len(q) >= 1 /\ Len(Tail(q)) = Len(q) - 1
      /\ \A i \in 1..(Len(q) - 1) : Tail(q)[i] = q[i + 1]
  BY TailOf
<1>2. ASSUME NEW i \in 1..(Len(q) - 1)
      PROVE  i + 1 \in 1..Len(q) /\ 1 \in 1..Len(q) /\ i + 1 # 1
  BY <1>1
<1>3. Distinct(Tail(q))
  BY <1>1, <1>2 DEF Distinct
<1>4. Head(q) \notin Set(Tail(q))
  BY <1>1, <1>2 DEF Distinct, Set
<1> QED
  BY <1>3, <1>4

LEMMA DistinctConcat ==
  ASSUME NEW a \in Seq(Things), NEW b \in Seq(Things), Distinct(a), Distinct(b),
         Set(a) \cap Set(b) = {}
  PROVE  Distinct(a \o b)
<1> DEFINE q == a \o b
<1>1. /\ Len(q) = Len(a) + Len(b) /\ Len(a) \in Nat /\ Len(b) \in Nat
      /\ \A i \in 1..Len(a) : q[i] = a[i]
      /\ \A i \in 1..Len(b) : q[Len(a) + i] = b[i]
  BY SetOfConcat
<1>2. \A i \in 1..Len(a), j \in 1..Len(b) : a[i] # b[j]
  BY DEF Set
<1>3. ASSUME NEW i \in 1..Len(q)
      PROVE  i \in 1..Len(a) \/ \E k \in 1..Len(b) : i = Len(a) + k
  <2>1. CASE i > Len(a)
    <3>1. i - Len(a) \in 1..Len(b) /\ i = Len(a) + (i - Len(a))
      BY <1>1, <2>1
    <3> QED
      BY <3>1
  <2> QED
    BY <1>1, <2>1
<1>4. ASSUME NEW i \in 1..Len(q), NEW j \in 1..Len(q), q[i] = q[j]
      PROVE  i = j
  <2>1. CASE i \in 1..Len(a) /\ j \in 1..Len(a)
    BY <1>1, <1>4, <2>1 DEF Distinct
  <2>2. CASE i \in 1..Len(a) /\ \E m \in 1..Len(b) : j = Len(a) + m
    BY <1>1, <1>2, <1>4, <2>2
  <2>3. CASE j \in 1..Len(a) /\ \E k \in 1..Len(b) : i = Len(a) + k
    BY <1>1, <1>2, <1>4, <2>3
  <2>4. ASSUME NEW k \in 1..Len(b), NEW m \in 1..Len(b), i = Len(a) + k, j = Len(a) + m
        PROVE  i = j
    <3>1. b[k] = b[m]
      BY <1>1, <1>4, <2>4
    <3> QED
      BY <2>4, <3>1 DEF Distinct
  <2> QED
    BY <1>3, <2>1, <2>2, <2>3, <2>4
<1> QED
  BY <1>4 DEF Distinct

LEMMA GuardedTail ==
  ASSUME NEW q \in Seq(Things), q # <<>>, Guarded(q), Head(q) # "irqOfIsr"
  PROVE  Guarded(Tail(q)) /\ Head(q) \notin Maps
<1>1. /\ Head(q) = q[1] /\ Len(q) \in Nat /\ Len(q) >= 1 /\ Len(Tail(q)) = Len(q) - 1
      /\ \A i \in 1..(Len(q) - 1) : Tail(q)[i] = q[i + 1]
  BY TailOf
<1>2. Head(q) \notin Maps
  BY <1>1 DEF Guarded
<1>3. ASSUME NEW i \in 1..(Len(q) - 1), Tail(q)[i] \in Maps
      PROVE  \E j \in 1..(i - 1) : Tail(q)[j] = "irqOfIsr"
  <2>1. i + 1 \in 1..Len(q) /\ q[i + 1] \in Maps
    BY <1>1, <1>3
  <2>2. PICK j \in 1..((i + 1) - 1) : q[j] = "irqOfIsr"
    BY <2>1 DEF Guarded
  <2>3. j # 1
    BY <1>1, <2>2
  <2>4. j - 1 \in 1..(i - 1) /\ j - 1 \in 1..(Len(q) - 1) /\ (j - 1) + 1 = j
    BY <1>1, <2>3
  <2> QED
    BY <1>1, <2>2, <2>4
<1> QED
  BY <1>1, <1>2, <1>3 DEF Guarded

LEMMA GuardedConcat ==
  ASSUME NEW a \in Seq(Things), NEW b \in Seq(Things), Guarded(a), Guarded(b)
  PROVE  Guarded(a \o b)
<1> DEFINE q == a \o b
<1>1. /\ Len(q) = Len(a) + Len(b) /\ Len(a) \in Nat /\ Len(b) \in Nat
      /\ \A i \in 1..Len(a) : q[i] = a[i]
      /\ \A i \in 1..Len(b) : q[Len(a) + i] = b[i]
  BY SetOfConcat
<1>2. ASSUME NEW i \in 1..Len(a), q[i] \in Maps
      PROVE  \E j \in 1..(i - 1) : q[j] = "irqOfIsr"
  <2>1. PICK j \in 1..(i - 1) : a[j] = "irqOfIsr"
    BY <1>1, <1>2 DEF Guarded
  <2>2. j \in 1..Len(a)
    BY <1>1
  <2> QED
    BY <1>1, <2>1, <2>2
<1>3. ASSUME NEW i \in 1..Len(b), q[Len(a) + i] \in Maps
      PROVE  \E j \in 1..((Len(a) + i) - 1) : q[j] = "irqOfIsr"
  <2>1. PICK j \in 1..(i - 1) : b[j] = "irqOfIsr"
    BY <1>1, <1>3 DEF Guarded
  <2>2. j \in 1..Len(b) /\ Len(a) + j \in 1..((Len(a) + i) - 1)
    BY <1>1
  <2> QED
    BY <1>1, <2>1, <2>2
<1>4. ASSUME NEW i \in 1..Len(q), q[i] \in Maps
      PROVE  \E j \in 1..(i - 1) : q[j] = "irqOfIsr"
  <2>1. CASE i \in 1..Len(a)
    BY <1>2, <1>4, <2>1
  <2>2. CASE i > Len(a)
    <3>1. i - Len(a) \in 1..Len(b) /\ Len(a) + (i - Len(a)) = i
      BY <1>1, <2>2
    <3> QED
      BY <1>3, <1>4, <3>1
  <2> QED
    BY <1>1, <2>1, <2>2
<1> QED
  BY <1>4 DEF Guarded

LEMMA ClassLastTail ==
  ASSUME NEW q \in Seq(Things), q # <<>>, ClassLast(q)
  PROVE  ClassLast(Tail(q)) /\ (Head(q) = "class" => "device" \notin Set(Tail(q)))
<1>1. /\ Head(q) = q[1] /\ Len(q) \in Nat /\ Len(q) >= 1 /\ Len(Tail(q)) = Len(q) - 1
      /\ \A i \in 1..(Len(q) - 1) : Tail(q)[i] = q[i + 1]
  BY TailOf
<1>2. ASSUME NEW i \in 1..(Len(q) - 1)
      PROVE  i + 1 \in 1..Len(q) /\ 1 \in 1..Len(q) /\ ~(i + 1 < 1)
  BY <1>1
<1>3. ASSUME NEW i \in 1..(Len(q) - 1), NEW j \in 1..(Len(q) - 1),
             Tail(q)[i] = "class", Tail(q)[j] = "device"
      PROVE  j < i
  <2>1. j + 1 < i + 1
    BY <1>1, <1>2, <1>3 DEF ClassLast
  <2> QED
    BY <2>1
<1>4. ClassLast(Tail(q))
  BY <1>1, <1>3 DEF ClassLast
<1>5. ASSUME Head(q) = "class", NEW j \in 1..(Len(q) - 1), Tail(q)[j] = "device"
      PROVE  FALSE
  BY <1>1, <1>2, <1>5 DEF ClassLast
<1> QED
  BY <1>1, <1>4, <1>5 DEF Set

LEMMA ClassLastConcat ==
  ASSUME NEW a \in Seq(Things), NEW b \in Seq(Things), ClassLast(b),
         Set(a) \cap {"class", "device"} = {}
  PROVE  ClassLast(a \o b)
<1> DEFINE q == a \o b
<1>1. /\ Len(q) = Len(a) + Len(b) /\ Len(a) \in Nat /\ Len(b) \in Nat
      /\ \A i \in 1..Len(a) : q[i] = a[i]
      /\ \A i \in 1..Len(b) : q[Len(a) + i] = b[i]
  BY SetOfConcat
<1>2. ASSUME NEW i \in 1..Len(q), q[i] \in {"class", "device"}
      PROVE  i - Len(a) \in 1..Len(b) /\ b[i - Len(a)] = q[i]
  <2>3. \A k \in 1..Len(a) : a[k] \in Set(a)
    BY DEF Set
  <2>4. i \notin 1..Len(a)
    BY <1>1, <1>2, <2>3
  <2>1. i > Len(a)
    BY <1>1, <2>4
  <2>2. i - Len(a) \in 1..Len(b) /\ Len(a) + (i - Len(a)) = i
    BY <1>1, <2>1
  <2> QED
    BY <1>1, <2>2
<1>3. ASSUME NEW i \in 1..Len(q), NEW j \in 1..Len(q), q[i] = "class", q[j] = "device"
      PROVE  j < i
  <2>1. j - Len(a) < i - Len(a)
    BY <1>2, <1>3 DEF ClassLast
  <2> QED
    BY <1>1, <2>1
<1> QED
  BY <1>3 DEF ClassLast

LEMMA EmptySequence == Set(<<>>) = {} /\ Distinct(<<>>) /\ Guarded(<<>>) /\ ClassLast(<<>>)
  BY DEF Set, Distinct, Guarded, ClassLast

\* One more request is granted.
LEMMA GotNext ==
  ASSUME NEW a, NEW k \in Nat \ {0}
  PROVE  Got(a, k + 1) = Got(a, k) \cup ({a[k].res} \ {"check"})
<1>1. 1..((k + 1) - 1) = (1..(k - 1)) \cup {k}
  OBVIOUS
<1> QED
  BY <1>1 DEF Got

LEMMA GotFirst == \A a : Got(a, 1) = {}
  BY DEF Got

LEMMA GotIsPart ==
  ASSUME NEW S, NEW a \in Seq(S), NEW k \in 1..(Len(a) + 1)
  PROVE  Got(a, k) \subseteq All(a)
<1>1. Len(a) \in Nat
  OBVIOUS
<1>2. 1..(k - 1) \subseteq 1..((Len(a) + 1) - 1)
  BY <1>1
<1> QED
  BY <1>2 DEF Got, All
-----------------------------------------------------------------------------
(* Types *)

LEMMA ScriptsTyped ==
  ASSUME TypeOK
  PROVE  /\ Scripts.init \in Seq(Requests) /\ Scripts.probe \in Seq(Requests)
         /\ Scripts.exit \in Seq(Things) /\ Scripts.remove \in Seq(Things)
         /\ Scripts.owner \in BOOLEAN
  BY LifecycleAssumption DEF TypeOK, Scripts, Things

LEMMA RequestTyped ==
  ASSUME TypeOK, Request
  PROVE  /\ Script \in Seq(Requests) /\ step \in 1..Len(Script) /\ step \in Nat \ {0}
         /\ Len(Script) \in Nat
         /\ Script[step].res \in Names \cup {"check"}
         /\ Script[step].undo \subseteq Seq(Things) /\ Script[step].goOn \in BOOLEAN
         /\ \/ phase = "init" /\ Script = Scripts.init
            \/ phase = "probe" /\ Script = Scripts.probe
<1>1. \/ phase = "init" /\ Script = Scripts.init
      \/ phase = "probe" /\ Script = Scripts.probe
  BY DEF Request, Asking, Script
<1>2. Script \in Seq(Requests)
  BY <1>1, ScriptsTyped
<1>3. step \in 1..Len(Script) /\ step \in Nat \ {0} /\ Len(Script) \in Nat
  BY <1>2 DEF Request, TypeOK
<1>4. Script[step] \in Requests
  BY <1>2, <1>3
<1> QED
  BY <1>1, <1>2, <1>3, <1>4 DEF Requests, Things

LEMMA DriverStays == [Next]_vars => driver' = driver /\ Scripts' = Scripts
  BY DEF Next, vars, Insmod, Obtain, Refuse, GoOn, Registered, Probed, Rmmod, Remove,
     GiveBack, Done, Open, Close, Scripts

LEMMA TypeInit == Init => TypeOK
<1>1. <<>> \in Seq(Names \cup Aliases) /\ 0 \in 0..MaxFiles /\ 1 \in Nat \ {0}
  BY LifecycleAssumption
<1> QED
  BY <1>1 DEF Init, TypeOK, Asking, Giving

LEMMA TypeInductive == TypeOK /\ [Next]_vars => TypeOK'
<1> SUFFICES ASSUME TypeOK, [Next]_vars
             PROVE  TypeOK'
  OBVIOUS
<1> USE DEF TypeOK
<1>1. driver' = driver /\ Scripts' = Scripts
  BY DriverStays
<1>2. CASE UNCHANGED vars
  BY <1>2 DEF vars, Script, Scripts
<1>3. CASE Insmod
  <2>1. Script' = Scripts.init /\ Len(Scripts.init) \in Nat
    BY <1>1, <1>3, ScriptsTyped DEF Insmod, Script
  <2>2. 1 <= Len(Script') + 1 /\ 1 \in Nat \ {0}
    BY <2>1
  <2>3. lost' \subseteq Names /\ held' \subseteq Names /\ stray' \subseteq Names \cup Aliases
    BY <1>3 DEF Insmod
  <2>4. phase \notin Giving /\ phase' \notin Giving /\ phase' \in Asking
    BY <1>3 DEF Insmod, Giving, Asking
  <2> QED
    BY <1>3, <2>2, <2>3, <2>4 DEF Insmod
<1>4. CASE Obtain \/ GoOn
  <2>1. Script' = Script
    BY <1>1, <1>4 DEF Obtain, GoOn, Script
  <2>2. Request /\ step' = step + 1 /\ step + 1 <= Len(Script) + 1 /\ step + 1 \in Nat \ {0}
    BY <1>4, RequestTyped DEF Obtain, GoOn
  <2>3. held' \subseteq Names
    BY <1>4, <2>2, RequestTyped DEF Obtain, GoOn
  <2> QED
    BY <1>4, <2>1, <2>2, <2>3 DEF Obtain, GoOn
<1>5. CASE Refuse
  <2>1. todo' \in Seq(Names \cup Aliases)
    BY <1>5, RequestTyped DEF Refuse, Things
  <2>2. phase' \in {"initFails", "probeFails"} /\ initFailed' \in BOOLEAN
    BY <1>5 DEF Refuse
  <2> QED
    BY <1>5, <2>1, <2>2 DEF Refuse, Giving, Asking
<1>6. CASE Registered
  <2>1. phase' = "probe" => Script' = Scripts.probe /\ Len(Scripts.probe) \in Nat
    BY <1>1, <1>6, ScriptsTyped DEF Script
  <2>2. phase' \in {"probe", "loaded"} /\ (phase' = "probe" => step' = 1) /\ step' \in Nat \ {0}
    BY <1>6 DEF Registered
  <2> QED
    BY <1>6, <2>1, <2>2 DEF Registered, Giving, Asking
<1>7. CASE Probed
  BY <1>7 DEF Probed, Giving, Asking
<1>8. CASE Rmmod
  BY <1>8, ScriptsTyped DEF Rmmod, Giving, Asking, Things
<1>9. CASE Remove
  <2>1. todo' \in Seq(Names \cup Aliases)
    BY <1>9, ScriptsTyped DEF Remove, Things
  <2>2. phase \in Giving /\ phase' = phase
    BY <1>9 DEF Remove
  <2> QED
    BY <1>9, <2>1, <2>2 DEF Remove, Giving, Asking
<1>10. CASE GiveBack
  <2>1. todo' \in Seq(Names \cup Aliases) /\ Head(todo) \in Names \cup Aliases
    BY <1>10 DEF GiveBack
  <2>2. phase \in Giving /\ phase' = phase
    BY <1>10 DEF GiveBack
  <2>3. held' \subseteq Names /\ lost' \subseteq Names /\ stray' \subseteq Names \cup Aliases
    BY <1>10, <2>1 DEF GiveBack, NoClass
  <2> QED
    BY <1>10, <2>1, <2>2, <2>3 DEF GiveBack, Giving, Asking
<1>11. CASE Done
  BY <1>11 DEF Done, Giving, Asking
<1>12. CASE Open \/ Close
  <2>1. files' \in 0..MaxFiles /\ phase' = phase /\ step' = step
    BY <1>12, LifecycleAssumption DEF Open, Close
  <2>2. Script' = Script
    BY <1>1, <2>1 DEF Script
  <2> QED
    BY <1>12, <2>1, <2>2 DEF Open, Close
<1> QED
  BY <1>2, <1>3, <1>4, <1>5, <1>6, <1>7, <1>8, <1>9, <1>10, <1>11, <1>12 DEF Next

\* Whatever the scripts of a driver are, a load stays among the states it can name.
THEOREM TypeCorrect == Spec => []TypeOK
<1> QED
  BY TypeInit, TypeInductive, PTL DEF Spec
\* What a step that gives something back does to the rest.
LEMMA GiveBackSteps ==
  ASSUME TypeOK, GiveBack
  PROVE  /\ todo \in Seq(Things) /\ todo # <<>> /\ todo' = Tail(todo) /\ phase \in Giving
         /\ held' \subseteq held /\ held \ {Head(todo)} \subseteq held'
         /\ stray' = IF Head(todo) \in held /\ ~NoClass THEN stray ELSE stray \cup {Head(todo)}
         /\ ~NoClass => held' = held \ {Head(todo)}
         /\ NoClass => Head(todo) = "device"
  BY DEF TypeOK, GiveBack, NoClass, Things

LEMMA ByClassStays ==
  ASSUME TypeOK, ByClass, GiveBack
  PROVE  ByClass' /\ ~NoClass
<1>1. Set(todo) = {Head(todo)} \cup Set(todo')
  BY GiveBackSteps, SetOfTail
<1>2. ClassLast(todo') /\ (Head(todo) = "class" => "device" \notin Set(todo'))
  BY GiveBackSteps, ClassLastTail DEF ByClass
<1>3. "device" \in Set(todo') => "class" \in held'
  BY <1>1, <1>2, GiveBackSteps DEF ByClass
<1>4. ~NoClass
  BY <1>1 DEF ByClass, NoClass
<1> QED
  BY <1>2, <1>3, <1>4 DEF ByClass

LEMMA ByClassRemoved ==
  ASSUME TypeOK, ByClass, Remove, Set(Scripts.remove) \cap {"class", "device"} = {}
  PROVE  ByClass'
<1>1. /\ todo \in Seq(Things) /\ Scripts.remove \in Seq(Things)
      /\ todo' = Scripts.remove \o todo /\ held' = held
  BY ScriptsTyped DEF Remove, TypeOK, Things
<1>2. ClassLast(todo') /\ Set(todo') = Set(Scripts.remove) \cup Set(todo)
  BY <1>1, ClassLastConcat, SetOfConcat DEF ByClass
<1> QED
  BY <1>1, <1>2 DEF ByClass
-----------------------------------------------------------------------------
(* What a module leaves registered *)

LEMMA UndoneInit == Init => UndoneInv
  BY DEF Init, UndoneInv

LEMMA UndoneInductive == TypeOK /\ UndoneInv /\ [Next]_vars => UndoneInv'
<1> SUFFICES ASSUME TypeOK, UndoneInv, [Next]_vars, Undoes(Scripts)
             PROVE  UndoneInv'
  BY DriverStays DEF UndoneInv
<1> USE DEF UndoneInv
<1>1. Scripts' = Scripts
  BY DriverStays
<1>2. CASE UNCHANGED vars
  BY <1>1, <1>2 DEF vars
<1>3. CASE Insmod
  BY <1>1, <1>3 DEF Insmod
<1>4. CASE Obtain
  <2>1. Request /\ step' = step + 1 /\ phase' = phase /\ held' = held \cup ({Script[step].res} \ {"check"})
    BY <1>4 DEF Obtain
  <2>2. CASE phase = "init" /\ Script = Scripts.init
    <3>1. Got(Scripts.init, step') = Got(Scripts.init, step) \cup ({Script[step].res} \ {"check"})
      BY <2>1, <2>2, GotNext, RequestTyped
    <3> QED
      BY <1>1, <2>1, <2>2, <3>1
  <2>3. CASE phase = "probe" /\ Script = Scripts.probe
    <3>1. {Script[step].res} \ {"check"} \subseteq All(Scripts.probe)
      BY <2>1, <2>3, RequestTyped DEF All, Got
    <3> QED
      BY <1>1, <2>1, <2>3, <3>1 DEF Undoes
  <2> QED
    BY <2>1, <2>2, <2>3, RequestTyped
<1>5. CASE Refuse
  <2>1. Request /\ todo' \in Script[step].undo /\ held' = held
    BY <1>5 DEF Refuse
  <2>2. CASE phase = "init" /\ Script = Scripts.init
    <3>1. step \in 1..Len(Scripts.init)
      BY <2>1, <2>2, RequestTyped
    <3>2. Got(Scripts.init, step) \cap Entries \subseteq Set(todo')
      BY <2>1, <2>2, <3>1 DEF Undoes
    <3> QED
      BY <1>1, <1>5, <2>1, <2>2, <3>2 DEF Refuse
  <2>3. CASE phase = "probe"
    BY <1>1, <1>5, <2>1, <2>3 DEF Refuse
  <2> QED
    BY <2>1, <2>2, <2>3, RequestTyped
<1>6. CASE GoOn
  <2>1. Request /\ step' = step + 1 /\ phase' = phase /\ held' = held
    BY <1>6 DEF GoOn
  <2>2. Got(Scripts.init, step) \subseteq Got(Scripts.init, step')
    BY <2>1, GotNext, RequestTyped
  <2> QED
    BY <1>1, <2>1, <2>2 DEF Request, Asking
<1>7. CASE Registered
  <2>1. phase = "init" /\ held' = held /\ phase' \in {"probe", "loaded"}
    BY <1>7 DEF Registered
  <2>2. step \in 1..(Len(Scripts.init) + 1)
    BY <1>7, ScriptsTyped DEF Registered, Script, TypeOK, Asking
  <2>3. Got(Scripts.init, step) \subseteq All(Scripts.init)
    BY <2>2, GotIsPart, ScriptsTyped
  <2> QED
    BY <1>1, <2>1, <2>3
<1>8. CASE Probed
  BY <1>1, <1>8 DEF Probed
<1>9. CASE Rmmod
  BY <1>1, <1>9 DEF Rmmod, Undoes
<1>10. CASE Remove
  <2>1. Set(todo) \subseteq Set(todo')
    BY <1>10, SetOfConcat, ScriptsTyped DEF Remove, TypeOK, Things
  <2> QED
    BY <1>1, <1>10, <2>1 DEF Remove
<1>11. CASE GiveBack
  <2>1. Set(todo) = {Head(todo)} \cup Set(todo')
    BY <1>11, SetOfTail, GiveBackSteps
  <2>2. phase' = phase /\ step' = step /\ phase \in Giving
    BY <1>11, GiveBackSteps DEF GiveBack
  <2>3. stray \subseteq stray'
    BY <1>11, GiveBackSteps
  <2>4. Head(todo) \in held' => Head(todo) \in {"device"} \cap stray'
    BY <1>11, GiveBackSteps
  <2>5. held' \subseteq held
    BY <1>11, GiveBackSteps
  <2> QED
    BY <1>1, <2>1, <2>2, <2>3, <2>4, <2>5 DEF Giving
<1>12. CASE Done
  BY <1>1, <1>12, EmptySequence DEF Done, Giving
<1>13. CASE Open \/ Close
  BY <1>1, <1>13 DEF Open, Close
<1> QED
  BY <1>2, <1>3, <1>4, <1>5, <1>6, <1>7, <1>8, <1>9, <1>10, <1>11, <1>12, <1>13 DEF Next

Withdrawing == \A d \in DOMAIN Code \ {"ov7670_2"} : Undoes(Code[d])

\* RegistrationUndone: when every error path of init and exit take back what was
\* registered by then, no sequence of loads, refusals and removals leaves an entry.
THEOREM NothingStaysRegistered == Withdrawing => (Spec => []RegistrationUndone)
<1> SUFFICES ASSUME Withdrawing
             PROVE  Spec => []RegistrationUndone
  OBVIOUS
<1>1. TypeOK /\ UndoneInv => RegistrationUndone
  BY DEF Withdrawing, TypeOK, UndoneInv, RegistrationUndone, Scripts, Entries
<1> QED
  BY <1>1, TypeInit, UndoneInit, TypeInductive, UndoneInductive, PTL DEF Spec
-----------------------------------------------------------------------------
(* What a load in which nothing was refused leaves *)

LEMMA ClearInit == Init => ClearInv
  BY DEF Init, ClearInv

LEMMA ClearInductive == TypeOK /\ ClearInv /\ [Next]_vars => ClearInv'
<1> SUFFICES ASSUME TypeOK, ClearInv, [Next]_vars, Clears(Scripts), ~refused'
             PROVE  ClearInv'
  BY DriverStays DEF ClearInv
<1> USE DEF ClearInv
<1>1. Scripts' = Scripts
  BY DriverStays
<1>2. CASE UNCHANGED vars
  BY <1>1, <1>2 DEF vars, Coming, ByClass
<1>3. CASE Insmod
  BY <1>1, <1>3, GotFirst DEF Insmod
<1>4. CASE Obtain
  <2>1. /\ Request /\ step' = step + 1 /\ phase' = phase /\ bound' = bound /\ refused' = refused
        /\ held' = held \cup ({Script[step].res} \ {"check"})
    BY <1>4 DEF Obtain
  <2>2. CASE phase = "init" /\ Script = Scripts.init
    <3>1. Got(Scripts.init, step') = Got(Scripts.init, step) \cup ({Script[step].res} \ {"check"})
      BY <2>1, <2>2, GotNext, RequestTyped
    <3> QED
      BY <1>1, <2>1, <2>2, <3>1
  <2>3. CASE phase = "probe" /\ Script = Scripts.probe
    <3>1. Got(Scripts.probe, step') = Got(Scripts.probe, step) \cup ({Script[step].res} \ {"check"})
      BY <2>1, <2>3, GotNext, RequestTyped
    <3> QED
      BY <1>1, <2>1, <2>3, <3>1
  <2> QED
    BY <2>1, <2>2, <2>3, RequestTyped
<1>5. CASE Refuse \/ GoOn
  BY <1>5 DEF Refuse, GoOn
<1>6. CASE Registered
  <2>1. /\ phase = "init" /\ held' = held /\ bound' = bound /\ refused' = refused
        /\ phase' = "loaded" \/ (phase' = "probe" /\ step' = 1)
    BY <1>6 DEF Registered
  <2>2. step = Len(Scripts.init) + 1
    BY <1>6, ScriptsTyped DEF Registered, Script, TypeOK, Asking
  <2>3. held = All(Scripts.init) /\ ~bound
    BY <2>1, <2>2 DEF All
  <2> QED
    BY <1>1, <2>1, <2>3, GotFirst
<1>7. CASE Probed
  <2>1. /\ phase = "probe" /\ held' = held /\ bound' /\ refused' = refused /\ phase' = "loaded"
    BY <1>7 DEF Probed
  <2>2. step = Len(Scripts.probe) + 1
    BY <1>7, ScriptsTyped DEF Probed, Script, TypeOK, Asking
  <2>3. held = All(Scripts.init) \cup All(Scripts.probe)
    BY <2>1, <2>2 DEF All
  <2> QED
    BY <1>1, <2>1, <2>3
<1>8. CASE Rmmod
  <2>1. /\ phase = "loaded" /\ phase' = "exit" /\ todo' = Scripts.exit
        /\ held' = held /\ bound' = bound /\ stray' = stray /\ refused' = refused
    BY <1>8 DEF Rmmod
  <2>2. "driver" \in Set(todo') /\ ByClass'
    BY <2>1 DEF Clears, ByClass
  <2>3. CASE bound
    <3>1. Coming' = Set(Scripts.exit) \cup Set(Scripts.remove)
      BY <1>1, <2>1, <2>3 DEF Coming
    <3>2. \A r \in held : r \in Coming' \/ Exception(r, Coming')
      BY <2>1, <2>3, <3>1 DEF Clears, Exception
    <3> QED
      BY <2>1, <2>2, <3>2 DEF Exception
  <2>4. CASE ~bound
    <3>1. Coming' = Set(Scripts.exit)
      BY <1>1, <2>1, <2>4 DEF Coming
    <3>2. \A r \in held : r \in Coming' \/ Exception(r, Coming')
      BY <2>1, <2>4, <3>1 DEF Clears, Exception
    <3> QED
      BY <2>1, <2>2, <3>2 DEF Exception
  <2> QED
    BY <2>3, <2>4
<1>9. CASE Remove
  <2>1. /\ bound /\ ~bound' /\ phase' = phase /\ held' = held /\ stray' = stray
        /\ refused' = refused /\ todo # <<>> /\ todo' = Scripts.remove \o todo
    BY <1>9 DEF Remove
  <2>2. Set(todo') = Set(Scripts.remove) \cup Set(todo)
    BY <2>1, SetOfConcat, ScriptsTyped DEF TypeOK, Things
  <2>3. Coming' = Coming
    BY <1>1, <2>1, <2>2 DEF Coming
  <2>4. phase = "exit"
    BY <2>1 DEF TypeOK, Giving
  <2>5. ByClass'
    BY <1>9, <2>1, <2>4, ByClassRemoved DEF Clears
  <2> QED
    BY <2>1, <2>3, <2>4, <2>5
<1>10. CASE GiveBack
  <2> /\ bound' = bound /\ phase' = phase /\ refused' = refused
      /\ ~(Head(todo) = "driver" /\ bound)
    BY <1>10 DEF GiveBack
  <2>3. phase = "exit"
    BY <1>10, GiveBackSteps DEF Giving
  <2>7. ByClass' /\ ~NoClass
    BY <1>10, <2>3, ByClassStays
  <2>1. /\ held' = held \ {Head(todo)} /\ todo # <<>> /\ todo' = Tail(todo)
        /\ stray' = IF Head(todo) \in held THEN stray ELSE stray \cup {Head(todo)}
    BY <1>10, <2>7, GiveBackSteps
  <2>2. Set(todo) = {Head(todo)} \cup Set(todo')
    BY <1>10, <2>1, SetOfTail, GiveBackSteps
  <2>4. Coming = {Head(todo)} \cup Coming'
    BY <1>1, <2>1, <2>2 DEF Coming
  <2>5. "irqOfIsr" \in Coming \cup stray => "irqOfIsr" \in Coming' \cup stray'
    <3>1. "irqOfIsr" \notin held
      BY DEF TypeOK, Names
    <3> QED
      BY <2>1, <2>4, <3>1
  <2>6. \A r \in held' : r \in Coming' \/ Exception(r, Coming' \cup stray')
    BY <2>1, <2>3, <2>4, <2>5 DEF Exception
  <2> QED
    BY <2>2, <2>3, <2>6, <2>7
<1>11. CASE Done
  <2>1. /\ phase \in Giving /\ todo = <<>> /\ held' = held /\ stray' = stray /\ refused' = refused
        /\ phase = "exit" => phase' = "unloaded"
    BY <1>11 DEF Done
  <2>2. phase = "exit"
    BY <2>1 DEF Giving
  <2>3. Coming = {}
    BY <2>1, <2>2, EmptySequence DEF Coming
  <2> QED
    BY <2>1, <2>2, <2>3 DEF Exception
<1>12. CASE Open \/ Close
  BY <1>1, <1>12 DEF Open, Close, Coming, ByClass
<1> QED
  BY <1>2, <1>3, <1>4, <1>5, <1>6, <1>7, <1>8, <1>9, <1>10, <1>11, <1>12 DEF Next

Clearing == \A d \in DOMAIN Code \ {"ov7670_2"} : Clears(Code[d])

\* CleanUnload: when exit and remove name everything that init and probe ask for, a
\* load in which nothing was refused leaves only what those two leave out.
THEOREM UnloadIsClean == Clearing => (Spec => []CleanUnload)
<1> SUFFICES ASSUME Clearing
             PROVE  Spec => []CleanUnload
  OBVIOUS
<1>1. TypeOK /\ ClearInv => CleanUnload
  BY DEF Clearing, TypeOK, ClearInv, CleanUnload, Scripts, Exception
<1> QED
  BY <1>1, TypeInit, ClearInit, TypeInductive, ClearInductive, PTL DEF Spec

-----------------------------------------------------------------------------
(* What is given back without having been obtained *)

LEMMA OwnInit == Init => OwnInv
  BY DEF Init, OwnInv, Giving

LEMMA OwnInductive == TypeOK /\ OwnInv /\ [Next]_vars => OwnInv'
<1> SUFFICES ASSUME TypeOK, OwnInv, [Next]_vars, Careful'
             PROVE  OwnInv'
  BY DEF OwnInv
<1>1. Scripts' = Scripts
  BY DriverStays
<1>2. Owns(Scripts) /\ (Tidy(Scripts) \/ ~refused')
  BY <1>1 DEF Careful
<1>3. CASE Insmod
  BY <1>1, <1>3, GotFirst DEF Insmod, OwnInv, Giving
<1> USE DEF OwnInv
<1>4. ASSUME ~initFailed
      PROVE  Unfound = {}
  BY <1>4 DEF Unfound, RegistrationRefused
<1>16. UNCHANGED <<initFailed, step>> => Unfound' = Unfound
  BY <1>1 DEF Unfound, RegistrationRefused
<1>5. CASE UNCHANGED vars
  BY <1>1, <1>5, <1>16 DEF vars, Careful, ByClass
<1>6. CASE Obtain
  <2>1. /\ Request /\ step' = step + 1 /\ phase' = phase /\ bound' = bound /\ refused' = refused
        /\ held' = held \cup ({Script[step].res} \ {"check"}) /\ stray' = stray
        /\ todo' = todo /\ phase \in Asking /\ initFailed' = initFailed
    BY <1>6 DEF Obtain, Request
  <2>2. Careful /\ phase \notin Giving /\ ~initFailed /\ stray \subseteq {"irqOfIsr"}
    BY <1>2, <1>4, <2>1 DEF Careful, Asking, Giving
  <2>3. CASE phase = "init" /\ Script = Scripts.init
    <3>1. Got(Scripts.init, step') = Got(Scripts.init, step) \cup ({Script[step].res} \ {"check"})
      BY <2>1, <2>3, GotNext, RequestTyped
    <3> QED
      BY <1>1, <2>1, <2>2, <2>3, <3>1
  <2>4. CASE phase = "probe" /\ Script = Scripts.probe
    <3>1. Got(Scripts.probe, step') = Got(Scripts.probe, step) \cup ({Script[step].res} \ {"check"})
      BY <2>1, <2>4, GotNext, RequestTyped
    <3> QED
      BY <1>1, <2>1, <2>2, <2>4, <3>1
  <2> QED
    BY <2>1, <2>3, <2>4, RequestTyped
<1>7. CASE Refuse
  <2>1. /\ Request /\ todo' \in Script[step].undo /\ held' = held /\ stray' = stray
        /\ bound' = bound /\ refused' /\ phase \in Asking
        /\ phase' = IF phase = "init" THEN "initFails" ELSE "probeFails"
        /\ step' = step /\ initFailed' = (phase = "init")
    BY <1>7 DEF Refuse, Request
  <2>2. Tidy(Scripts) /\ Careful /\ stray \subseteq {"irqOfIsr"}
    BY <1>2, <1>4, <2>1 DEF Careful, Asking
  <2>3. CASE phase = "init" /\ Script = Scripts.init
    <3>1. step \in 1..Len(Scripts.init)
      BY <2>1, <2>3, RequestTyped
    <3>2. /\ Distinct(todo') /\ Set(todo') \subseteq Got(Scripts.init, step) \cup {"irqOfIsr"}
          /\ "device" \in Set(todo') => Scripts.init[step].res = "driver"
      BY <2>1, <2>2, <2>3, <3>1 DEF Tidy
    <3>3. Set(todo') \cap {"device"} \subseteq Unfound'
      BY <1>1, <2>1, <2>3, <3>2 DEF Unfound, RegistrationRefused
    <3> QED
      BY <1>1, <2>1, <2>2, <2>3, <3>2, <3>3
  <2>4. CASE phase = "probe" /\ Script = Scripts.probe
    <3>1. step \in 1..Len(Scripts.probe)
      BY <2>1, <2>4, RequestTyped
    <3>2. /\ Distinct(todo') /\ Set(todo') \subseteq Got(Scripts.probe, step) \cup {"irqOfIsr"}
          /\ Set(todo') \cap (Set(Scripts.exit) \cup {"device"}) = {}
      BY <2>1, <2>2, <2>4, <3>1 DEF Tidy
    <3> QED
      BY <1>1, <2>1, <2>2, <2>4, <3>2
  <2> QED
    BY <2>1, <2>3, <2>4, RequestTyped
<1>8. CASE GoOn
  <2>1. Request /\ Script[step].goOn /\ refused'
    BY <1>8 DEF GoOn
  <2>2. ~Tidy(Scripts)
    BY <2>1, RequestTyped DEF Tidy
  <2> QED
    BY <1>2, <2>1, <2>2
<1>9. CASE Registered
  <2>1. /\ phase = "init" /\ held' = held /\ bound' = bound /\ refused' = refused /\ stray' = stray
        /\ phase' = "loaded" \/ (phase' = "probe" /\ step' = 1)
        /\ step > Len(Scripts.init) /\ initFailed' = initFailed
    BY <1>9 DEF Registered, Script
  <2>2. step = Len(Scripts.init) + 1
    BY <1>9, <2>1, ScriptsTyped DEF Script, TypeOK, Asking
  <2>3. Careful /\ All(Scripts.init) \subseteq held /\ ~initFailed /\ stray \subseteq {"irqOfIsr"}
    BY <1>2, <1>4, <2>1, <2>2 DEF Careful, All
  <2>4. Set(Scripts.exit) \subseteq held'
    BY <1>2, <2>1, <2>3 DEF Owns
  <2> QED
    BY <1>1, <2>1, <2>3, <2>4, GotFirst DEF Giving
<1>10. CASE Probed
  <2>1. /\ phase = "probe" /\ held' = held /\ refused' = refused /\ phase' = "loaded"
        /\ stray' = stray /\ step > Len(Scripts.probe) /\ initFailed' = initFailed
    BY <1>10 DEF Probed, Script
  <2>2. step = Len(Scripts.probe) + 1
    BY <1>10, <2>1, ScriptsTyped DEF Script, TypeOK, Asking
  <2>3. Careful /\ All(Scripts.probe) \subseteq held /\ ~initFailed /\ stray \subseteq {"irqOfIsr"}
    BY <1>2, <1>4, <2>1, <2>2 DEF Careful, All
  <2>4. Set(Scripts.remove) \subseteq held' \cup {"irqOfIsr"}
    BY <1>2, <2>1, <2>3 DEF Owns
  <2> QED
    BY <1>1, <2>1, <2>3, <2>4 DEF Giving
<1>11. CASE Rmmod
  <2>1. /\ phase = "loaded" /\ phase' = "exit" /\ todo' = Scripts.exit
        /\ held' = held /\ bound' = bound /\ stray' = stray /\ refused' = refused
        /\ initFailed' = initFailed
    BY <1>11 DEF Rmmod
  <2>2. Careful /\ ~initFailed /\ stray \subseteq {"irqOfIsr"}
    BY <1>2, <1>4, <2>1 DEF Careful
  <2>3. ByClass'
    BY <1>2, <2>1, <2>2 DEF Owns, ByClass
  <2> QED
    BY <1>1, <1>2, <2>1, <2>2, <2>3 DEF Owns
<1>12. CASE Remove
  <2>1. /\ bound /\ ~bound' /\ phase' = phase /\ held' = held /\ stray' = stray
        /\ refused' = refused /\ todo # <<>> /\ todo' = Scripts.remove \o todo
        /\ initFailed' = initFailed
    BY <1>12 DEF Remove
  <2>2. Careful
    BY <1>2, <2>1 DEF Careful
  <2>3. phase = "exit"
    BY <2>1, <2>2 DEF TypeOK, Giving
  <2>7. ~initFailed /\ stray \subseteq {"irqOfIsr"}
    BY <1>4, <2>2, <2>3
  <2>8. ByClass'
    BY <1>2, <1>12, <2>2, <2>3, ByClassRemoved DEF Owns
  <2>4. Set(todo') = Set(Scripts.remove) \cup Set(todo)
    BY <2>1, SetOfConcat, ScriptsTyped DEF TypeOK, Things
  <2>5. Distinct(todo')
    BY <1>2, <2>1, <2>2, <2>3, DistinctConcat, ScriptsTyped DEF Owns, TypeOK, Things, Giving
  <2>6. Set(todo') \subseteq held' \cup {"irqOfIsr"}
    BY <2>1, <2>2, <2>3, <2>4 DEF Giving
  <2> QED
    BY <1>1, <2>1, <2>2, <2>3, <2>5, <2>6, <2>7, <2>8
<1>13. CASE GiveBack
  <2>1. /\ bound' = bound /\ phase' = phase /\ refused' = refused
        /\ initFailed' = initFailed /\ step' = step
    BY <1>13 DEF GiveBack
  <2>2. Careful
    BY <1>2, <2>1 DEF Careful
  <2>3. phase \in Giving
    BY <1>13, GiveBackSteps
  <2>11. Distinct(todo)
    BY <2>2, <2>3
  <2>4. Set(todo) = {Head(todo)} \cup Set(todo') /\ Distinct(todo') /\ Head(todo) \notin Set(todo')
    <3>1. todo \in Seq(Things) /\ todo # <<>> /\ todo' = Tail(todo)
      BY <1>13, GiveBackSteps
    <3>2. Set(todo) = {Head(todo)} \cup Set(todo')
      BY <3>1, SetOfTail
    <3>3. Distinct(Tail(todo)) /\ Head(todo) \notin Set(Tail(todo))
      BY <2>11, <3>1, DistinctTail
    <3> QED
      BY <3>1, <3>2, <3>3 DEF Distinct
  <2>5. Set(todo') \subseteq held' \cup {"irqOfIsr"}
    BY <1>13, <2>2, <2>3, <2>4, GiveBackSteps
  <2>9. NoClass => Head(todo) \in {"device"}
    BY <1>13, GiveBackSteps
  <2>10. ~NoClass => stray' \subseteq {"irqOfIsr"} \cup Unfound'
    BY <1>13, <1>16, <2>1, <2>2, <2>3, <2>4, GiveBackSteps
  <2>6. CASE phase = "initFails"
    <3>1. NoClass => stray' \subseteq {"irqOfIsr"} \cup Unfound'
      BY <1>13, <1>16, <2>1, <2>2, <2>4, <2>6, <2>9, GiveBackSteps
    <3> QED
      BY <1>1, <1>16, <2>1, <2>2, <2>4, <2>5, <2>6, <2>10, <3>1
  <2>7. CASE phase = "probeFails"
    <3>1. ~NoClass /\ held' = held \ {Head(todo)}
      BY <1>13, <2>2, <2>4, <2>7, <2>9, GiveBackSteps
    <3> QED
      BY <1>1, <2>1, <2>2, <2>4, <2>5, <2>7, <2>10, <3>1
  <2>8. CASE phase = "exit"
    <3>1. ~NoClass /\ ByClass' /\ held' = held \ {Head(todo)}
      BY <1>13, <2>2, <2>8, ByClassStays, GiveBackSteps
    <3> QED
      BY <1>1, <2>1, <2>2, <2>4, <2>5, <2>8, <2>10, <3>1
  <2> QED
    BY <2>3, <2>6, <2>7, <2>8 DEF Giving
<1>14. CASE Done
  <2>1. /\ phase \in Giving /\ held' = held /\ stray' = stray /\ refused' = refused /\ bound' = bound
        /\ phase' = IF phase = "probeFails" THEN "loaded" ELSE "unloaded"
        /\ initFailed' = initFailed /\ step' = step
    BY <1>14 DEF Done
  <2>2. Careful
    BY <1>2, <2>1 DEF Careful
  <2> QED
    BY <1>1, <1>16, <2>1, <2>2 DEF Giving
<1>15. CASE Open \/ Close
  BY <1>1, <1>15, <1>16 DEF Open, Close, Careful, ByClass
<1> QED
  BY <1>3, <1>5, <1>6, <1>7, <1>8, <1>9, <1>10, <1>11, <1>12, <1>13, <1>14, <1>15 DEF Next

Owning == /\ \A d \in DOMAIN Code \ {"bmp280", "ov7670_2"} : Owns(Code[d])
          /\ \A d \in DOMAIN Code \ {"bmp280", "ov7670_2", "tpg", "vdma"} : Tidy(Code[d])

\* NoStrayRelease: when each error path undoes what its function has obtained, and exit
\* and remove share what there is, nothing is given back that is not there.
THEOREM NothingIsGivenBackTwice == Owning => (Spec => []NoStrayRelease)
<1> SUFFICES ASSUME Owning
             PROVE  Spec => []NoStrayRelease
  OBVIOUS
<1>1. TypeOK /\ OwnInv => NoStrayRelease
  BY DEF Owning, TypeOK, OwnInv, Careful, NoStrayRelease, Scripts, Unfound
<1> QED
  BY <1>1, TypeInit, OwnInit, TypeInductive, OwnInductive, PTL DEF Spec
-----------------------------------------------------------------------------
(* What the handler of the interrupt reads *)

LEMMA IrqInit == Init => IrqInv
  BY DEF Init, IrqInv

LEMMA IrqInductive == TypeOK /\ IrqInv /\ [Next]_vars => IrqInv'
<1> SUFFICES ASSUME TypeOK, IrqInv, [Next]_vars, IrqLast(Scripts)
             PROVE  IrqInv'
  BY DriverStays DEF IrqInv
<1> USE DEF IrqInv
<1>1. Scripts' = Scripts
  BY DriverStays
<1>2. CASE UNCHANGED vars
  BY <1>1, <1>2 DEF vars
<1>3. CASE Insmod
  BY <1>1, <1>3 DEF Insmod
<1>4. CASE Obtain
  <2>1. /\ Request /\ step' = step + 1 /\ phase' = phase
        /\ held' = held \cup ({Script[step].res} \ {"check"})
    BY <1>4 DEF Obtain
  <2>2. CASE phase = "init" /\ Script = Scripts.init
    <3>1. {Script[step].res} \ {"check"} \subseteq All(Scripts.init)
      BY <2>1, <2>2, RequestTyped DEF All, Got
    <3>2. "irq" \notin held'
      BY <2>1, <2>2, <3>1 DEF IrqLast
    <3> QED
      BY <1>1, <2>1, <2>2, <3>2
  <2>3. CASE phase = "probe" /\ Script = Scripts.probe
    <3>1. /\ Got(Scripts.probe, step') = Got(Scripts.probe, step) \cup ({Script[step].res} \ {"check"})
          /\ step \in 1..Len(Scripts.probe)
      BY <2>1, <2>3, GotNext, RequestTyped
    <3>2. "irq" \notin held
      BY <2>3, <3>1, ScriptsTyped
    <3>3. Script[step].res = "irq" => step = Len(Scripts.probe)
      BY <2>3, <3>1 DEF IrqLast
    <3> QED
      BY <1>1, <2>1, <2>3, <3>1, <3>2, <3>3
  <2> QED
    BY <2>1, <2>2, <2>3, RequestTyped
<1>5. CASE Refuse
  <2>1. /\ Request /\ held' = held /\ phase' \in {"initFails", "probeFails"}
    BY <1>5 DEF Refuse
  <2>2. "irq" \notin held
    <3>1. CASE phase = "init"
      BY <3>1
    <3>2. CASE phase = "probe" /\ Script = Scripts.probe
      BY <2>1, <3>2, RequestTyped, ScriptsTyped
    <3> QED
      BY <2>1, <3>1, <3>2, RequestTyped
  <2> QED
    BY <1>1, <2>1, <2>2
<1>6. CASE GoOn
  <2>1. /\ Request /\ Script[step].goOn /\ phase' = phase /\ held' = held /\ stray' = stray
    BY <1>6 DEF GoOn
  <2>2. phase = "init"
    BY <2>1, RequestTyped DEF IrqLast
  <2> QED
    BY <1>1, <2>1, <2>2
<1>7. CASE Registered
  BY <1>1, <1>7, GotFirst DEF Registered
<1>8. CASE Probed
  <2>1. /\ phase = "probe" /\ held' = held /\ phase' = "loaded" /\ todo' = todo
        /\ step > Len(Scripts.probe) /\ stray' = stray
    BY <1>8 DEF Probed, Script
  <2>2. step = Len(Scripts.probe) + 1
    BY <1>8, <2>1, ScriptsTyped DEF Script, TypeOK, Asking
  <2>3. All(Scripts.probe) \subseteq held'
    BY <2>1, <2>2 DEF All
  <2>4. Guarded(todo')
    BY <2>1, EmptySequence DEF TypeOK, Giving
  <2> QED
    BY <1>1, <2>1, <2>3, <2>4
<1>9. CASE Rmmod
  <2>1. /\ phase = "loaded" /\ phase' = "exit" /\ todo' = Scripts.exit
        /\ held' = held /\ stray' = stray
    BY <1>9 DEF Rmmod
  <2>2. Guarded(Scripts.exit)
    BY DEF IrqLast, Guarded, Set
  <2> QED
    BY <1>1, <2>1, <2>2
<1>10. CASE Remove
  <2>1. /\ phase' = phase /\ held' = held /\ stray' = stray
        /\ todo # <<>> /\ todo' = Scripts.remove \o todo
    BY <1>10 DEF Remove
  <2>2. Guarded(todo) => Guarded(todo')
    BY <2>1, GuardedConcat, ScriptsTyped DEF IrqLast, TypeOK, Things
  <2>3. phase \in Giving
    BY <2>1 DEF TypeOK
  <2> QED
    BY <1>1, <2>1, <2>2, <2>3 DEF Giving
<1>11. CASE GiveBack
  <2>1. /\ phase' = phase /\ todo # <<>> /\ todo' = Tail(todo)
        /\ held' \subseteq held /\ held \ {Head(todo)} \subseteq held'
        /\ stray \subseteq stray' /\ (Head(todo) \notin held => Head(todo) \in stray')
    BY <1>11, GiveBackSteps DEF GiveBack
  <2>2. phase \in Giving
    BY <1>11, GiveBackSteps
  <2>3. "irqOfIsr" \notin held
    BY DEF TypeOK, Names
  <2>4. CASE phase = "exit" /\ "irq" \in held' /\ "irqOfIsr" \notin stray'
    <3>1. "irq" \in held /\ "irqOfIsr" \notin stray /\ Head(todo) # "irqOfIsr"
      BY <2>1, <2>3, <2>4
    <3>2. Guarded(todo') /\ Head(todo) \notin Maps
      BY <2>1, <2>4, <3>1, GuardedTail DEF TypeOK, Things
    <3> QED
      BY <1>1, <2>1, <2>4, <3>1, <3>2
  <2>5. CASE phase = "exit" /\ ~("irq" \in held' /\ "irqOfIsr" \notin stray')
    BY <2>1, <2>5
  <2>6. CASE phase \in {"initFails", "probeFails"}
    BY <2>1, <2>6
  <2> QED
    BY <2>2, <2>4, <2>5, <2>6 DEF Giving
<1>12. CASE Done
  <2>1. /\ phase \in Giving /\ held' = held /\ stray' = stray /\ todo' = todo
        /\ phase' = IF phase = "probeFails" THEN "loaded" ELSE "unloaded"
    BY <1>12 DEF Done
  <2> QED
    BY <1>1, <2>1 DEF Giving
<1>13. CASE Open \/ Close
  BY <1>1, <1>13 DEF Open, Close
<1> QED
  BY <1>2, <1>3, <1>4, <1>5, <1>6, <1>7, <1>8, <1>9, <1>10, <1>11, <1>12, <1>13 DEF Next

AskingLast == \A d \in DOMAIN Code \cap {"mio", "encoder", "encoder2"} : IrqLast(Code[d])

\* HandlerHasRegisters: a driver that asks for its interrupt last, and that names it in
\* remove before any map, has its registers mapped while the handler may run.
THEOREM HandlerFindsRegisters == AskingLast => (Spec => []HandlerHasRegisters)
<1> SUFFICES ASSUME AskingLast
             PROVE  Spec => []HandlerHasRegisters
  OBVIOUS
<1>1. TypeOK /\ IrqInv => HandlerHasRegisters
  <2> SUFFICES ASSUME TypeOK, IrqInv, driver \in {"mio", "encoder", "encoder2"},
                      "irq" \in held, "irqOfIsr" \notin stray
               PROVE  {Scripts.probe[i].res : i \in DOMAIN Scripts.probe} \cap Maps \subseteq held
    BY DEF HandlerHasRegisters
  <2>1. IrqLast(Scripts)
    BY DEF AskingLast, TypeOK, Scripts
  <2>2. All(Scripts.probe) \cap Maps \subseteq held
    BY <2>1 DEF IrqInv, TypeOK, Asking, Giving, All
  <2>3. DOMAIN Scripts.probe = 1..((Len(Scripts.probe) + 1) - 1)
    BY ScriptsTyped
  <2> QED
    BY <2>2, <2>3 DEF All, Got, Maps
<1> QED
  BY <1>1, TypeInit, IrqInit, TypeInductive, IrqInductive, PTL DEF Spec

-----------------------------------------------------------------------------
(* The files that keep a module *)

LEMMA FilesInit == Init => FilesInv
  BY DEF Init, FilesInv

LEMMA FilesInductive == TypeOK /\ FilesInv /\ [Next]_vars => FilesInv'
<1> SUFFICES ASSUME TypeOK, FilesInv, [Next]_vars, Scripts.owner
             PROVE  FilesInv'
  BY DriverStays DEF FilesInv
<1> USE DEF FilesInv
<1>1. Scripts' = Scripts
  BY DriverStays
<1>2. CASE UNCHANGED vars
  BY <1>1, <1>2 DEF vars
<1>3. CASE Insmod \/ Obtain \/ Refuse \/ GoOn \/ Registered \/ Probed
  BY <1>1, <1>3 DEF Insmod, Obtain, Refuse, GoOn, Registered, Probed, Request, Asking
<1>4. CASE Rmmod \/ Remove \/ GiveBack \/ Done
  BY <1>1, <1>4 DEF Rmmod, Remove, GiveBack, Done, Giving
<1>5. CASE Open \/ Close
  BY <1>1, <1>5 DEF Open, Close, TypeOK
<1> QED
  BY <1>2, <1>3, <1>4, <1>5 DEF Next

Named == \A d \in DOMAIN Code \cap {"bmp280", "ov7670_2"} : Code[d].owner

\* FilesKeepModule: the owner a driver names keeps its code while a file is open.
THEOREM OwnerKeepsModule == Named => (Spec => []FilesKeepModule)
<1> SUFFICES ASSUME Named
             PROVE  Spec => []FilesKeepModule
  OBVIOUS
<1>1. TypeOK /\ FilesInv => FilesKeepModule
  BY DEF Named, TypeOK, FilesInv, FilesKeepModule, Scripts
<1> QED
  BY <1>1, TypeInit, FilesInit, TypeInductive, FilesInductive, PTL DEF Spec
-----------------------------------------------------------------------------
(* The scripts of the drivers *)

LEMMA Tuples ==
  /\ Set(<<>>) = {} /\ Distinct(<<>>)
  /\ \A a : Set(<<a>>) = {a} /\ Distinct(<<a>>)
  /\ \A a, b : Set(<<a, b>>) = {a, b} /\ (a # b => Distinct(<<a, b>>))
  /\ \A a, b, c : Set(<<a, b, c>>) = {a, b, c}
  /\ \A a, b, c, d : Set(<<a, b, c, d>>) = {a, b, c, d}
  /\ \A a, b, c, d, e : Set(<<a, b, c, d, e>>) = {a, b, c, d, e}
<1>1. Set(<<>>) = {} /\ Distinct(<<>>)
  BY EmptySequence
<1>2. \A a : Set(<<a>>) = {a} /\ Distinct(<<a>>)
  BY DEF Set, Distinct
<1>3. \A a, b : Set(<<a, b>>) = {a, b} /\ (a # b => Distinct(<<a, b>>))
  BY DEF Set, Distinct
<1>4. \A a, b, c : Set(<<a, b, c>>) = {a, b, c}
  BY DEF Set
<1>5. \A a, b, c, d : Set(<<a, b, c, d>>) = {a, b, c, d}
  BY DEF Set
<1>6. \A a, b, c, d, e : Set(<<a, b, c, d, e>>) = {a, b, c, d, e}
  BY DEF Set
<1> QED
  BY <1>1, <1>2, <1>3, <1>4, <1>5, <1>6

\* What each request of my_pdrv_init has before it, and what its error paths give back.
LEMMA RegistrationSteps ==
  /\ Len(Registration) = 5
  /\ \A k \in 1..5 : ~Registration[k].goOn
  /\ Got(Registration, 1) = {} /\ Registration[1].undo = {<<>>}
  /\ Got(Registration, 2) = {"chrdev"} /\ Registration[2].undo = {<<"chrdev">>}
  /\ Got(Registration, 3) = {"chrdev", "cdev"} /\ Registration[3].undo = {<<"chrdev", "cdev">>}
  /\ Got(Registration, 4) = {"chrdev", "cdev", "class"}
  /\ Registration[4].undo = {<<"chrdev", "cdev", "class">>}
  /\ Got(Registration, 5) = {"chrdev", "cdev", "class", "device"}
  /\ Registration[5].undo = {<<"chrdev", "cdev", "class", "device">>}
  /\ All(Registration) = {"chrdev", "cdev", "class", "device", "driver"}
  /\ Registration[5].res = "driver"
<1>1. Len(Registration) = 5 /\ \A k \in 1..5 : ~Registration[k].goOn
  BY DEF Registration, Bare, Ask
<1>2. /\ Registration[1].undo = {<<>>} /\ Registration[2].undo = {<<"chrdev">>}
      /\ Registration[3].undo = {<<"chrdev", "cdev">>}
      /\ Registration[4].undo = {<<"chrdev", "cdev", "class">>}
      /\ Registration[5].undo = {<<"chrdev", "cdev", "class", "device">>}
  BY DEF Registration, Bare, Ask
<1>3. /\ Registration[1].res = "chrdev" /\ Registration[2].res = "cdev"
      /\ Registration[3].res = "class" /\ Registration[4].res = "device"
      /\ Registration[5].res = "driver"
  BY DEF Registration, Bare, Ask
<1>4. /\ Got(Registration, 1) = {} /\ Got(Registration, 2) = {"chrdev"}
      /\ Got(Registration, 3) = {"chrdev", "cdev"}
      /\ Got(Registration, 4) = {"chrdev", "cdev", "class"}
      /\ Got(Registration, 5) = {"chrdev", "cdev", "class", "device"}
      /\ Got(Registration, 6) = {"chrdev", "cdev", "class", "device", "driver"}
  BY <1>3 DEF Got
<1> QED
  BY <1>1, <1>2, <1>3, <1>4 DEF All

LEMMA PlatformUndoes == 
  ASSUME NEW p, NEW r, All(p) \cap Entries = {}
  PROVE  Undoes(Platform(p, r))
<1> DEFINE s == Platform(p, r)
<1>1. s.init = Registration /\ s.probe = p /\ s.exit = Withdrawal
  BY DEF Platform
<1>2. Set(Withdrawal) = {"chrdev", "cdev", "class", "device", "driver"}
  BY Tuples DEF Withdrawal
<1>3. ASSUME NEW k \in 1..5, NEW u \in Registration[k].undo
      PROVE  Got(Registration, k) \subseteq Set(u)
  <2>1. k = 1 \/ k = 2 \/ k = 3 \/ k = 4 \/ k = 5
    OBVIOUS
  <2> QED
    BY <1>3, <2>1, RegistrationSteps, Tuples
<1> QED
  BY <1>1, <1>2, <1>3, RegistrationSteps DEF Undoes, Entries

\* What the probe of each driver asks for.
LEMMA ProbesAsk ==
  /\ All(Emio.probe) = {"region1", "map1"}
  /\ All(MioProbe) = {"region1", "map1", "region2", "map2", "irq"}
  /\ All(EncoderProbe) = {"region1", "map1", "irq"}
  /\ All(PwmProbe) = {"region1", "map1", "region2", "map2"}
  /\ All(TpgProbe) = {"region1", "map1", "region2", "map2"}
  /\ All(VdmaProbe) = {"irq", "region1", "map1", "region2", "map2"}
  /\ All(Bmp280Probe) = {"irq", "map1", "map2", "map3"}
  /\ All(<<>>) = {}
<1>1. All(Emio.probe) = {"region1", "map1"}
  BY DEF All, Got, Emio, Platform, Bare, Ask
<1>2. All(MioProbe) = {"region1", "map1", "region2", "map2", "irq"}
  BY DEF All, Got, MioProbe, Bare, Ask
<1>3. All(EncoderProbe) = {"region1", "map1", "irq"}
  BY DEF All, Got, EncoderProbe, Bare, Ask
<1>4. All(PwmProbe) = {"region1", "map1", "region2", "map2"}
  BY DEF All, Got, PwmProbe, Bare, Ask
<1>5. All(TpgProbe) = {"region1", "map1", "region2", "map2"}
  BY DEF All, Got, TpgProbe, Bare, Ask
<1>6. All(VdmaProbe) = {"irq", "region1", "map1", "region2", "map2"}
  BY DEF All, Got, VdmaProbe, Bare, Ask
<1>7. All(Bmp280Probe) = {"irq", "map1", "map2", "map3"}
  BY DEF All, Got, Bmp280Probe, Bare, Ask
<1>8. All(<<>>) = {}
  BY DEF All, Got
<1> QED
  BY <1>1, <1>2, <1>3, <1>4, <1>5, <1>6, <1>7, <1>8

LEMMA WithdrawalOrder ==
  /\ Set(Withdrawal) = {"chrdev", "cdev", "class", "device", "driver"}
  /\ Distinct(Withdrawal) /\ ClassLast(Withdrawal)
<1>1. Set(Withdrawal) = {"chrdev", "cdev", "class", "device", "driver"}
  BY Tuples DEF Withdrawal
<1>2. Distinct(Withdrawal)
  BY DEF Distinct, Withdrawal
<1>3. ClassLast(Withdrawal)
  BY DEF ClassLast, Withdrawal
<1> QED
  BY <1>1, <1>2, <1>3

LEMMA NoDevice == \A q : "device" \notin Set(q) => ClassLast(q)
  BY DEF Set, ClassLast

LEMMA ClientSteps ==
  /\ Len(ClientInit) = 3 /\ \A k \in 1..3 : ~ClientInit[k].goOn
  /\ Got(ClientInit, 1) = {} /\ ClientInit[1].undo = {<<>>}
  /\ Got(ClientInit, 2) = {"adapter"} /\ ClientInit[2].undo = {<<"adapter">>}
  /\ Got(ClientInit, 3) = {"adapter", "client"} /\ ClientInit[3].undo = {<<"client">>}
  /\ All(ClientInit) = {"adapter", "client", "driver"}
<1>1. Len(ClientInit) = 3 /\ \A k \in 1..3 : ~ClientInit[k].goOn
  BY DEF ClientInit, Bare, Ask
<1>2. /\ ClientInit[1].undo = {<<>>} /\ ClientInit[2].undo = {<<"adapter">>}
      /\ ClientInit[3].undo = {<<"client">>}
  BY DEF ClientInit, Bare, Ask
<1>3. /\ ClientInit[1].res = "adapter" /\ ClientInit[2].res = "client"
      /\ ClientInit[3].res = "driver"
  BY DEF ClientInit, Bare, Ask
<1>4. /\ Got(ClientInit, 1) = {} /\ Got(ClientInit, 2) = {"adapter"}
      /\ Got(ClientInit, 3) = {"adapter", "client"}
      /\ Got(ClientInit, 4) = {"adapter", "client", "driver"}
  BY <1>3 DEF Got
<1> QED
  BY <1>1, <1>2, <1>4 DEF All

LEMMA ClientsQualify ==
  ASSUME NEW s \in {Compass, Ov7670}
  PROVE  Undoes(s) /\ Clears(s) /\ Owns(s) /\ Tidy(s)
<1>1. s.init = ClientInit /\ s.probe = <<>> /\ s.remove = <<>> /\ s.exit = <<"driver", "client">>
  BY DEF Compass, Ov7670, ClientExit
<1>2. Set(s.exit) = {"driver", "client"} /\ Distinct(s.exit) /\ Set(s.remove) = {} /\ Distinct(s.remove)
  BY <1>1, Tuples
<1>3. ASSUME NEW k \in 1..3, NEW u \in ClientInit[k].undo
      PROVE  /\ Got(ClientInit, k) \cap Entries \subseteq Set(u)
             /\ Distinct(u) /\ Set(u) \subseteq Got(ClientInit, k) /\ "device" \notin Set(u)
  <2>1. k = 1 \/ k = 2 \/ k = 3
    OBVIOUS
  <2> QED
    BY <1>3, <2>1, ClientSteps, Tuples DEF Entries
<1>4. Undoes(s)
  BY <1>1, <1>2, <1>3, ClientSteps, ProbesAsk DEF Undoes, Entries
<1>5. Clears(s)
  BY <1>1, <1>2, ClientSteps, ProbesAsk, NoDevice DEF Clears
<1>6. Owns(s)
  BY <1>1, <1>2, ClientSteps, ProbesAsk, NoDevice DEF Owns
<1>7. Tidy(s)
  <2>1. Len(s.probe) = 0
    BY <1>1
  <2> QED
    BY <1>1, <1>3, <2>1, ClientSteps DEF Tidy
<1> QED
  BY <1>4, <1>5, <1>6, <1>7

\* The eighth driver changes the last error path of its registration.
LEMMA Bmp280Qualifies == Undoes(Bmp280) /\ Clears(Bmp280)
<1>1. /\ Bmp280.init = Bmp280Init /\ Bmp280.probe = Bmp280Probe
      /\ Bmp280.remove = <<"irqOfIsr", "map1", "map2", "map3">>
      /\ Bmp280.exit = <<"map1", "map2", "map3", "irq">> \o Withdrawal
  BY DEF Bmp280
<1>2. /\ {"chrdev", "cdev", "class", "device", "driver"} \subseteq Set(Bmp280.exit)
      /\ {"map1", "map2", "map3", "irq"} \subseteq Set(Bmp280.exit)
      /\ ClassLast(Bmp280.exit)
  <2>1. <<"map1", "map2", "map3", "irq">> \in Seq(Things) /\ Withdrawal \in Seq(Things)
    BY DEF Things, Names, Withdrawal
  <2>2. Set(Withdrawal) = {"chrdev", "cdev", "class", "device", "driver"}
    BY WithdrawalOrder
  <2>3. Set(<<"map1", "map2", "map3", "irq">>) = {"map1", "map2", "map3", "irq"}
    BY Tuples
  <2>4. Set(<<"map1", "map2", "map3", "irq">> \o Withdrawal)
          = Set(<<"map1", "map2", "map3", "irq">>) \cup Set(Withdrawal)
    BY <2>1, SetOfConcat
  <2>5. ClassLast(<<"map1", "map2", "map3", "irq">> \o Withdrawal)
    BY <2>1, <2>3, ClassLastConcat, WithdrawalOrder
  <2> QED
    BY <1>1, <2>2, <2>3, <2>4, <2>5
<1>3. /\ Len(Bmp280Init) = 5 /\ \A k \in 1..4 : Bmp280Init[k] = Registration[k]
      /\ Bmp280Init[5].undo = {TakeBack} /\ Bmp280Init[5].res = "driver"
      /\ Registration[5].res = "driver"
  <2> DEFINE x == Ask("driver", {TakeBack})
             T == {Registration[k] : k \in 1..5} \cup {x}
  <2>1. Registration \in [1..5 -> T] /\ Registration[5].res = "driver"
    BY DEF Registration, Ask
  <2>2. x.undo = {TakeBack} /\ x.res = "driver"
    BY DEF Ask
  <2> HIDE DEF x, T
  <2>3. Bmp280Init = [Registration EXCEPT ![5] = x]
    BY DEF Bmp280Init, x
  <2>4. x \in T
    BY DEF T
  <2>5. Bmp280Init \in [1..5 -> T]
    BY <2>1, <2>3, <2>4
  <2>6. Bmp280Init[5] = x /\ \A k \in 1..4 : Bmp280Init[k] = Registration[k]
    BY <2>1, <2>3
  <2> QED
    BY <2>1, <2>2, <2>5, <2>6
<1>4. \A k \in 1..6 : Got(Bmp280Init, k) = Got(Registration, k)
  BY <1>3 DEF Got
<1>5. ASSUME NEW k \in 1..5, NEW u \in Bmp280Init[k].undo
      PROVE  Got(Bmp280Init, k) \subseteq Set(u)
  <2>1. CASE k = 5
    BY <1>3, <1>4, <1>5, <2>1, RegistrationSteps, Tuples DEF TakeBack
  <2>2. CASE k # 5
    <3>1. k = 1 \/ k = 2 \/ k = 3 \/ k = 4
      BY <2>2
    <3> QED
      BY <1>3, <1>4, <1>5, <3>1, RegistrationSteps, Tuples
  <2> QED
    BY <2>1, <2>2
<1>6. All(Bmp280Init) = {"chrdev", "cdev", "class", "device", "driver"}
  BY <1>3, <1>4, RegistrationSteps DEF All
<1>7. Undoes(Bmp280)
  BY <1>1, <1>2, <1>3, <1>5, <1>6, ProbesAsk DEF Undoes, Entries
<1>9. Set(Bmp280.remove) = {"irqOfIsr", "map1", "map2", "map3"}
  BY <1>1, Tuples
<1>8. Clears(Bmp280)
  BY <1>1, <1>2, <1>6, <1>9, ProbesAsk DEF Clears
<1> QED
  BY <1>7, <1>8

LEMMA PlatformClears ==
  ASSUME NEW p, NEW q, \A r \in All(p) : r \in Set(q) \/ Exception(r, Set(q)),
         Set(q) \cap Entries = {}
  PROVE  Clears(Platform(p, q))
<1>1. /\ Platform(p, q).init = Registration /\ Platform(p, q).probe = p
      /\ Platform(p, q).remove = q /\ Platform(p, q).exit = Withdrawal
  BY DEF Platform
<1> QED
  BY <1>1, WithdrawalOrder, RegistrationSteps DEF Clears, Entries

LEMMA PlatformOwns ==
  ASSUME NEW p, NEW q, Set(q) \subseteq All(p) \cup {"irqOfIsr"}, Distinct(q),
         Set(q) \cap Entries = {}
  PROVE  Owns(Platform(p, q))
<1>1. /\ Platform(p, q).init = Registration /\ Platform(p, q).probe = p
      /\ Platform(p, q).remove = q /\ Platform(p, q).exit = Withdrawal
  BY DEF Platform
<1> QED
  BY <1>1, WithdrawalOrder, RegistrationSteps DEF Owns, Entries

LEMMA PlatformTidy ==
  ASSUME NEW p, NEW q,
         \A k \in 1..Len(p) : ~p[k].goOn /\ \A u \in p[k].undo :
           Distinct(u) /\ Set(u) \subseteq Got(p, k) \cup {"irqOfIsr"} /\ Set(u) \cap Entries = {}
  PROVE  Tidy(Platform(p, q))
<1>1. /\ Platform(p, q).init = Registration /\ Platform(p, q).probe = p
      /\ Platform(p, q).exit = Withdrawal
  BY DEF Platform
<1>2. Set(Withdrawal) = {"chrdev", "cdev", "class", "device", "driver"}
  BY Tuples DEF Withdrawal
<1>3. ASSUME NEW k \in 1..5, NEW u \in Registration[k].undo
      PROVE  /\ Distinct(u) /\ Set(u) \subseteq Got(Registration, k)
             /\ "device" \in Set(u) => Registration[k].res = "driver"
  <2>1. CASE k = 1 \/ k = 2 \/ k = 3
    BY <1>3, <2>1, RegistrationSteps, Tuples
  <2>2. CASE k = 4
    <3>1. Distinct(<<"chrdev", "cdev", "class">>)
      BY DEF Distinct
    <3> QED
      BY <1>3, <2>2, <3>1, RegistrationSteps, Tuples
  <2>3. CASE k = 5
    <3>1. Distinct(<<"chrdev", "cdev", "class", "device">>)
      BY DEF Distinct
    <3> QED
      BY <1>3, <2>3, <3>1, RegistrationSteps, Tuples
  <2> QED
    BY <2>1, <2>2, <2>3
<1> QED
  BY <1>1, <1>2, <1>3, RegistrationSteps DEF Tidy, Entries

Platforms == {Emio, Mio, Encoder, Encoder2, Pwm, Tpg, Vdma}

LEMMA PlatformsQualify ==
  ASSUME NEW s \in Platforms
  PROVE  Undoes(s) /\ Clears(s) /\ Owns(s)
<1>1. CASE s = Emio
  <2>1. Set(<<"map1", "region1">>) = {"map1", "region1"} /\ Distinct(<<"map1", "region1">>)
    BY Tuples
  <2>2. Emio.probe = <<Bare("region1"), Bare("map1")>>
    BY DEF Emio, Platform
  <2> QED
    BY <1>1, <2>1, <2>2, ProbesAsk, PlatformUndoes, PlatformClears, PlatformOwns DEF Emio, Entries
<1>2. CASE s = Mio
  <2> DEFINE q == <<"irqOfIsr", "map2", "map1", "region2", "region1">>
  <2>1. Set(q) = {"irqOfIsr", "map2", "map1", "region2", "region1"} /\ Distinct(q)
    BY Tuples DEF Distinct
  <2> QED
    BY <1>2, <2>1, ProbesAsk, PlatformUndoes, PlatformClears, PlatformOwns
       DEF Mio, Entries, Exception
<1>3. CASE s = Encoder \/ s = Encoder2
  <2> DEFINE q == <<"irqOfIsr", "map1", "region1">>
  <2>1. Set(q) = {"irqOfIsr", "map1", "region1"} /\ Distinct(q)
    BY Tuples DEF Distinct
  <2> QED
    BY <1>3, <2>1, ProbesAsk, PlatformUndoes, PlatformClears, PlatformOwns
       DEF Encoder, Encoder2, Entries, Exception
<1>4. CASE s = Pwm
  <2> DEFINE q == <<"map1", "map2", "region1", "region2">>
  <2>1. Set(q) = {"map1", "map2", "region1", "region2"} /\ Distinct(q)
    BY Tuples DEF Distinct
  <2> QED
    BY <1>4, <2>1, ProbesAsk, PlatformUndoes, PlatformClears, PlatformOwns
       DEF Pwm, Entries
<1>5. CASE s = Tpg
  <2> DEFINE q == <<"map1", "region1", "map2", "region2">>
  <2>1. Set(q) = {"map1", "region1", "map2", "region2"} /\ Distinct(q)
    BY Tuples DEF Distinct
  <2> QED
    BY <1>5, <2>1, ProbesAsk, PlatformUndoes, PlatformClears, PlatformOwns
       DEF Tpg, Entries
<1>6. CASE s = Vdma
  <2> DEFINE q == <<"map1", "region1", "map2", "region2", "irq">>
  <2>1. Set(q) = {"map1", "region1", "map2", "region2", "irq"} /\ Distinct(q)
    BY Tuples DEF Distinct
  <2> QED
    BY <1>6, <2>1, ProbesAsk, PlatformUndoes, PlatformClears, PlatformOwns
       DEF Vdma, Entries
<1> QED
  BY <1>1, <1>2, <1>3, <1>4, <1>5, <1>6 DEF Platforms

LEMMA TidyPlatforms ==
  ASSUME NEW s \in {Emio, Mio, Encoder, Encoder2, Pwm}
  PROVE  Tidy(s)
<1>1. CASE s = Emio
  <2> DEFINE a == <<Bare("region1"), Bare("map1")>>
  <2>1. Len(a) = 2 /\ \A k \in 1..2 : ~a[k].goOn /\ a[k].undo = {<<>>}
    BY DEF Bare, Ask
  <2> QED
    BY <1>1, <2>1, Tuples, PlatformTidy DEF Emio
<1>2. CASE s = Pwm
  <2>1. Len(PwmProbe) = 4 /\ \A k \in 1..4 : ~PwmProbe[k].goOn /\ PwmProbe[k].undo = {<<>>}
    BY DEF PwmProbe, Bare, Ask
  <2> QED
    BY <1>2, <2>1, Tuples, PlatformTidy DEF Pwm
<1>3. CASE s = Mio
  <2> DEFINE u == <<"map2", "map1", "region2", "region1">>
  <2>1. /\ Len(MioProbe) = 5 /\ \A k \in 1..4 : ~MioProbe[k].goOn /\ MioProbe[k].undo = {<<>>}
        /\ ~MioProbe[5].goOn /\ MioProbe[5].undo = {<<>>, u}
    BY DEF MioProbe, Bare, Ask
  <2>2. Set(u) = {"map2", "map1", "region2", "region1"} /\ Distinct(u)
    BY Tuples DEF Distinct
  <2>3. Got(MioProbe, 5) = {"region1", "map1", "region2", "map2"}
    BY DEF Got, MioProbe, Bare, Ask
  <2> HIDE DEF u
  <2>4. ASSUME NEW k \in 1..5, NEW v \in MioProbe[k].undo
        PROVE  /\ ~MioProbe[k].goOn
               /\ Distinct(v) /\ Set(v) \subseteq Got(MioProbe, k) /\ Set(v) \cap Entries = {}
    <3>1. CASE k = 5
      BY <2>1, <2>2, <2>3, <2>4, <3>1, Tuples DEF Entries
    <3>2. CASE k # 5
      <4>1. k \in 1..4
        BY <3>2
      <4> QED
        BY <2>1, <2>4, <4>1, Tuples
    <3> QED
      BY <3>1, <3>2
  <2>5. \A k \in 1..5 : ~MioProbe[k].goOn
    BY <2>1
  <2> QED
    BY <1>3, <2>1, <2>4, <2>5, PlatformTidy DEF Mio
<1>4. CASE s = Encoder \/ s = Encoder2
  <2>1. /\ Len(EncoderProbe) = 3 /\ \A k \in 1..3 : ~EncoderProbe[k].goOn
        /\ EncoderProbe[1].undo = {<<>>} /\ EncoderProbe[2].undo = {<<>>}
        /\ EncoderProbe[3].undo = {<<"map1", "region1">>}
    BY DEF EncoderProbe, Bare, Ask
  <2>2. Got(EncoderProbe, 3) = {"region1", "map1"}
    BY DEF Got, EncoderProbe, Bare, Ask
  <2>3. ASSUME NEW k \in 1..3, NEW v \in EncoderProbe[k].undo
        PROVE  Distinct(v) /\ Set(v) \subseteq Got(EncoderProbe, k) /\ Set(v) \cap Entries = {}
    <3>1. k = 1 \/ k = 2 \/ k = 3
      OBVIOUS
    <3> QED
      BY <2>1, <2>2, <2>3, <3>1, Tuples DEF Entries
  <2> QED
    BY <1>4, <2>1, <2>3, PlatformTidy DEF Encoder, Encoder2
<1> QED
  BY <1>1, <1>2, <1>3, <1>4

LEMMA HandlersAskLast ==
  ASSUME NEW s \in {Mio, Encoder, Encoder2}
  PROVE  IrqLast(s)
<1>1. s.init = Registration /\ s.exit = Withdrawal
  BY DEF Mio, Encoder, Encoder2, Platform
<1>2. "irq" \notin All(s.init)
  BY <1>1, RegistrationSteps
<1>3. Set(s.exit) \cap Maps = {}
  BY <1>1, Tuples DEF Withdrawal, Maps
<1>4. ASSUME NEW q, Len(q) \in Nat, q[1] = "irqOfIsr"
      PROVE  Guarded(q)
  <2>1. "irqOfIsr" \notin Maps
    BY DEF Maps
  <2>2. ASSUME NEW i \in 1..Len(q), q[i] \in Maps
        PROVE  1 \in 1..(i - 1)
    BY <1>4, <2>1, <2>2
  <2> QED
    BY <1>4, <2>2 DEF Guarded
<1>5. Guarded(s.remove)
  <2>1. Len(s.remove) \in Nat /\ s.remove[1] = "irqOfIsr"
    BY DEF Mio, Encoder, Encoder2, Platform
  <2> QED
    BY <1>4, <2>1
<1>6. ASSUME NEW p \in {MioProbe, EncoderProbe}
      PROVE  \A k \in 1..Len(p) : ~p[k].goOn /\ (p[k].res = "irq" => k = Len(p))
  <2>1. CASE p = MioProbe
    BY <2>1 DEF MioProbe, Bare, Ask
  <2>2. CASE p = EncoderProbe
    BY <2>2 DEF EncoderProbe, Bare, Ask
  <2> QED
    BY <2>1, <2>2
<1>7. s.probe \in {MioProbe, EncoderProbe}
  BY DEF Mio, Encoder, Encoder2, Platform
<1> QED
  BY <1>2, <1>3, <1>5, <1>6, <1>7 DEF IrqLast

\* The eleven drivers of the repository meet the conditions, each those that the
\* properties ask of it.
THEOREM DriversQualify ==
  Code = MCCode => Withdrawing /\ Clearing /\ Owning /\ AskingLast /\ Named
<1> SUFFICES ASSUME Code = MCCode
             PROVE  Withdrawing /\ Clearing /\ Owning /\ AskingLast /\ Named
  OBVIOUS
<1>1. /\ DOMAIN Code = {"emio", "mio", "encoder", "encoder2", "pwm", "tpg", "vdma", "bmp280",
                        "compass", "ov7670", "ov7670_2"}
      /\ Code["emio"] = Emio /\ Code["mio"] = Mio /\ Code["encoder"] = Encoder
      /\ Code["encoder2"] = Encoder2 /\ Code["pwm"] = Pwm /\ Code["tpg"] = Tpg
      /\ Code["vdma"] = Vdma /\ Code["bmp280"] = Bmp280 /\ Code["compass"] = Compass
      /\ Code["ov7670"] = Ov7670 /\ Code["ov7670_2"] = Camera
  BY DEF MCCode
<1>2. ASSUME NEW d \in DOMAIN Code \ {"ov7670_2"}
      PROVE  Code[d] \in Platforms \cup {Compass, Ov7670, Bmp280}
  BY <1>1 DEF Platforms
<1>3. Withdrawing /\ Clearing
  BY <1>2, PlatformsQualify, ClientsQualify, Bmp280Qualifies DEF Withdrawing, Clearing
<1>4. ASSUME NEW d \in DOMAIN Code \ {"bmp280", "ov7670_2"}
      PROVE  Code[d] \in Platforms \cup {Compass, Ov7670}
  BY <1>1 DEF Platforms
<1>5. ASSUME NEW d \in DOMAIN Code \ {"bmp280", "ov7670_2", "tpg", "vdma"}
      PROVE  Code[d] \in {Emio, Mio, Encoder, Encoder2, Pwm, Compass, Ov7670}
  BY <1>1
<1>6. Owning
  BY <1>4, <1>5, PlatformsQualify, ClientsQualify, TidyPlatforms DEF Owning
<1>7. AskingLast
  BY <1>1, HandlersAskLast DEF AskingLast
<1>8. Named
  BY <1>1 DEF Named, Bmp280, Camera
<1> QED
  BY <1>3, <1>6, <1>7, <1>8

\* So the drivers as they are keep every property, with any number of files open.
THEOREM DriversAreSafe ==
  Code = MCCode => (Spec => [](/\ RegistrationUndone /\ CleanUnload /\ NoStrayRelease
                               /\ HandlerHasRegisters /\ FilesKeepModule))
<1> SUFFICES ASSUME Code = MCCode
             PROVE  Spec => [](/\ RegistrationUndone /\ CleanUnload /\ NoStrayRelease
                               /\ HandlerHasRegisters /\ FilesKeepModule)
  OBVIOUS
<1>1. Withdrawing /\ Clearing /\ Owning /\ AskingLast /\ Named
  BY DriversQualify
<1>2. Spec => []RegistrationUndone
  BY <1>1, NothingStaysRegistered
<1>3. Spec => []CleanUnload
  BY <1>1, UnloadIsClean
<1>4. Spec => []NoStrayRelease
  BY <1>1, NothingIsGivenBackTwice
<1>5. Spec => []HandlerHasRegisters
  BY <1>1, HandlerFindsRegisters
<1>6. Spec => []FilesKeepModule
  BY <1>1, OwnerKeepsModule
<1> QED
  BY <1>2, <1>3, <1>4, <1>5, <1>6, PTL
=============================================================================
