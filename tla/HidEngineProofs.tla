-------------------------- MODULE HidEngineProofs --------------------------
(***************************************************************************)
(* Proofs about the typing engine, for every command, every choice of the   *)
(* delays and every clock width that satisfy the assumptions of HidEngine.  *)
(***************************************************************************)
EXTENDS HidEngine, SequenceTheorems, TLAPS

Entry == [off : Nat, report : Report]

\* The constants, one by one.
LEMMA Constants ==
    /\ KeyHold \in Nat /\ InterKey \in Nat /\ TypeStart \in Nat /\ RunRelease \in Nat
    /\ RunDelay \in Nat /\ EnterDelay \in Nat /\ EnterEnd \in Nat /\ AcpiDelay \in Nat
    /\ SysRelease \in Nat
  BY DelayAssumption DEF Delays

\* What the proofs use of sequences: concatenation by index ...
LEMMA Concat ==
  ASSUME NEW S, NEW s \in Seq(S), NEW t \in Seq(S)
  PROVE  /\ s \o t \in Seq(S)
         /\ Len(s) \in Nat /\ Len(t) \in Nat
         /\ Len(s \o t) = Len(s) + Len(t)
         /\ \A i \in 1 .. Len(s) : (s \o t)[i] = s[i]
         /\ \A i \in 1 .. Len(t) : (s \o t)[Len(s) + i] = t[i]
  BY ConcatProperties, LenProperties

\* ... and a sequence whose elements all lie in a set.
LEMMA SeqOf ==
  ASSUME NEW S, NEW T, NEW s \in Seq(S), \A i \in 1 .. Len(s) : s[i] \in T
  PROVE  s \in Seq(T)
<1>1. Len(s) \in Nat /\ s = [i \in 1 .. Len(s) |-> s[i]]
  BY LenProperties
<1>2. s \in [1 .. Len(s) -> T]
  BY <1>1
<1> QED
  BY <1>1, <1>2, SeqDef

\* Every report a script is made of is a report.
LEMMA ReportTypes ==
    /\ ReleaseAll \in Report
    /\ \A m, k \in Nat : Keyboard(m, k) \in Report
    /\ \A p \in Nat : SysCtrl(p) \in Report
  BY DEF ReleaseAll, Keyboard, SysCtrl, Report

\* type_string_ queues two well-formed events per keystroke and returns a
\* natural offset.
LEMMA TypeStringType ==
  ASSUME NEW start \in Nat
  PROVE  /\ TypeString(start) \in Seq(Entry)
         /\ Len(TypeString(start)) = 2 * Len(Command)
         /\ TypeEnd(start) \in Nat
         /\ \A k \in 1 .. Len(Command) : TypeString(start)[2 * k].report = ReleaseAll
<1> DEFINE n == 2 * Len(Command)
<1> DEFINE step == KeyHold + InterKey
<1>1. /\ Len(Command) \in Nat /\ n \in Nat /\ step \in Nat
      /\ \A k \in 1 .. Len(Command) : Command[k].modifier \in Nat /\ Command[k].keycode \in Nat
  <2>1. Len(Command) \in Nat
    BY CommandAssumption
  <2>2. \A k \in 1 .. Len(Command) : Command[k] \in [modifier : Nat, keycode : Nat \ {0}]
    BY CommandAssumption, ElementOfSeq
  <2> QED
    BY <2>1, <2>2, Constants
<1>2. \A k \in Nat : k * (KeyHold + InterKey) \in Nat
  <2> HIDE DEF step
  <2>1. \A k \in Nat : k * step \in Nat
    BY <1>1
  <2> QED
    BY <2>1 DEF step
<1>3. \A k \in 1 .. Len(Command) : KeyTime(start, k) \in Nat
  <2> SUFFICES ASSUME NEW k \in 1 .. Len(Command)
               PROVE  KeyTime(start, k) \in Nat
    OBVIOUS
  <2>1. k - 1 \in Nat
    BY <1>1
  <2>2. (k - 1) * (KeyHold + InterKey) \in Nat
    BY <2>1, <1>2
  <2> QED
    BY <2>2 DEF KeyTime
<1>4. ASSUME NEW i \in 1 .. n
      PROVE  TypeString(start)[i] \in Entry
  <2> DEFINE k == (i + 1) \div 2
  <2>1. k \in 1 .. Len(Command)
    BY <1>1
  <2>2. KeyTime(start, k) \in Nat /\ KeyTime(start, k) + KeyHold \in Nat
    BY <2>1, <1>3, Constants
  <2>3. Keyboard(Command[k].modifier, Command[k].keycode) \in Report
    BY <1>1, <2>1, ReportTypes
  <2> HIDE DEF k
  <2>4. /\ At(KeyTime(start, k), Keyboard(Command[k].modifier, Command[k].keycode)) \in Entry
        /\ At(KeyTime(start, k) + KeyHold, ReleaseAll) \in Entry
    BY <2>2, <2>3, ReportTypes DEF At, Entry
  <2> QED
    BY <2>4 DEF TypeString, k
<1>5. TypeString(start) \in Seq(Entry) /\ Len(TypeString(start)) = n
  <2>1. TypeString(start) = [i \in 1 .. n |-> TypeString(start)[i]]
    BY DEF TypeString
  <2> QED
    BY <2>1, <1>1, <1>4
<1>6. TypeEnd(start) \in Nat
  <2>1. Len(Command) * (KeyHold + InterKey) \in Nat
    BY <1>1, <1>2
  <2> QED
    BY <2>1 DEF TypeEnd
<1>7. ASSUME NEW k \in 1 .. Len(Command)
      PROVE  TypeString(start)[2 * k].report = ReleaseAll
  <2>1. 2 * k \in 1 .. n /\ (2 * k) % 2 # 1
    BY <1>1
  <2> QED
    BY <2>1 DEF TypeString, At
<1> QED
  BY <1>5, <1>6, <1>7

LEMMA SysPressType ==
  ASSUME NEW start \in Nat, NEW p \in Nat
  PROVE  /\ SysPress(start, p) \in Seq(Entry)
         /\ Len(SysPress(start, p)) = 2
         /\ \A i \in 1 .. 2 : SysPress(start, p)[i].report.kind = "sys"
<1>1. SysCtrl(p) \in Report /\ SysCtrl(0) \in Report
  BY ReportTypes
<1>2. /\ At(start, SysCtrl(p)) \in Entry /\ At(start + SysRelease, SysCtrl(0)) \in Entry
      /\ At(start, SysCtrl(p)).report.kind = "sys"
      /\ At(start + SysRelease, SysCtrl(0)).report.kind = "sys"
  BY <1>1, Constants DEF At, Entry, SysCtrl
<1> QED
  BY <1>2 DEF SysPress

\* The macro is well formed and its last event releases every key.
LEMMA ForceMacroType ==
  /\ ForceMacro(0) \in Seq(Entry)
  /\ Len(ForceMacro(0)) \in Nat \ {0}
  /\ ForceMacro(0)[Len(ForceMacro(0))].report = ReleaseAll
  /\ ForceEnd(0) \in Nat
<1> DEFINE start == 0 + RunDelay
           typed == TypeString(start)
           runs == << At(0, Keyboard(LeftGui, KeyR)), At(0 + RunRelease, ReleaseAll) >>
           enter == << At(TypeEnd(start) + EnterDelay, Keyboard(0, KeyEnter)),
                       At(ForceEnd(0), ReleaseAll) >>
<1>1. start \in Nat
  BY Constants
<1>2. typed \in Seq(Entry) /\ TypeEnd(start) \in Nat
  BY <1>1, TypeStringType
<1>3. ForceEnd(0) \in Nat
  BY <1>2, Constants DEF ForceEnd
<1>4. /\ Keyboard(LeftGui, KeyR) \in Report /\ Keyboard(0, KeyEnter) \in Report
      /\ ReleaseAll \in Report
  BY ReportTypes DEF LeftGui, KeyR, KeyEnter
<1>5. runs \in Seq(Entry)
  <2>1. /\ At(0, Keyboard(LeftGui, KeyR)) \in Entry
        /\ At(0 + RunRelease, ReleaseAll) \in Entry
    BY <1>4, Constants DEF At, Entry
  <2> QED
    BY <2>1
<1>6. enter \in Seq(Entry) /\ Len(enter) = 2 /\ enter[2].report = ReleaseAll
  <2>1. /\ At(TypeEnd(start) + EnterDelay, Keyboard(0, KeyEnter)) \in Entry
        /\ At(ForceEnd(0), ReleaseAll) \in Entry
        /\ At(ForceEnd(0), ReleaseAll).report = ReleaseAll
    BY <1>2, <1>3, <1>4, Constants DEF At, Entry
  <2> QED
    BY <2>1
<1> HIDE DEF typed, runs, enter
<1>7. runs \o typed \in Seq(Entry)
  BY <1>2, <1>5
<1>8. ForceMacro(0) = (runs \o typed) \o enter
  BY DEF ForceMacro, runs, typed, enter, start
<1>9. ASSUME NEW s \in Seq(Entry)
      PROVE  /\ s \o enter \in Seq(Entry)
             /\ Len(s) \in Nat
             /\ Len(s \o enter) = Len(s) + 2
             /\ (s \o enter)[Len(s) + 2] = enter[2]
  BY <1>6, Concat
<1> QED
  <2> DEFINE front == runs \o typed
  <2> HIDE DEF front
  <2>1. ForceMacro(0) = front \o enter
    BY <1>8 DEF front
  <2>2. /\ Len(front) \in Nat
        /\ front \o enter \in Seq(Entry)
        /\ Len(front \o enter) = Len(front) + 2
        /\ (front \o enter)[Len(front) + 2] = enter[2]
    BY <1>7, <1>9 DEF front
  <2> QED
    <3>1. Len(ForceMacro(0)) = Len(front) + 2
      BY <2>1, <2>2
    <3>2. ForceMacro(0)[Len(front) + 2] = enter[2]
      BY <2>1, <2>2
    <3>3. ForceMacro(0)[Len(ForceMacro(0))] = enter[2]
      BY <3>1, <3>2, Zenon
    <3>4. Len(ForceMacro(0)) \in Nat \ {0}
      BY <2>2, <3>1
    <3> QED
      BY <1>3, <1>6, <2>1, <2>2, <3>3, <3>4

\* Every script is a non-empty sequence of entries that begins at offset 0 ...
LEMMA ScriptType ==
  ASSUME NEW a \in Actions
  PROVE  /\ Body[a] \in Seq(Entry)
         /\ Script[a] = Lead \o Body[a]
         /\ Script[a] \in Seq([off : 0 .. MaxAge, report : Report])
         /\ Len(Script[a]) = Len(Body[a]) + 1
         /\ Script[a][1] = At(0, ReleaseAll)
         /\ \A i \in 1 .. Len(Body[a]) : Script[a][1 + i] = Body[a][i]
<1>1. Script[a] = Lead \o Body[a]
  BY DEF Script
<1>2. Body[a] \in Seq(Entry)
  <2>1. TypeString(TypeStart) \in Seq(Entry)
    BY TypeStringType, Constants
  <2>2. SysPress(0, PowerDown) \in Seq(Entry) /\ SysPress(0, Sleep) \in Seq(Entry)
    BY SysPressType DEF PowerDown, Sleep
  <2>3. ForceMacro(0) \o SysPress(ForceEnd(0) + AcpiDelay, PowerDown) \in Seq(Entry)
    <3>1. ForceEnd(0) + AcpiDelay \in Nat /\ PowerDown \in Nat
      BY ForceMacroType, Constants DEF PowerDown
    <3>2. SysPress(ForceEnd(0) + AcpiDelay, PowerDown) \in Seq(Entry)
      BY <3>1, SysPressType
    <3> QED
      BY <3>2, ForceMacroType
  <2> QED
    <3>1. /\ Body["type_test"] = TypeString(TypeStart)
          /\ Body["force_shutdown"] = ForceMacro(0)
          /\ Body["acpi_shutdown"] = SysPress(0, PowerDown)
          /\ Body["auto_shutdown"] =
                ForceMacro(0) \o SysPress(ForceEnd(0) + AcpiDelay, PowerDown)
          /\ Body["sleep"] = SysPress(0, Sleep)
      BY DEF Body
    <3> QED
      BY <2>1, <2>2, <2>3, <3>1, ForceMacroType DEF Actions
<1>3. Lead \in Seq(Entry) /\ Len(Lead) = 1 /\ Lead[1] = At(0, ReleaseAll)
  BY ReportTypes DEF Lead, At, Entry
<1>4. /\ Script[a] \in Seq(Entry) /\ Len(Script[a]) = Len(Body[a]) + 1
      /\ Script[a][1] = At(0, ReleaseAll)
      /\ \A i \in 1 .. Len(Body[a]) : Script[a][1 + i] = Body[a][i]
  <2>1. Len(Body[a]) \in Nat
    BY <1>2, LenProperties
  <2>2. /\ Lead \o Body[a] \in Seq(Entry)
        /\ Len(Lead \o Body[a]) = Len(Body[a]) + 1
        /\ (Lead \o Body[a])[1] = Lead[1]
        /\ \A i \in 1 .. Len(Body[a]) : (Lead \o Body[a])[1 + i] = Body[a][i]
    <3> DEFINE s == Lead
               t == Body[a]
    <3>1. s \in Seq(Entry) /\ t \in Seq(Entry) /\ 1 \in 1 .. Len(s)
      BY <1>2, <1>3
    <3> HIDE DEF s, t
    <3>2. /\ s \o t \in Seq(Entry)
          /\ Len(s \o t) = Len(s) + Len(t)
          /\ (s \o t)[1] = s[1]
          /\ \A i \in 1 .. Len(t) : (s \o t)[Len(s) + i] = t[i]
      BY <3>1, Concat
    <3> QED
      BY <3>2, <1>3, <2>1 DEF s, t
  <2> QED
    BY <1>1, <1>3, <2>2
<1>5. \A i \in 1 .. Len(Script[a]) : Script[a][i] \in [off : 0 .. MaxAge, report : Report]
  <2> SUFFICES ASSUME NEW i \in 1 .. Len(Script[a])
               PROVE  Script[a][i] \in [off : 0 .. MaxAge, report : Report]
    OBVIOUS
  <2>1. Script[a][i] \in Entry
    BY <1>4, ElementOfSeq
  <2>2. Script[a][i].off <= MaxAge
    BY <1>4, ScriptAssumption
  <2> QED
    BY <2>1, <2>2, ClockAssumption DEF Entry
<1>6. Script[a] \in Seq([off : 0 .. MaxAge, report : Report])
  BY <1>4, <1>5, SeqOf
<1> QED
  BY <1>1, <1>2, <1>4, <1>6

\* In every script some event releases all keys and no key is pressed after it.
LEMMA ScriptSettles ==
  ASSUME NEW a \in Actions
  PROVE  \E j \in 1 .. Len(Script[a]) :
            /\ Script[a][j].report = ReleaseAll
            /\ \A k \in j + 1 .. Len(Script[a]) : Script[a][k].report.kind = "sys"
<1> DEFINE body == Body[a]
           n == Len(Body[a])
<1>0. body \in Seq(Entry) /\ n \in Nat
  BY ScriptType, LenProperties
<1>1. /\ Len(Script[a]) = n + 1
      /\ Script[a][1].report = ReleaseAll
      /\ \A i \in 1 .. n : Script[a][i + 1] = body[i]
  <2>1. Script[a][1].report = ReleaseAll
    BY ScriptType DEF At
  <2>2. \A i \in 1 .. n : Script[a][1 + i] = body[i] /\ i + 1 = 1 + i
    BY <1>0, ScriptType
  <2>3. Len(Script[a]) = n + 1
    BY ScriptType
  <2> QED
    BY <2>1, <2>2, <2>3
<1>2. CASE \A i \in 1 .. n : body[i].report.kind = "sys"
  <2>1. \A k \in 1 + 1 .. Len(Script[a]) : Script[a][k].report.kind = "sys"
    <3> SUFFICES ASSUME NEW k \in 1 + 1 .. n + 1
                 PROVE  Script[a][k].report.kind = "sys"
      BY <1>1
    <3>1. k - 1 \in 1 .. n /\ (k - 1) + 1 = k
      BY <1>0
    <3> QED
      BY <3>1, <1>1, <1>2
  <2> QED
    BY <1>0, <1>1, <2>1
<1>3. ASSUME NEW j \in 1 .. n, body[j].report = ReleaseAll,
             \A i \in j + 1 .. n : body[i].report.kind = "sys"
      PROVE  \E m \in 1 .. Len(Script[a]) :
                /\ Script[a][m].report = ReleaseAll
                /\ \A k \in m + 1 .. Len(Script[a]) : Script[a][k].report.kind = "sys"
  <2>1. \A k \in (j + 1) + 1 .. Len(Script[a]) : Script[a][k].report.kind = "sys"
    <3> SUFFICES ASSUME NEW k \in (j + 1) + 1 .. n + 1
                 PROVE  Script[a][k].report.kind = "sys"
      BY <1>1
    <3>1. k - 1 \in j + 1 .. n /\ k - 1 \in 1 .. n /\ (k - 1) + 1 = k
      BY <1>0
    <3> QED
      BY <3>1, <1>1, <1>3
  <2>2. j + 1 \in 1 .. Len(Script[a]) /\ Script[a][j + 1].report = ReleaseAll
    BY <1>0, <1>1, <1>3
  <2> QED
    BY <2>1, <2>2
<1>4. CASE a = "type_test"
  <2>1. body = TypeString(TypeStart)
    BY <1>4 DEF Body
  <2>2. /\ n = 2 * Len(Command)
        /\ \A k \in 1 .. Len(Command) : body[2 * k].report = ReleaseAll
    BY <2>1, TypeStringType, Constants
  <2>3. Len(Command) \in Nat
    BY CommandAssumption, LenProperties
  <2>4. CASE Len(Command) = 0
    BY <2>2, <2>4, <1>2
  <2>5. CASE Len(Command) # 0
    <3>1. n \in 1 .. n /\ body[n].report = ReleaseAll
      BY <2>2, <2>3, <2>5
    <3> QED
      BY <1>0, <3>1, <1>3
  <2> QED
    BY <2>4, <2>5
<1>5. CASE a = "force_shutdown"
  <2>1. body = ForceMacro(0)
    BY <1>5 DEF Body
  <2>2. n \in 1 .. n /\ body[n].report = ReleaseAll
    BY <2>1, <1>0, ForceMacroType
  <2> QED
    BY <1>0, <2>2, <1>3
<1>6. CASE a \in {"acpi_shutdown", "sleep"}
  <2>1. body = SysPress(0, PowerDown) \/ body = SysPress(0, Sleep)
    BY <1>6 DEF Body
  <2>2. PICK p \in Nat : body = SysPress(0, p)
    BY <2>1 DEF PowerDown, Sleep
  <2>3. Len(SysPress(0, p)) = 2 /\ \A i \in 1 .. 2 : SysPress(0, p)[i].report.kind = "sys"
    BY SysPressType
  <2>4. \A i \in 1 .. n : body[i].report.kind = "sys"
    BY <2>2, <2>3
  <2> QED
    BY <2>4, <1>2
<1>7. CASE a = "auto_shutdown"
  <2> DEFINE macro == ForceMacro(0)
             acpi == SysPress(ForceEnd(0) + AcpiDelay, PowerDown)
             m == Len(ForceMacro(0))
  <2>1. body = macro \o acpi
    BY <1>7 DEF Body
  <2>2. macro \in Seq(Entry) /\ m \in Nat \ {0} /\ macro[m].report = ReleaseAll
    BY ForceMacroType
  <2>3. acpi \in Seq(Entry) /\ Len(acpi) = 2 /\ \A i \in 1 .. 2 : acpi[i].report.kind = "sys"
    <3>1. ForceEnd(0) + AcpiDelay \in Nat /\ PowerDown \in Nat
      BY ForceMacroType, Constants DEF PowerDown
    <3> QED
      BY <3>1, SysPressType
  <2> HIDE DEF macro, acpi
  <2>4. /\ Len(macro \o acpi) = m + 2
        /\ \A i \in 1 .. m : (macro \o acpi)[i] = macro[i]
        /\ \A i \in 1 .. 2 : (macro \o acpi)[m + i] = acpi[i]
    BY <2>2, <2>3, Concat DEF macro
  <2>5. n = m + 2 /\ body[m] = macro[m] /\ body[m + 1] = acpi[1] /\ body[m + 2] = acpi[2]
    BY <2>1, <2>2, <2>4
  <2>6. \A i \in m + 1 .. n : body[i].report.kind = "sys"
    <3> SUFFICES ASSUME NEW i \in m + 1 .. n
                 PROVE  body[i].report.kind = "sys"
      OBVIOUS
    <3>1. i = m + 1 \/ i = m + 2
      BY <2>2, <2>5
    <3> QED
      BY <3>1, <2>3, <2>5
  <2>7. m \in 1 .. n /\ body[m].report = ReleaseAll
    BY <2>2, <2>5
  <2> QED
    BY <2>6, <2>7, <1>3
<1> QED
  BY <1>4, <1>5, <1>6, <1>7 DEF Actions

-----------------------------------------------------------------------------
\* The wrap-around arithmetic recovers the distance of two moments that are
\* less than half the clock's range apart.
LEMMA SignedDistance ==
  ASSUME NEW base \in 0 .. Wrap - 1, NEW x \in 0 .. MaxAge, NEW y \in 0 .. MaxAge
  PROVE  Signed(Minus(Plus(base, x), Plus(base, y))) = x - y
  BY ClockAssumption DEF Signed, Minus, Plus

LEMMA PlusType ==
  ASSUME NEW base \in 0 .. Wrap - 1, NEW x \in 0 .. MaxAge
  PROVE  /\ Plus(base, x) \in 0 .. Wrap - 1
         /\ Plus(base, 0) = base
         /\ Plus(Plus(base, x), 1) = Plus(base, x + 1)
  BY ClockAssumption DEF Plus

LEMMA EventType ==
  ASSUME TypeOK, NEW i \in DOMAIN events
  PROVE  /\ i \in 1 .. Len(events)
         /\ events[i] \in Event
         /\ events[i].off \in 0 .. MaxAge
         /\ events[i].due \in 0 .. Wrap - 1
         /\ events[i].report \in Report
<1>1. events \in Seq(Event) /\ i \in 1 .. Len(events)
  BY LenProperties DEF TypeOK
<1>2. events[i] \in Event
  BY <1>1, ElementOfSeq
<1> QED
  BY <1>1, <1>2 DEF Event

\* In the states of the invariant the comparison of process_events_ is exact.
LEMMA DueIsExact == TypeOK /\ ClockInv => DueExact
<1> SUFFICES ASSUME TypeOK, ClockInv, NEW i \in DOMAIN events
             PROVE  Due(events[i]) <=> events[i].off <= age
  BY DEF DueExact
<1>1. events[i].off \in 0 .. MaxAge /\ age \in 0 .. MaxAge
  BY EventType DEF TypeOK
<1>2. PICK base \in 0 .. Wrap - 1 : now = Plus(base, age)
                                    /\ events[i].due = Plus(base, events[i].off)
  BY DEF ClockInv
<1>3. Signed(Minus(now, events[i].due)) = age - events[i].off
  BY <1>1, <1>2, SignedDistance
<1> QED
  BY <1>1, <1>3 DEF Due

LEMMA InitIInv == Init => IInv
<1> SUFFICES ASSUME Init PROVE IInv
  OBVIOUS
<1>1. TypeOK
  <2>1. /\ <<>> \in Seq(Event) /\ <<>> \in Seq(Report) /\ Len(<<>>) = 0
        /\ Released \in HostState /\ 0 \in 0 .. MaxAge
    BY ClockAssumption DEF Released, HostState
  <2>2. events \in Seq(Event) /\ Len(events) = 0 /\ wire \in Seq(Report) /\ Len(wire) = 0
    BY <2>1 DEF Init
  <2>3. cursor \in 0 .. Len(events) /\ Len(wire) <= 1
    BY <2>2 DEF Init
  <2> QED
    BY <2>1, <2>2, <2>3 DEF Init, TypeOK
<1>2. ClockInv
  <2>1. now \in 0 .. Wrap - 1 /\ age = 0 /\ events = <<>>
    BY DEF Init
  <2>2. 0 \in 0 .. MaxAge
    BY ClockAssumption
  <2>3. now = Plus(now, age)
    BY <2>1, <2>2, PlusType
  <2> QED
    BY <2>1, <2>3 DEF ClockInv
<1>3. SendsDue /\ WireInv /\ KeyInv
  BY DEF Init, SendsDue, WireInv, KeyInv, Settled, HostReleased, Released
<1> QED
  BY <1>1, <1>2, <1>3 DEF IInv

\* Steps of the bus leave the queue and the clock alone.
LEMMA BusStep ==
  ASSUME IInv, UNCHANGED <<now, events, cursor, loopPc, age>>
  PROVE  ClockInv' /\ SendsDue'
  BY DEF IInv, ClockInv, SendsDue

LEMMA TickStep == IInv /\ Tick => IInv'
<1> SUFFICES ASSUME IInv, Tick PROVE IInv'
  OBVIOUS
<1> USE DEF IInv
<1>1. /\ age \in 0 .. MaxAge /\ age' \in 0 .. MaxAge
      /\ now \in 0 .. Wrap - 1 /\ now' \in 0 .. Wrap - 1
  BY ClockAssumption DEF Tick, TypeOK, Plus
<1>2. TypeOK'
  BY <1>1 DEF Tick, TypeOK
<1>3. ClockInv'
  <2>1. CASE events = <<>>
    <3>1. now' = Plus(now', 0)
      BY <1>1, ClockAssumption, PlusType
    <3> QED
      BY <1>1, <2>1, <3>1 DEF Tick, ClockInv
  <2>2. CASE events # <<>>
    <3>1. PICK base \in 0 .. Wrap - 1 :
             /\ now = Plus(base, age)
             /\ \A i \in DOMAIN events : events[i].due = Plus(base, events[i].off)
      BY DEF ClockInv
    <3>2. now' = Plus(base, age')
      BY <1>1, <2>2, <3>1, PlusType DEF Tick
    <3> QED
      BY <2>2, <3>1, <3>2 DEF Tick, ClockInv
  <2> QED
    BY <2>1, <2>2
<1>4. SendsDue'
  <2>1. SUFFICES ASSUME loopPc = "report" PROVE events[cursor + 1].off <= age + 1
    BY DEF Tick, SendsDue, TypeOK
  <2>2. cursor + 1 \in DOMAIN events
    BY <2>1 DEF TypeOK
  <2> QED
    BY <1>1, <2>1, <2>2, EventType DEF SendsDue
<1>5. WireInv' /\ KeyInv'
  BY DEF Tick, WireInv, KeyInv, SettlesLater, Settled, HostReleased
<1> QED
  BY <1>2, <1>3, <1>4, <1>5

\* A press: the script is well formed, starts now, and settles.
LEMMA PressStep == ASSUME NEW a \in Actions, IInv, Press(a) PROVE IInv'
<1> USE DEF IInv
<1> DEFINE n == Len(Script[a])
<1>1. /\ n \in Nat \ {0}
      /\ \A i \in 1 .. n : /\ Script[a][i].off \in 0 .. MaxAge
                           /\ Script[a][i].report \in Report
  <2>1. /\ Script[a] \in Seq([off : 0 .. MaxAge, report : Report])
        /\ n = Len(Body[a]) + 1 /\ Len(Body[a]) \in Nat
    BY ScriptType, LenProperties
  <2>2. \A i \in 1 .. n : Script[a][i] \in [off : 0 .. MaxAge, report : Report]
    BY <2>1, ElementOfSeq
  <2> QED
    BY <2>1, <2>2
<1>2. DOMAIN Script[a] = 1 .. n
  BY ScriptType, LenProperties
<1> HIDE DEF n
<1>3. /\ events' = [i \in 1 .. n |-> [due |-> Plus(now, Script[a][i].off),
                                    off |-> Script[a][i].off,
                                    report |-> Script[a][i].report]]
      /\ cursor' = 0 /\ age' = 0 /\ loopPc' = "top"
      /\ UNCHANGED <<now, mounted, suspended, wire, host>>
  BY <1>2 DEF Press
<1>4. /\ now \in 0 .. Wrap - 1 /\ 0 \in 0 .. MaxAge
      /\ \A i \in 1 .. n : Plus(now, Script[a][i].off) \in 0 .. Wrap - 1
  <2>1. now \in 0 .. Wrap - 1 /\ 0 \in 0 .. MaxAge
    BY ClockAssumption DEF TypeOK
  <2>2. \A x \in 0 .. MaxAge : Plus(now, x) \in 0 .. Wrap - 1
    BY <2>1, PlusType
  <2> QED
    BY <1>1, <2>1, <2>2
<1>5. /\ events' \in Seq(Event) /\ Len(events') = n /\ events' # <<>>
      /\ \A i \in 1 .. n : events'[i] \in Event
  <2>1. \A i \in 1 .. n : [due |-> Plus(now, Script[a][i].off),
                           off |-> Script[a][i].off,
                           report |-> Script[a][i].report] \in Event
    BY <1>1, <1>4 DEF Event
  <2>2. events' \in [1 .. n -> Event]
    BY <1>3, <2>1
  <2>3. events' \in Seq(Event) /\ Len(events') = n
    BY <1>1, <2>2, SeqDef, LenProperties
  <2> QED
    BY <1>1, <2>1, <2>3, <1>3
<1>6. TypeOK'
  BY <1>1, <1>3, <1>4, <1>5 DEF TypeOK
<1>7. ClockInv'
  <2>1. now = Plus(now, 0)
    BY <1>4, PlusType
  <2>2. DOMAIN events' = 1 .. n
    BY <1>3
  <2>3. \A i \in DOMAIN events' : events'[i].due = Plus(now, events'[i].off)
    BY <1>3, <2>2
  <2> QED
    BY <1>3, <1>4, <1>5, <2>1, <2>3 DEF ClockInv
<1>8. SendsDue' /\ WireInv'
  BY <1>3 DEF SendsDue, WireInv
<1>9. KeyInv'
  <2>1. PICK j \in 1 .. n :
           /\ Script[a][j].report = ReleaseAll
           /\ \A k \in j + 1 .. n : Script[a][k].report.kind = "sys"
    BY ScriptSettles DEF n
  <2>2. events'[j].report = ReleaseAll
    BY <1>3, <2>1
  <2>3. \A k \in j + 1 .. n : events'[k].report.kind = "sys"
    BY <1>1, <1>3, <2>1
  <2>4. SettlesLater'
    <3>1. Len(events') = n /\ cursor' + 1 = 1
      <4>1. cursor' = 0
        BY <1>3
      <4> QED
        BY <1>5, <4>1
    <3>2. \E i \in 1 .. n : /\ events'[i].report = ReleaseAll
                            /\ \A k \in i + 1 .. n : events'[k].report.kind = "sys"
      BY <2>2, <2>3
    <3> QED
      BY <3>1, <3>2 DEF SettlesLater
  <2> QED
    BY <2>4 DEF KeyInv
<1> QED
  BY <1>6, <1>7, <1>8, <1>9

\* Giving up on a host that has vanished: it holds nothing.
LEMMA AbortStep == IInv /\ Abort => IInv'
<1> SUFFICES ASSUME IInv, Abort PROVE IInv'
  OBVIOUS
<1> USE DEF IInv
<1>1. /\ events' = <<>> /\ cursor' = 0 /\ age' = 0 /\ loopPc' = "top" /\ ~mounted
      /\ UNCHANGED <<now, mounted, suspended, wire, host>>
  BY DEF Abort, Clear, NextDue
<1>2. <<>> \in Seq(Event) /\ Len(<<>>) = 0 /\ 0 \in 0 .. MaxAge
  BY ClockAssumption
<1>3. TypeOK'
  BY <1>1, <1>2 DEF TypeOK
<1>4. ClockInv'
  <2>1. now \in 0 .. Wrap - 1 /\ now = Plus(now, 0)
    BY <1>2, PlusType DEF TypeOK
  <2> QED
    BY <1>1, <2>1 DEF ClockInv
<1>5. SendsDue' /\ WireInv'
  BY <1>1 DEF SendsDue, WireInv
<1>6. KeyInv'
  BY <1>1 DEF KeyInv, Settled, WireInv, HostReleased, Released
<1> QED
  BY <1>3, <1>4, <1>5, <1>6

\* Deciding to send: the report is due and the endpoint free.
LEMMA TakeStep == IInv /\ Take => IInv'
<1> SUFFICES ASSUME IInv, Take PROVE IInv'
  OBVIOUS
<1> USE DEF IInv
<1>1. TypeOK'
  BY DEF Take, NextDue, TypeOK
<1>2. ClockInv' /\ WireInv' /\ KeyInv'
  BY DEF Take, HidReady, ClockInv, WireInv, KeyInv, SettlesLater, Settled, HostReleased
<1>3. SendsDue'
  <2>1. cursor + 1 \in DOMAIN events /\ Due(events[cursor + 1])
    BY DEF Take, NextDue, TypeOK
  <2>2. events[cursor + 1].off <= age
    BY <2>1, DueIsExact DEF DueExact
  <2> QED
    BY <2>2 DEF Take, SendsDue
<1> QED
  BY <1>1, <1>2, <1>3

\* Sending: the release of all keys passes from the queue to the wire, unless
\* the host has gone, and then it holds nothing.
LEMMA SendStep == IInv /\ SendReport => IInv'
<1> SUFFICES ASSUME IInv, SendReport PROVE IInv'
  OBVIOUS
<1> USE DEF IInv
<1> DEFINE next == cursor + 1
           sent == events[next].report
<1>1. /\ cursor \in Nat /\ Len(events) \in Nat /\ next \in 1 .. Len(events)
      /\ wire = <<>> /\ sent \in Report
  <2>1. next \in 1 .. Len(events) /\ cursor \in Nat /\ Len(events) \in Nat /\ wire = <<>>
    BY LenProperties DEF SendReport, TypeOK, WireInv
  <2> QED
    BY <2>1, EventType, LenProperties DEF TypeOK
<1> HIDE DEF sent
<1>2. /\ loopPc' = "top" /\ wire' = (IF mounted THEN << sent >> ELSE <<>>)
      /\ UNCHANGED <<now, mounted, suspended, host>>
  BY <1>1 DEF SendReport, sent
<1>3. wire' \in Seq(Report) /\ Len(wire') <= 1
  BY <1>1, <1>2
<1>4. /\ ~mounted => host = Released
      /\ mounted => wire' = << sent >> /\ wire' # <<>> /\ wire'[1] = sent
  BY <1>2 DEF WireInv
<1>5. CASE next < Len(events)
  <2>1. cursor' = next /\ UNCHANGED <<events, age>>
    BY <1>5 DEF SendReport
  <2>2. TypeOK'
    BY <1>1, <1>2, <1>3, <1>5, <2>1 DEF TypeOK
  <2>3. ClockInv' /\ SendsDue' /\ WireInv'
    BY <1>2, <2>1 DEF ClockInv, SendsDue, WireInv
  <2>4. KeyInv'
    <3>1. CASE SettlesLater
      <4>1. PICK j \in next .. Len(events) :
               /\ events[j].report = ReleaseAll
               /\ \A k \in j + 1 .. Len(events) : events[k].report.kind = "sys"
        BY <3>1 DEF SettlesLater
      <4>2. CASE j = next
        <5>1. sent = ReleaseAll
          BY <4>1, <4>2 DEF sent
        <5>2. Settled'
          BY <1>1, <1>2, <1>4, <2>1, <4>1, <4>2, <5>1
             DEF Settled, HostReleased, Released
        <5> QED
          BY <5>2 DEF KeyInv
      <4>3. CASE j # next
        <5>1. j \in next + 1 .. Len(events)
          BY <1>1, <4>3
        <5>2. SettlesLater'
          BY <2>1, <4>1, <5>1 DEF SettlesLater
        <5> QED
          BY <5>2 DEF KeyInv
      <4> QED
        BY <4>2, <4>3
    <3>2. CASE Settled
      <4>1. sent.kind = "sys" /\ HostReleased
        BY <1>1, <3>2 DEF Settled, sent
      <4>2. \A k \in next + 1 .. Len(events) : events[k].report.kind = "sys"
        BY <1>1, <3>2 DEF Settled
      <4>3. Settled'
        BY <1>2, <1>4, <2>1, <4>1, <4>2 DEF Settled, HostReleased
      <4> QED
        BY <4>3 DEF KeyInv
    <3> QED
      BY <3>1, <3>2 DEF KeyInv
  <2> QED
    BY <2>2, <2>3, <2>4
<1>6. CASE ~(next < Len(events))
  <2>0. next = Len(events)
    BY <1>1, <1>6
  <2>1. events' = <<>> /\ cursor' = 0 /\ age' = 0
    BY <1>6 DEF SendReport, Clear
  <2>2. /\ <<>> \in Seq(Event) /\ Len(<<>>) = 0 /\ 0 \in 0 .. MaxAge
        /\ now \in 0 .. Wrap - 1 /\ now = Plus(now, 0)
    BY ClockAssumption, PlusType DEF TypeOK
  <2>3. TypeOK'
    BY <1>2, <1>3, <2>1, <2>2 DEF TypeOK
  <2>4. ClockInv' /\ SendsDue' /\ WireInv'
    BY <1>2, <2>1, <2>2 DEF ClockInv, SendsDue, WireInv
  <2>5. sent = ReleaseAll \/ (sent.kind = "sys" /\ HostReleased)
    <3>1. CASE SettlesLater
      BY <1>1, <2>0, <3>1 DEF SettlesLater, sent
    <3>2. CASE Settled
      BY <1>1, <3>2 DEF Settled, sent
    <3> QED
      BY <3>1, <3>2 DEF KeyInv
  <2>6. IF wire' = <<>> THEN HostReleased'
        ELSE wire'[1] = ReleaseAll \/ (wire'[1].kind = "sys" /\ HostReleased')
    BY <1>2, <1>4, <2>5 DEF HostReleased, Released
  <2>7. \A k \in cursor' + 1 .. Len(events') : events'[k].report.kind = "sys"
    BY <2>1, <2>2
  <2> QED
    BY <2>3, <2>4, <2>6, <2>7 DEF KeyInv, Settled
<1> QED
  BY <1>5, <1>6

LEMMA HostPollStep == IInv /\ HostPoll => IInv'
<1> SUFFICES ASSUME IInv, HostPoll PROVE IInv'
  OBVIOUS
<1> USE DEF IInv
<1>1. /\ wire' = <<>> /\ wire # <<>> /\ host' = Apply(host, wire[1]) /\ wire[1] \in Report
      /\ UNCHANGED <<now, events, cursor, loopPc, age, mounted, suspended>>
  BY ElementOfSeq DEF HostPoll, TypeOK
<1>2. host' \in HostState
  BY <1>1 DEF TypeOK, Apply, HostState, Report
<1>3. TypeOK'
  BY <1>1, <1>2 DEF TypeOK
<1>4. ClockInv' /\ SendsDue'
  BY <1>1, BusStep
<1>5. WireInv'
  BY <1>1 DEF WireInv
<1>6. KeyInv'
  <2>1. CASE SettlesLater
    BY <1>1, <2>1 DEF KeyInv, SettlesLater
  <2>2. CASE Settled
    <3>1. wire[1] = ReleaseAll => HostReleased'
      BY <1>1 DEF Apply, ReleaseAll, Keyboard, HostReleased, TypeOK, HostState
    <3>2. wire[1].kind = "sys" /\ HostReleased => HostReleased'
      BY <1>1 DEF Apply, HostReleased, TypeOK, HostState
    <3>3. HostReleased'
      BY <1>1, <2>2, <3>1, <3>2 DEF Settled
    <3> QED
      BY <1>1, <2>2, <3>3 DEF KeyInv, Settled
  <2> QED
    BY <2>1, <2>2 DEF KeyInv
<1> QED
  BY <1>3, <1>4, <1>5, <1>6

LEMMA UnmountStep == IInv /\ Unmount => IInv'
<1> SUFFICES ASSUME IInv, Unmount PROVE IInv'
  OBVIOUS
<1> USE DEF IInv
<1>1. /\ mounted' = FALSE /\ suspended' = FALSE /\ wire' = <<>> /\ host' = Released
      /\ UNCHANGED <<now, events, cursor, loopPc, age>>
  BY DEF Unmount
<1>2. wire' \in Seq(Report) /\ Len(wire') = 0 /\ Released \in HostState
  BY <1>1 DEF Released, HostState
<1>3. TypeOK'
  <2>1. host' \in HostState /\ wire' \in Seq(Report) /\ Len(wire') <= 1
    BY <1>1, <1>2
  <2> QED
    BY <1>1, <2>1 DEF TypeOK
<1>4. ClockInv' /\ SendsDue' /\ WireInv'
  BY <1>1, BusStep DEF WireInv
<1>5. KeyInv'
  BY <1>1 DEF KeyInv, SettlesLater, Settled, HostReleased, Released
<1> QED
  BY <1>3, <1>4, <1>5

LEMMA BusStateStep == IInv /\ (Mount \/ Suspend \/ Resume) => IInv'
<1> SUFFICES ASSUME IInv, Mount \/ Suspend \/ Resume PROVE IInv'
  OBVIOUS
<1> USE DEF IInv
<1>1. UNCHANGED <<now, events, cursor, loopPc, age, wire, host>>
  BY DEF Mount, Suspend, Resume
<1>2. TypeOK'
  BY <1>1 DEF Mount, Suspend, Resume, TypeOK
<1>3. ClockInv' /\ SendsDue'
  BY <1>1, BusStep
<1>4. WireInv' /\ KeyInv'
  BY <1>1 DEF Mount, Suspend, Resume, WireInv, KeyInv, SettlesLater, Settled, HostReleased
<1> QED
  BY <1>2, <1>3, <1>4

LEMMA NextIInv == IInv /\ [Next]_vars => IInv'
<1> SUFFICES ASSUME IInv, [Next]_vars PROVE IInv'
  OBVIOUS
<1>1. CASE Tick
  BY <1>1, TickStep
<1>2. CASE SomePress
  BY <1>2, PressStep DEF SomePress
<1>3. CASE Abort
  BY <1>3, AbortStep
<1>4. CASE Take
  BY <1>4, TakeStep
<1>5. CASE SendReport
  BY <1>5, SendStep
<1>6. CASE HostPoll
  BY <1>6, HostPollStep
<1>7. CASE Unmount
  BY <1>7, UnmountStep
<1>8. CASE Mount \/ Suspend \/ Resume
  BY <1>8, BusStateStep
<1>9. CASE UNCHANGED vars
  BY <1>9 DEF vars, IInv, TypeOK, ClockInv, SendsDue, WireInv, KeyInv, SettlesLater,
              Settled, HostReleased
<1> QED
  BY <1>1, <1>2, <1>3, <1>4, <1>5, <1>6, <1>7, <1>8, <1>9 DEF Next

-----------------------------------------------------------------------------
\* The strengthened invariant holds in every reachable state.
THEOREM Invariance == Spec => []IInv
  BY InitIInv, NextIInv, PTL DEF Spec

\* Types: the cursor stays inside the queue, the endpoint holds one report.
THEOREM TypeCorrect == Spec => []TypeOK
<1>1. IInv => TypeOK
  BY DEF IInv
<1> QED
  BY <1>1, Invariance, PTL

\* The signed comparison of process_events_ says exactly whether an event's
\* offset has passed, for every clock width and however often millis() wraps.
THEOREM DueTimesExact == Spec => []DueExact
<1>1. IInv => DueExact
  BY DueIsExact DEF IInv
<1> QED
  BY <1>1, Invariance, PTL

\* An engine at rest has left no key and no modifier pressed on the host,
\* whatever presses, unplugging and suspension it went through.
THEOREM KeysReleased == Spec => []KeysReleasedWhenIdle
<1>1. IInv => KeysReleasedWhenIdle
  BY DEF IInv, TypeOK, KeyInv, SettlesLater, Settled, HostReleased, KeysReleasedWhenIdle
<1> QED
  BY <1>1, Invariance, PTL

-----------------------------------------------------------------------------
\* The refinement of HidDelivery: what the host is still to receive is what waits in
\* the endpoint and then the reports of the queue from the cursor on.
Todo == wire \o [i \in DOMAIN Unsent |-> Unsent[i].report]
Rest(s, c) == [i \in 1 .. Len(s) - c |-> s[c + i].report]

\* The reports of the unsent events, by index.
LEMMA ReportsOfTail ==
  ASSUME NEW s \in Seq(Event), NEW c \in 0 .. Len(s)
  PROVE  /\ Rest(s, c) \in Seq(Report)
         /\ Len(Rest(s, c)) = Len(s) - c
         /\ [i \in DOMAIN SubSeq(s, c + 1, Len(s)) |-> SubSeq(s, c + 1, Len(s))[i].report]
              = Rest(s, c)
<1> DEFINE u == SubSeq(s, c + 1, Len(s))
<1>1. Len(s) \in Nat /\ c \in Nat /\ c <= Len(s) /\ \A i \in c + 1 .. Len(s) : s[i] \in Event
  BY LenProperties, ElementOfSeq
<1>2. /\ u \in Seq(Event) /\ Len(u) = Len(s) - c
      /\ \A i \in 1 .. Len(s) - c : u[i] = s[c + i]
  <2>1. /\ u \in Seq(Event)
        /\ Len(u) = IF c + 1 <= Len(s) THEN Len(s) - (c + 1) + 1 ELSE 0
        /\ \A i \in 1 .. Len(s) - (c + 1) + 1 : u[i] = s[c + 1 + i - 1]
    <3>1. c + 1 \in Int /\ Len(s) \in Int
      BY <1>1
    <3> QED
      BY <1>1, <3>1, SubSeqProperties
  <2> HIDE DEF u
  <2>2. \A i \in 1 .. Len(s) - c : u[i] = s[c + i]
    <3> SUFFICES ASSUME NEW i \in 1 .. Len(s) - c PROVE u[i] = s[c + i]
      OBVIOUS
    <3>1. i \in 1 .. Len(s) - (c + 1) + 1 /\ c + 1 + i - 1 = c + i
      BY <1>1
    <3> QED
      BY <2>1, <3>1
  <2>3. Len(u) = Len(s) - c
    BY <1>1, <2>1
  <2> QED
    BY <2>1, <2>2, <2>3
<1> HIDE DEF u
<1>3. DOMAIN u = 1 .. Len(s) - c
  BY <1>2, LenProperties
<1>4. \A i \in 1 .. Len(s) - c : u[i].report = s[c + i].report
  BY <1>2
<1>5. \A i \in 1 .. Len(s) - c : s[c + i].report \in Report
  <2> SUFFICES ASSUME NEW i \in 1 .. Len(s) - c PROVE s[c + i].report \in Report
    OBVIOUS
  <2>1. s[c + i] \in Event
    BY <1>1
  <2> QED
    BY <2>1 DEF Event
<1>6. Rest(s, c) \in [1 .. Len(s) - c -> Report] /\ Len(s) - c \in Nat
  <2>1. Rest(s, c) \in [1 .. Len(s) - c -> Report]
    BY <1>5, Zenon DEF Rest
  <2>2. Len(s) - c \in Nat
    BY <1>1
  <2> QED
    BY <2>1, <2>2
<1>7. [i \in DOMAIN u |-> u[i].report] = Rest(s, c)
  BY <1>3, <1>4 DEF Rest
<1>8. Rest(s, c) \in Seq(Report) /\ Len(Rest(s, c)) = Len(s) - c
  BY <1>6, SeqDef, LenProperties
<1> QED
  BY <1>7, <1>8 DEF u

\* What is still to be received: the endpoint, then the rest of the queue.
LEMMA TodoForm ==
  ASSUME NEW w \in Seq(Report), NEW s \in Seq(Event), NEW c \in 0 .. Len(s), NEW t,
         t = w \o [i \in DOMAIN SubSeq(s, c + 1, Len(s)) |->
                     SubSeq(s, c + 1, Len(s))[i].report]
  PROVE  /\ t = w \o Rest(s, c)
         /\ t \in Seq(Report) /\ Rest(s, c) \in Seq(Report)
         /\ w = <<>> => t = Rest(s, c)
<1>1. /\ [i \in DOMAIN SubSeq(s, c + 1, Len(s)) |-> SubSeq(s, c + 1, Len(s))[i].report]
           = Rest(s, c)
      /\ Rest(s, c) \in Seq(Report)
  BY ReportsOfTail
<1>2. w \o Rest(s, c) \in Seq(Report) /\ <<>> \o Rest(s, c) = Rest(s, c)
  BY <1>1, ConcatProperties, ConcatEmptySeq
<1> QED
  BY <1>1, <1>2

\* ... in this state and in the next one.
LEMMA TodoRest ==
  ASSUME TypeOK
  PROVE  /\ Todo = wire \o Rest(events, cursor)
         /\ Todo \in Seq(Report) /\ Rest(events, cursor) \in Seq(Report)
         /\ wire = <<>> => Todo = Rest(events, cursor)
  BY TodoForm DEF TypeOK, Todo, Unsent

LEMMA TodoRestNext ==
  ASSUME TypeOK'
  PROVE  /\ Todo' = wire' \o Rest(events', cursor')
         /\ Todo' \in Seq(Report) /\ Rest(events', cursor') \in Seq(Report)
         /\ wire' = <<>> => Todo' = Rest(events', cursor')
  BY TodoForm DEF TypeOK, Todo, Unsent

\* The endpoint holds at most one report.
LEMMA OneReport ==
  ASSUME TypeOK, wire # <<>>
  PROVE  wire \in Seq(Report) /\ Len(wire) = 1 /\ wire[1] \in Report /\ wire = << wire[1] >>
<1>1. wire \in Seq(Report) /\ Len(wire) \in Nat /\ Len(wire) <= 1 /\ Len(wire) # 0
  BY EmptySeq, LenProperties DEF TypeOK
<1>2. Len(wire) = 1
  BY <1>1
<1>3. wire[1] \in Report
  BY <1>1, <1>2, ElementOfSeq
<1>4. wire = [i \in 1 .. 1 |-> wire[i]]
  BY <1>1, <1>2, LenProperties
<1> QED
  BY <1>1, <1>2, <1>3, <1>4

\* A report in the endpoint is what the host receives next.
LEMMA HeadOfTodo ==
  ASSUME TypeOK, wire # <<>>
  PROVE  Todo # <<>> /\ Head(Todo) = wire[1] /\ Tail(Todo) = Rest(events, cursor)
<1> DEFINE r == Rest(events, cursor)
<1>1. r \in Seq(Report) /\ Todo = wire \o r /\ wire \in Seq(Report) /\ Len(wire) = 1
  BY TodoRest, OneReport, ReportsOfTail DEF TypeOK
<1> HIDE DEF r
<1>2. /\ Todo \in Seq(Report) /\ Len(r) \in Nat /\ Len(Todo) = 1 + Len(r)
      /\ Todo[1] = wire[1]
      /\ \A i \in 1 .. Len(r) : Todo[1 + i] = r[i]
  <2>1. /\ wire \o r \in Seq(Report) /\ Len(r) \in Nat
        /\ Len(wire \o r) = Len(wire) + Len(r)
        /\ \A i \in 1 .. Len(wire) : (wire \o r)[i] = wire[i]
        /\ \A i \in 1 .. Len(r) : (wire \o r)[Len(wire) + i] = r[i]
    <3> DEFINE w == wire
    <3>1. w \in Seq(Report) /\ r \in Seq(Report)
      BY <1>1
    <3> HIDE DEF w
    <3>2. /\ w \o r \in Seq(Report) /\ Len(w) \in Nat /\ Len(r) \in Nat
          /\ Len(w \o r) = Len(w) + Len(r)
          /\ \A i \in 1 .. Len(w) : (w \o r)[i] = w[i]
          /\ \A i \in 1 .. Len(r) : (w \o r)[Len(w) + i] = r[i]
      BY <3>1, Concat
    <3> QED
      BY <3>2 DEF w
  <2>2. 1 \in 1 .. Len(wire)
    BY <1>1
  <2> QED
    BY <1>1, <2>1, <2>2
<1>3. Todo # <<>>
  BY <1>2
<1>4. Head(Todo) = wire[1]
  BY <1>2, <1>3
<1>5. /\ Tail(Todo) \in Seq(Report) /\ Len(Tail(Todo)) = Len(Todo) - 1
      /\ \A i \in 1 .. Len(Tail(Todo)) : Tail(Todo)[i] = Todo[i + 1]
  BY <1>2, <1>3, HeadTailProperties
<1>6. Len(Tail(Todo)) = Len(r)
  BY <1>2, <1>5
<1>7. \A i \in 1 .. Len(r) : Tail(Todo)[i] = r[i]
  <2> SUFFICES ASSUME NEW i \in 1 .. Len(r) PROVE Tail(Todo)[i] = r[i]
    OBVIOUS
  <2>1. i + 1 = 1 + i
    BY <1>2
  <2> QED
    BY <1>2, <1>5, <1>6, <2>1
<1>8. Tail(Todo) = r
  BY <1>1, <1>5, <1>6, <1>7, SeqEqual
<1> QED
  BY <1>3, <1>4, <1>8 DEF r

\* Sending the next report takes it from the queue ...
LEMMA RestNext ==
  ASSUME NEW s \in Seq(Event), NEW c \in 0 .. Len(s), c < Len(s)
  PROVE  /\ Rest(s, c) # <<>>
         /\ Tail(Rest(s, c)) = Rest(s, c + 1)
         /\ << s[c + 1].report >> \o Rest(s, c + 1) = Rest(s, c)
<1>1. c + 1 \in 0 .. Len(s) /\ Len(s) \in Nat /\ c \in Nat
  BY LenProperties
<1>2. /\ Rest(s, c) \in Seq(Report) /\ Len(Rest(s, c)) = Len(s) - c
      /\ Rest(s, c + 1) \in Seq(Report) /\ Len(Rest(s, c + 1)) = Len(s) - (c + 1)
  BY <1>1, ReportsOfTail
<1>3. /\ \A i \in 1 .. Len(s) - c : Rest(s, c)[i] = s[c + i].report
      /\ \A i \in 1 .. Len(s) - (c + 1) : Rest(s, c + 1)[i] = s[c + 1 + i].report
  BY DEF Rest
<1> DEFINE r == Rest(s, c)
           q == Rest(s, c + 1)
           first == << s[c + 1].report >>
<1> HIDE DEF r, q
<1>4. r # <<>>
  BY <1>1, <1>2 DEF r
<1>5. /\ Tail(r) \in Seq(Report) /\ Len(Tail(r)) = Len(s) - c - 1
      /\ \A i \in 1 .. Len(s) - c - 1 : Tail(r)[i] = r[i + 1]
  BY <1>1, <1>2, <1>4, HeadTailProperties DEF r
<1>6. \A i \in 1 .. Len(s) - c - 1 : r[i + 1] = q[i]
  <2> SUFFICES ASSUME NEW i \in 1 .. Len(s) - c - 1 PROVE r[i + 1] = q[i]
    OBVIOUS
  <2>1. /\ i + 1 \in 1 .. Len(s) - c /\ i \in 1 .. Len(s) - (c + 1)
        /\ c + (i + 1) = c + 1 + i
    BY <1>1
  <2> QED
    BY <1>3, <2>1 DEF r, q
<1>7. Tail(r) = q
  <2>0. q \in Seq(Report) /\ Len(q) = Len(s) - (c + 1)
    BY <1>2 DEF q
  <2>1. Len(Tail(r)) = Len(q) /\ Len(q) = Len(s) - c - 1 /\ q \in Seq(Report)
    BY <1>1, <1>5, <2>0
  <2>2. \A i \in 1 .. Len(q) : Tail(r)[i] = q[i]
    BY <1>5, <1>6, <2>1
  <2> QED
    BY <1>5, <2>1, <2>2, SeqEqual
<1>8. first \o q = r
  <2>1. r[1] = s[c + 1].report /\ r[1] \in Report
    <3>1. 1 \in 1 .. Len(s) - c
      BY <1>1
    <3> QED
      BY <1>2, <1>3, <3>1, ElementOfSeq DEF r
  <2>2. first \in Seq(Report) /\ Len(first) = 1 /\ first[1] = r[1]
    BY <2>1
  <2> HIDE DEF first
  <2>3. /\ first \o q \in Seq(Report)
        /\ Len(first \o q) = 1 + Len(q)
        /\ (first \o q)[1] = r[1]
        /\ \A i \in 1 .. Len(q) : (first \o q)[1 + i] = q[i]
    <3>1. q \in Seq(Report) /\ 1 \in 1 .. Len(first)
      BY <1>2, <2>2 DEF q
    <3> QED
      BY <2>2, <3>1, Concat
  <2>4. Len(q) = Len(s) - c - 1 /\ Len(r) = Len(s) - c /\ r \in Seq(Report)
    BY <1>1, <1>2 DEF q, r
  <2>5. \A i \in 1 .. Len(r) : (first \o q)[i] = r[i]
    <3> SUFFICES ASSUME NEW i \in 1 .. Len(r), i # 1 PROVE (first \o q)[i] = r[i]
      BY <2>3
    <3>1. i - 1 \in 1 .. Len(q) /\ 1 + (i - 1) = i /\ (i - 1) + 1 = i
      BY <1>1, <2>4
    <3> QED
      BY <1>6, <2>3, <2>4, <3>1
  <2>6. Len(first \o q) = Len(r)
    BY <1>1, <2>3, <2>4
  <2> QED
    BY <2>3, <2>4, <2>5, <2>6, SeqEqual
<1> QED
  BY <1>4, <1>7, <1>8 DEF r, q

\* A press makes the whole script due.
LEMMA PressRest == ASSUME NEW a \in Actions, Press(a) PROVE Rest(events', 0) = Reports[a]
<1>1. /\ Script[a] \in Seq([off : 0 .. MaxAge, report : Report])
  BY ScriptType
<1>2. Len(Script[a]) \in Nat /\ DOMAIN Script[a] = 1 .. Len(Script[a])
  BY <1>1, LenProperties
<1>3. events' = [i \in 1 .. Len(Script[a]) |-> [due |-> Plus(now, Script[a][i].off),
                                    off |-> Script[a][i].off,
                                    report |-> Script[a][i].report]]
  BY <1>2 DEF Press
<1>4. Len(events') = Len(Script[a])
  BY <1>2, <1>3
<1>5. \A i \in 1 .. Len(Script[a]) : events'[i].report = Script[a][i].report
  BY <1>3
<1>6. Rest(events', 0) = [i \in 1 .. Len(Script[a]) |-> events'[0 + i].report]
  BY <1>2, <1>4 DEF Rest
<1>7. Reports[a] = [i \in 1 .. Len(Script[a]) |-> Script[a][i].report]
  BY <1>2 DEF Reports
<1>8. \A i \in 1 .. Len(Script[a]) : 0 + i = i
  BY <1>2
<1> QED
  BY <1>5, <1>6, <1>7, <1>8

\* What the engine's steps are to HidDelivery.
LEMMA PressDelivers == ASSUME NEW a \in Actions, IInv, Press(a) PROVE Delivery!Start
<1>1. TypeOK /\ TypeOK' /\ mounted /\ UNCHANGED <<mounted, wire, host>> /\ cursor' = 0
  BY PressStep DEF IInv, Press
<1>2. Todo' = wire \o Reports[a] /\ Reports[a] \in Seq(Report)
  <2>1. Todo' = wire' \o Rest(events', cursor') /\ Rest(events', cursor') \in Seq(Report)
    BY <1>1, TodoRestNext
  <2> QED
    BY <1>1, <2>1, PressRest
<1>3. Todo = wire \o Rest(events, cursor) /\ Rest(events, cursor) \in Seq(Report)
  BY <1>1, TodoRest
<1>4. CASE wire = <<>>
  <2>1. Todo' = Reports[a]
    BY <1>2, <1>4, ConcatEmptySeq
  <2> QED
    BY <1>1, <2>1 DEF Delivery!Start, Todo
<1>5. CASE wire # <<>>
  <2>1. wire \in Seq(Report) /\ wire = << wire[1] >> /\ wire[1] \in Report
    BY <1>1, <1>5, OneReport
  <2>2. Todo # <<>> /\ Head(Todo) = wire[1] /\ Tail(Todo) = Rest(events, cursor)
    BY <1>1, <1>5, HeadOfTodo
  <2>3. Todo' = << Head(Todo) >> \o Reports[a]
    BY <1>2, <2>1, <2>2
  <2> QED
    BY <1>1, <2>2, <2>3 DEF Delivery!Start, Todo
<1> QED
  BY <1>4, <1>5

\* To an absent host a report is lost; otherwise it only moves to the endpoint.
LEMMA SendDelivers ==
  ASSUME IInv, SendReport
  PROVE  Delivery!Lose \/ UNCHANGED Delivery!vars
<1> DEFINE next == cursor + 1
<1>1. /\ TypeOK /\ TypeOK' /\ UNCHANGED <<mounted, host>> /\ wire = <<>>
      /\ wire' = (IF mounted THEN << events[next].report >> ELSE <<>>)
      /\ cursor < Len(events) /\ events \in Seq(Event) /\ cursor \in 0 .. Len(events)
  BY SendStep DEF IInv, TypeOK, WireInv, SendReport
<1>2. /\ Rest(events, cursor) # <<>>
      /\ Tail(Rest(events, cursor)) = Rest(events, next)
      /\ << events[next].report >> \o Rest(events, next) = Rest(events, cursor)
  BY <1>1, RestNext
<1>3. Rest(events', cursor') = Rest(events, next)
  <2>1. CASE next < Len(events)
    BY <2>1 DEF SendReport
  <2>2. CASE ~(next < Len(events))
    <3>1. events' = <<>> /\ cursor' = 0
      BY <2>2 DEF SendReport, Clear
    <3>2. next = Len(events) /\ Len(events) - next = 0
      BY <1>1, <2>2, LenProperties
    <3>3. Rest(events, next) = <<>>
      BY <3>2 DEF Rest
    <3>4. Rest(events', cursor') = <<>>
      BY <3>1 DEF Rest
    <3> QED
      BY <3>3, <3>4
  <2> QED
    BY <2>1, <2>2
<1>4. Todo = Rest(events, cursor) /\ Todo' = wire' \o Rest(events, next)
  BY <1>1, <1>3, TodoRest, TodoRestNext
<1>5. CASE mounted
  <2>1. Todo' = Todo
    BY <1>1, <1>2, <1>4, <1>5
  <2> QED
    BY <1>1, <2>1 DEF Delivery!vars, Todo
<1>6. CASE ~mounted
  <2>1. wire' = <<>>
    BY <1>1, <1>6
  <2>2. Todo' = Rest(events', cursor')
    BY <1>1, <2>1, TodoRestNext
  <2>3. Todo # <<>> /\ Todo' = Tail(Todo)
    BY <1>2, <1>3, <1>4, <2>2
  <2> QED
    BY <1>1, <1>6, <2>3 DEF Delivery!Lose, Todo
<1> QED
  BY <1>5, <1>6

LEMMA AbortDelivers == ASSUME IInv, Abort PROVE Delivery!Lose
<1>1. /\ TypeOK /\ TypeOK' /\ ~mounted /\ wire = <<>> /\ UNCHANGED <<mounted, host, wire>>
      /\ events' = <<>> /\ cursor' = 0
      /\ cursor < Len(events) /\ events \in Seq(Event) /\ cursor \in 0 .. Len(events)
  BY AbortStep DEF IInv, TypeOK, WireInv, Abort, NextDue, Clear
<1>2. Rest(events', cursor') = <<>>
  BY <1>1 DEF Rest
<1>3. Rest(events, cursor) # <<>>
  BY <1>1, RestNext
<1>4. Todo # <<>> /\ Todo' = <<>>
  BY <1>1, <1>2, <1>3, TodoRest, TodoRestNext
<1> QED
  BY <1>1, <1>4 DEF Delivery!Lose, Todo

LEMMA HostPollDelivers == ASSUME IInv, HostPoll PROVE Delivery!Deliver
<1>1. /\ TypeOK /\ TypeOK' /\ mounted /\ wire # <<>> /\ wire' = <<>>
      /\ host' = Apply(host, Head(wire)) /\ UNCHANGED <<mounted, events, cursor>>
  BY HostPollStep DEF IInv, HostPoll
<1>2. /\ wire = << wire[1] >> /\ Todo # <<>> /\ Head(Todo) = wire[1]
      /\ Tail(Todo) = Rest(events, cursor)
  BY <1>1, OneReport, HeadOfTodo
<1>3. Todo' = Tail(Todo) /\ host' = Apply(host, Head(Todo))
  <2>1. Todo' = Rest(events', cursor')
    BY <1>1, TodoRestNext
  <2>2. Head(wire) = wire[1]
    BY <1>1 DEF TypeOK
  <2> QED
    BY <1>1, <1>2, <2>1, <2>2
<1> QED
  BY <1>1, <1>2, <1>3 DEF Delivery!Deliver, Todo, Apply

LEMMA UnmountDelivers == ASSUME IInv, Unmount PROVE Delivery!Vanish
<1>1. /\ TypeOK /\ TypeOK' /\ mounted /\ mounted' = FALSE /\ wire' = <<>> /\ host' = Released
      /\ UNCHANGED <<events, cursor>>
  BY UnmountStep DEF IInv, Unmount
<1>2. Todo' = Rest(events, cursor)
  <2>1. Todo' = Rest(events', cursor')
    BY <1>1, TodoRestNext
  <2> QED
    BY <1>1, <2>1
<1>3. CASE wire = <<>>
  <2>1. Todo' = Todo
    BY <1>1, <1>2, <1>3, TodoRest
  <2> QED
    BY <1>1, <2>1 DEF Delivery!Vanish, Todo
<1>4. CASE wire # <<>>
  <2>1. Todo # <<>> /\ Todo' = Tail(Todo)
    BY <1>1, <1>2, <1>4, HeadOfTodo
  <2> QED
    BY <1>1, <2>1 DEF Delivery!Vanish, Todo
<1> QED
  BY <1>3, <1>4

\* The engine implements ordered, drop-free delivery: whatever the presses, the
\* clock and the bus do, the host receives the reports of the scripts in order, each
\* once, except for those a newer script replaces or an absent host misses.
THEOREM DeliveryImplemented == Spec => DeliverySpec
<1>1. Init => Delivery!Init
  <2> SUFFICES ASSUME Init PROVE Delivery!Init
    OBVIOUS
  <2>1. TypeOK /\ wire = <<>> /\ events = <<>> /\ cursor = 0
    BY InitIInv DEF IInv, Init
  <2>2. Rest(events, cursor) = <<>>
    BY <2>1 DEF Rest
  <2>3. Todo = <<>>
    BY <2>1, <2>2, TodoRest
  <2> QED
    BY <2>3 DEF Init, Delivery!Init, Todo
<1>2. IInv /\ [Next]_vars => [Delivery!Next]_Delivery!vars
  <2> SUFFICES ASSUME IInv, [Next]_vars PROVE [Delivery!Next]_Delivery!vars
    OBVIOUS
  <2>1. CASE SomePress
    BY <2>1, PressDelivers DEF SomePress, Delivery!Next
  <2>2. CASE Abort
    BY <2>2, AbortDelivers DEF Delivery!Next
  <2>3. CASE SendReport
    BY <2>3, SendDelivers DEF Delivery!Next
  <2>4. CASE HostPoll
    BY <2>4, HostPollDelivers DEF Delivery!Next
  <2>5. CASE Unmount
    BY <2>5, UnmountDelivers DEF Delivery!Next
  <2>6. CASE Mount
    BY <2>6 DEF Mount, Delivery!Next, Delivery!Return, Unsent
  <2>7. CASE Tick \/ Take \/ Suspend \/ Resume \/ UNCHANGED vars
    BY <2>7 DEF Tick, Take, Suspend, Resume, vars, Delivery!vars, Unsent
  <2> QED
    BY <2>1, <2>2, <2>3, <2>4, <2>5, <2>6, <2>7 DEF Next
<1> QED
  BY <1>1, <1>2, Invariance, PTL DEF Spec, DeliverySpec, Delivery!Spec

-----------------------------------------------------------------------------
\* Why the queue drains.

\* No event of a script is due later than this, and no script has more events.
Longest == TypeEnd(TypeStart) + TypeEnd(RunDelay) + RunRelease + EnterDelay
           + EnterEnd + AcpiDelay + SysRelease
MostEvents == 2 * Len(Command) + 7

\* The steps that are left of a script: three for each unsent report, one for the
\* report on the wire, and the waits.
Wait == IF age < Longest THEN Longest - age ELSE 0
Left == Len(wire) + IF events = <<>> THEN 0
                    ELSE 3 * (Len(events) - cursor) + Wait
                         - IF loopPc = "report" THEN 1 ELSE 0

Advance == Abort \/ Take \/ SendReport \/ HostPoll
           \/ (Tick /\ events # <<>> /\ age < Longest)

\* Nothing but a button puts the end of a script off, and every step of the loop,
\* of the host's polling and of the waiting brings it closer.
DrainsOn == [][~SomePress => Left' <= Left /\ (Advance => Left' < Left)]_vars

\* Unless the host sleeps, one of these steps can be taken as long as anything is
\* queued or under way: no wait outlasts the script, and no report waits for itself.
NeverStuck ==
    (events # <<>> \/ wire # <<>>) /\ ~suspended
    => \/ events # <<>> /\ age < Longest /\ age < MaxAge
       \/ NextDue /\ (~mounted \/ HidReady)
       \/ loopPc = "report"
       \/ mounted /\ wire # <<>>

-----------------------------------------------------------------------------
\* The size of the scripts.

\* Entries that are at most n, none of them later than t.
Within(s, n, t) == /\ s \in Seq(Entry)
                   /\ Len(s) <= n
                   /\ \A i \in 1 .. Len(s) : s[i].off <= t

LEMMA WithinConcat ==
  ASSUME NEW s, NEW u, NEW m \in Nat, NEW n \in Nat, NEW t \in Nat,
         Within(s, m, t), Within(u, n, t)
  PROVE  Within(s \o u, m + n, t)
<1>1. /\ s \in Seq(Entry) /\ u \in Seq(Entry)
      /\ Len(s) \in Nat /\ Len(u) \in Nat /\ Len(s) <= m /\ Len(u) <= n
      /\ \A i \in 1 .. Len(s) : s[i].off <= t
      /\ \A i \in 1 .. Len(u) : u[i].off <= t
  BY LenProperties DEF Within
<1>2. /\ s \o u \in Seq(Entry) /\ Len(s \o u) = Len(s) + Len(u)
      /\ \A i \in 1 .. Len(s) : (s \o u)[i] = s[i]
      /\ \A i \in 1 .. Len(u) : (s \o u)[Len(s) + i] = u[i]
  BY <1>1, Concat
<1>3. ASSUME NEW i \in 1 .. Len(s) + Len(u) PROVE (s \o u)[i].off <= t
  <2>1. CASE i \in 1 .. Len(s)
    BY <1>1, <1>2, <2>1
  <2>2. CASE i \notin 1 .. Len(s)
    <3>1. i - Len(s) \in 1 .. Len(u) /\ Len(s) + (i - Len(s)) = i
      BY <1>1, <2>2
    <3> QED
      BY <1>1, <1>2, <3>1
  <2> QED
    BY <2>1, <2>2
<1> QED
  BY <1>1, <1>2, <1>3 DEF Within

LEMMA WithinWider ==
  ASSUME NEW s, NEW m \in Nat, NEW n \in Nat, NEW t \in Nat, NEW u \in Nat,
         Within(s, m, t), m <= n, t <= u
  PROVE  Within(s, n, u)
<1>1. /\ s \in Seq(Entry) /\ Len(s) \in Nat /\ Len(s) <= m
      /\ \A i \in 1 .. Len(s) : s[i].off <= t
  BY LenProperties DEF Within
<1>2. \A i \in 1 .. Len(s) : s[i].off \in Nat
  <2> TAKE i \in 1 .. Len(s)
  <2>1. s[i] \in Entry
    BY <1>1, ElementOfSeq
  <2> QED
    BY <2>1 DEF Entry
<1> QED
  BY <1>1, <1>2 DEF Within

LEMMA TwoWithin ==
  ASSUME NEW t \in Nat, NEW x \in Nat, NEW y \in Nat, x <= t, y <= t,
         NEW q \in Report, NEW r \in Report
  PROVE  Within(<< At(x, q), At(y, r) >>, 2, t)
<1>1. At(x, q) \in Entry /\ At(y, r) \in Entry
  BY DEF At, Entry
<1>2. << At(x, q), At(y, r) >> \in Seq(Entry) /\ Len(<< At(x, q), At(y, r) >>) = 2
  BY <1>1
<1>3. At(x, q).off = x /\ At(y, r).off = y
  BY DEF At
<1> QED
  BY <1>2, <1>3 DEF Within

\* type_string_ ends with its last release.
LEMMA TypeStringWithin ==
  ASSUME NEW start \in Nat
  PROVE  Within(TypeString(start), 2 * Len(Command), TypeEnd(start))
<1> DEFINE step == KeyHold + InterKey
<1>1. Len(Command) \in Nat /\ KeyHold \in Nat /\ InterKey \in Nat /\ step \in Nat
  BY CommandAssumption, LenProperties, Constants
<1>2. ASSUME NEW x \in Nat, NEW k \in Nat, NEW n \in Nat, 1 <= k, k <= n
      PROVE  (k - 1) * x + x <= n * x /\ (k - 1) * x \in Nat /\ n * x \in Nat
  <2>1. (n - k) * x \in Nat /\ (k - 1) * x \in Nat /\ n * x \in Nat
    BY <1>2
  <2>2. n * x = (n - k) * x + ((k - 1) * x + x)
    BY <1>2
  <2> QED
    BY <2>1, <2>2
<1>3. ASSUME NEW k \in 1 .. Len(Command)
      PROVE  /\ KeyTime(start, k) <= TypeEnd(start)
             /\ KeyTime(start, k) + KeyHold <= TypeEnd(start)
  <2> DEFINE before == (k - 1) * step
             all == Len(Command) * step
  <2>1. before + step <= all /\ before \in Nat /\ all \in Nat
    <3> HIDE DEF step
    <3> QED
      BY <1>1, <1>2
  <2>2. KeyTime(start, k) = start + before /\ TypeEnd(start) = start + all
    BY DEF KeyTime, TypeEnd
  <2> HIDE DEF before, all
  <2> QED
    BY <1>1, <2>1, <2>2
<1>4. ASSUME NEW i \in 1 .. 2 * Len(Command)
      PROVE  TypeString(start)[i].off <= TypeEnd(start)
  <2> DEFINE k == (i + 1) \div 2
  <2>1. k \in 1 .. Len(Command)
    BY <1>1
  <2>2. \/ TypeString(start)[i].off = KeyTime(start, k)
        \/ TypeString(start)[i].off = KeyTime(start, k) + KeyHold
    BY DEF TypeString, At
  <2> HIDE DEF k
  <2> QED
    BY <1>3, <2>1, <2>2
<1> QED
  BY <1>1, <1>4, TypeStringType DEF Within

\* What Longest and MostEvents promise.
LEMMA ScriptWithin ==
  ASSUME NEW a \in Actions
  PROVE  Within(Script[a], MostEvents, Longest)
<1> DEFINE typing == TypeEnd(TypeStart)
           command == TypeEnd(0 + RunDelay)
           n == 2 * Len(Command)
<1>1. /\ typing \in Nat /\ command \in Nat /\ n \in Nat
      /\ TypeEnd(RunDelay) = command
  BY TypeStringType, Constants, CommandAssumption, LenProperties
<1>2. /\ Longest = typing + command + RunRelease + EnterDelay + EnterEnd + AcpiDelay + SysRelease
      /\ MostEvents = n + 7
      /\ ForceEnd(0) = command + EnterEnd
  BY <1>1 DEF Longest, MostEvents, ForceEnd
<1> HIDE DEF typing, command, n
<1>3. Longest \in Nat
  BY <1>1, <1>2, Constants
<1>4. Within(TypeString(TypeStart), n, Longest)
  <2>1. Within(TypeString(TypeStart), n, typing)
    BY TypeStringWithin, Constants DEF n, typing
  <2>2. typing <= Longest
    BY <1>1, <1>2, Constants
  <2> QED
    BY <1>1, <1>3, <2>1, <2>2, WithinWider
<1>5. Within(ForceMacro(0), n + 4, Longest)
  <2> DEFINE runs == << At(0, Keyboard(LeftGui, KeyR)), At(0 + RunRelease, ReleaseAll) >>
             typed == TypeString(0 + RunDelay)
             enter == << At(command + EnterDelay, Keyboard(0, KeyEnter)),
                         At(ForceEnd(0), ReleaseAll) >>
  <2>1. ForceMacro(0) = (runs \o typed) \o enter
    BY DEF ForceMacro, command
  <2>2. /\ Keyboard(LeftGui, KeyR) \in Report /\ Keyboard(0, KeyEnter) \in Report
        /\ ReleaseAll \in Report
    BY ReportTypes DEF LeftGui, KeyR, KeyEnter
  <2>3. Within(runs, 2, Longest)
    <3>1. 0 + RunRelease \in Nat /\ 0 + RunRelease <= Longest /\ 0 <= Longest
      BY <1>1, <1>2, Constants
    <3> QED
      BY <1>3, <2>2, <3>1, TwoWithin
  <2>4. Within(typed, n, Longest)
    <3>1. Within(typed, n, command)
      BY TypeStringWithin, Constants DEF n, command
    <3>2. command <= Longest
      BY <1>1, <1>2, Constants
    <3> QED
      BY <1>1, <1>3, <3>1, <3>2, WithinWider
  <2>5. Within(enter, 2, Longest)
    <3>1. /\ command + EnterDelay \in Nat /\ command + EnterDelay <= Longest
          /\ ForceEnd(0) \in Nat /\ ForceEnd(0) <= Longest
      BY <1>1, <1>2, Constants
    <3> QED
      BY <1>3, <2>2, <3>1, TwoWithin
  <2> HIDE DEF runs, typed, enter
  <2>6. Within(runs \o typed, 2 + n, Longest)
    BY <1>1, <1>3, <2>3, <2>4, WithinConcat
  <2>7. Within((runs \o typed) \o enter, (2 + n) + 2, Longest)
    BY <1>1, <1>3, <2>5, <2>6, WithinConcat
  <2>8. (2 + n) + 2 = n + 4
    BY <1>1
  <2> QED
    BY <2>1, <2>7, <2>8
<1>6. ASSUME NEW start \in Nat, start + SysRelease <= Longest, NEW p \in Nat
      PROVE  Within(SysPress(start, p), 2, Longest)
  <2>1. SysCtrl(p) \in Report /\ SysCtrl(0) \in Report
    BY ReportTypes
  <2>2. start + SysRelease \in Nat /\ start <= Longest
    BY <1>3, <1>6, Constants
  <2> QED
    BY <1>3, <1>6, <2>1, <2>2, TwoWithin DEF SysPress
<1>7. Within(SysPress(0, PowerDown), 2, Longest) /\ Within(SysPress(0, Sleep), 2, Longest)
  <2>1. 0 + SysRelease <= Longest
    BY <1>1, <1>2, Constants
  <2> QED
    BY <1>6, <2>1 DEF PowerDown, Sleep
<1>8. Within(ForceMacro(0) \o SysPress(ForceEnd(0) + AcpiDelay, PowerDown), (n + 4) + 2, Longest)
  <2>1. /\ ForceEnd(0) + AcpiDelay \in Nat
        /\ (ForceEnd(0) + AcpiDelay) + SysRelease <= Longest
    BY <1>1, <1>2, Constants
  <2>2. Within(SysPress(ForceEnd(0) + AcpiDelay, PowerDown), 2, Longest)
    BY <1>6, <2>1 DEF PowerDown
  <2> QED
    BY <1>1, <1>3, <1>5, <2>2, WithinConcat
<1>9. Within(Body[a], n + 6, Longest)
  <2>1. n <= n + 6 /\ n + 4 <= n + 6 /\ (n + 4) + 2 = n + 6 /\ 2 <= n + 6
        /\ n + 4 \in Nat /\ n + 6 \in Nat /\ Longest <= Longest
    BY <1>1, <1>3
  <2>2. /\ Within(TypeString(TypeStart), n + 6, Longest)
        /\ Within(ForceMacro(0), n + 6, Longest)
        /\ Within(SysPress(0, PowerDown), n + 6, Longest)
        /\ Within(SysPress(0, Sleep), n + 6, Longest)
    BY <1>1, <1>3, <1>4, <1>5, <1>7, <2>1, WithinWider
  <2>3. /\ Body["type_test"] = TypeString(TypeStart)
        /\ Body["force_shutdown"] = ForceMacro(0)
        /\ Body["acpi_shutdown"] = SysPress(0, PowerDown)
        /\ Body["auto_shutdown"] =
              ForceMacro(0) \o SysPress(ForceEnd(0) + AcpiDelay, PowerDown)
        /\ Body["sleep"] = SysPress(0, Sleep)
    BY DEF Body
  <2> QED
    BY <1>8, <2>1, <2>2, <2>3 DEF Actions
<1>10. Within(Lead, 1, Longest)
  <2>1. Lead \in Seq(Entry) /\ Len(Lead) = 1 /\ Lead[1].off = 0
    BY ReportTypes DEF Lead, At, Entry
  <2> QED
    BY <1>3, <2>1 DEF Within
<1>11. Within(Lead \o Body[a], 1 + (n + 6), Longest)
  <2>1. n + 6 \in Nat
    BY <1>1
  <2> QED
    BY <1>3, <1>9, <1>10, <2>1, WithinConcat
<1>12. 1 + (n + 6) = MostEvents
  BY <1>1, <1>2
<1> QED
  BY <1>11, <1>12, ScriptType

LEMMA SizeTypes == Longest \in Nat /\ MostEvents \in Nat
<1>1. /\ TypeEnd(TypeStart) \in Nat /\ TypeEnd(RunDelay) \in Nat /\ Len(Command) \in Nat
  BY TypeStringType, Constants, CommandAssumption, LenProperties
<1> QED
  BY <1>1, Constants DEF Longest, MostEvents

\* A queue is as long and as late as its script.
FromScript == /\ Len(events) <= MostEvents
              /\ \A i \in DOMAIN events : events[i].off <= Longest

LEMMA NextFromScript == TypeOK /\ FromScript /\ [Next]_vars => FromScript'
<1> SUFFICES ASSUME TypeOK, FromScript, [Next]_vars PROVE FromScript'
  OBVIOUS
<1>1. ASSUME NEW a \in Actions, Press(a) PROVE FromScript'
  <2> DEFINE n == Len(Script[a])
  <2>1. /\ n \in Nat /\ n <= MostEvents
        /\ \A i \in 1 .. n : Script[a][i].off <= Longest
    BY ScriptWithin, LenProperties DEF Within
  <2>2. DOMAIN Script[a] = 1 .. n
    BY ScriptWithin, LenProperties DEF Within
  <2> HIDE DEF n
  <2>3. events' = [i \in 1 .. n |-> [due |-> Plus(now, Script[a][i].off),
                                     off |-> Script[a][i].off,
                                     report |-> Script[a][i].report]]
    BY <1>1, <2>2 DEF Press
  <2>4. Len(events') = n /\ DOMAIN events' = 1 .. n
    BY <2>1, <2>3
  <2>5. \A i \in 1 .. n : events'[i].off <= Longest
    BY <2>1, <2>3
  <2> QED
    BY <2>1, <2>4, <2>5 DEF FromScript
<1>2. CASE events' = <<>>
  <2>1. Len(events') = 0 /\ DOMAIN events' = {}
    BY <1>2
  <2> QED
    BY <2>1, SizeTypes DEF FromScript
<1>3. CASE events' = events
  BY <1>3 DEF FromScript
<1> QED
  BY <1>1, <1>2, <1>3 DEF Next, SomePress, Tick, Abort, Take, SendReport, Clear, HostPoll,
                          Mount, Unmount, Suspend, Resume, vars

LEMMA ScriptsOnly == Spec => []FromScript
<1>1. Init => FromScript
  <2> SUFFICES ASSUME Init PROVE FromScript
    OBVIOUS
  <2>1. events = <<>>
    BY DEF Init
  <2>2. Len(events) = 0 /\ DOMAIN events = {}
    BY <2>1
  <2> QED
    BY <2>2, SizeTypes DEF FromScript
<1> QED
  BY <1>1, NextFromScript, TypeCorrect, PTL DEF Spec

-----------------------------------------------------------------------------
\* Why the queue drains.

LEMMA LeftTypes ==
  ASSUME TypeOK
  PROVE  /\ cursor \in Nat /\ Len(events) \in Nat /\ age \in Nat /\ MaxAge \in Nat
         /\ age <= MaxAge
         /\ Len(wire) = 0 \/ Len(wire) = 1
         /\ wire = <<>> => Len(wire) = 0
         /\ wire # <<>> => Len(wire) = 1
         /\ events # <<>> => cursor < Len(events)
         /\ loopPc = "report" => events # <<>>
         /\ Wait \in Nat
<1>1. wire \in Seq(Report) /\ Len(wire) \in Nat /\ Len(wire) <= 1
  BY LenProperties DEF TypeOK
<1>2. wire # <<>> => Len(wire) # 0
  BY <1>1, EmptySeq
<1>3. Len(events) \in Nat /\ cursor \in 0 .. Len(events) /\ age \in 0 .. MaxAge
  BY LenProperties DEF TypeOK
<1>4. /\ events # <<>> => cursor < Len(events)
      /\ loopPc = "report" => events # <<>>
  BY DEF TypeOK
<1>5. wire = <<>> => Len(wire) = 0
  OBVIOUS
<1>6. Len(wire) = 0 \/ Len(wire) = 1
  BY <1>1
<1>7. Wait \in Nat
  BY <1>3, SizeTypes, ClockAssumption DEF Wait
<1> QED
  BY <1>2, <1>3, <1>4, <1>5, <1>6, <1>7, ClockAssumption

LEMMA LeftStep == ASSUME IInv, Next, ~SomePress PROVE Left' <= Left /\ (Advance => Left' < Left)
<1>1. TypeOK /\ WireInv /\ TypeOK'
  BY NextIInv DEF IInv
<1>2. CASE Take
  <2>1. /\ loopPc = "top" /\ loopPc' = "report" /\ events # <<>>
        /\ UNCHANGED <<events, cursor, age, wire>>
    BY <1>1, <1>2, LeftTypes DEF Take, NextDue, TypeOK
  <2> QED
    BY <1>1, <2>1, LeftTypes, SizeTypes DEF Left, Wait
<1>3. CASE Abort
  <2>1. /\ loopPc = "top" /\ events # <<>> /\ events' = <<>> /\ wire' = wire
    BY <1>1, <1>3, LeftTypes DEF Abort, NextDue, Clear, TypeOK
  <2> QED
    BY <1>1, <2>1, LeftTypes, SizeTypes DEF Left, Wait
<1>4. CASE SendReport
  <2>1. /\ loopPc = "report" /\ events # <<>> /\ loopPc' = "top"
        /\ \/ events' = <<>>
           \/ cursor' = cursor + 1 /\ UNCHANGED <<events, age>>
    BY <1>1, <1>4 DEF SendReport, Clear, TypeOK
  <2>2. Len(wire) = 0 /\ (Len(wire') = 0 \/ Len(wire') = 1)
    <3>1. wire = <<>>
      BY <1>1, <2>1 DEF WireInv
    <3>2. wire' = << events[cursor + 1].report >> \/ wire' = <<>>
      BY <1>4, <3>1 DEF SendReport
    <3> QED
      BY <3>1, <3>2
  <2>3. /\ Left = 3 * (Len(events) - cursor) + Wait - 1
        /\ 3 * (Len(events) - cursor) >= 3
        /\ Len(events) \in Nat /\ cursor \in Nat /\ Wait \in Nat
    BY <1>1, <2>1, <2>2, LeftTypes DEF Left
  <2>4. CASE events' = <<>>
    <3>1. Left' = Len(wire')
      BY <2>2, <2>4 DEF Left
    <3> QED
      BY <2>2, <2>3, <3>1
  <2>5. CASE events' # <<>>
    <3>1. cursor' = cursor + 1 /\ UNCHANGED <<events, age>> /\ loopPc' = "top"
      BY <2>1, <2>5
    <3>2. Left' = Len(wire') + (3 * (Len(events') - cursor') + Wait' - 0)
      BY <2>5, <3>1, Zenon DEF Left
    <3>3. Len(events') = Len(events) /\ cursor' = cursor + 1 /\ Wait' = Wait
      BY <3>1 DEF Wait
    <3>4. ASSUME NEW n \in Nat, NEW c \in Nat, NEW w, NEW m \in Nat,
                 w = 0 \/ w = 1
          PROVE  w + (3 * (n - (c + 1)) + m - 0) < 3 * (n - c) + m - 1
      BY <3>4
    <3>5. Left' = Len(wire') + (3 * (Len(events) - (cursor + 1)) + Wait - 0)
      BY <3>2, <3>3, Zenon
    <3>6. Left' < Left
      BY <2>2, <2>3, <3>4, <3>5, Zenon
    <3>7. Left \in Int /\ Left' \in Int
      BY <2>2, <2>3, <3>5
    <3> QED
      BY <3>6, <3>7
  <2> QED
    BY <2>4, <2>5
<1>5. CASE HostPoll
  <2>1. Len(wire) = 1 /\ Len(wire') = 0 /\ UNCHANGED <<events, cursor, age, loopPc>>
    BY <1>1, <1>5, LeftTypes DEF HostPoll
  <2> QED
    BY <1>1, <2>1, LeftTypes, SizeTypes DEF Left, Wait
<1>6. CASE Tick
  <2>1. CASE events = <<>>
    <3>1. UNCHANGED <<events, wire>>
      BY <1>6 DEF Tick
    <3>2. ~Advance
      BY <1>1, <1>6, <2>1, LeftTypes DEF Advance, Abort, Take, NextDue, SendReport, HostPoll, Tick, TypeOK
    <3> QED
      BY <1>1, <2>1, <3>1, <3>2, LeftTypes DEF Left
  <2>2. CASE events # <<>>
    <3>1. UNCHANGED <<events, cursor, wire, loopPc>> /\ age' = age + 1
      BY <1>6, <2>2 DEF Tick
    <3>2. Wait' <= Wait /\ (age < Longest => Wait' < Wait) /\ Wait \in Nat /\ Wait' \in Nat
      BY <1>1, <3>1, LeftTypes, SizeTypes DEF Wait
    <3>3. Advance => age < Longest
      <4>1. ~Abort
        BY <2>2, <3>1 DEF Abort, Clear
      <4>2. ~Take /\ ~SendReport
        BY <3>1 DEF Take, NextDue, SendReport
      <4>3. ~HostPoll
        BY <3>1 DEF HostPoll
      <4> QED
        BY <4>1, <4>2, <4>3 DEF Advance
    <3>4. PICK k \in Int : Left = k + Wait /\ Left' = k + Wait'
      <4> DEFINE n == Len(wire) + 3 * (Len(events) - cursor) - IF loopPc = "report" THEN 1 ELSE 0
      <4>1. n \in Int
        BY <1>1, LeftTypes
      <4>2. Left = n + Wait
        BY <1>1, <2>2, LeftTypes DEF Left
      <4>3. Left' = n' + Wait'
        BY <1>1, <2>2, <3>1, <3>2, LeftTypes DEF Left
      <4> QED
        BY <3>1, <4>1, <4>2, <4>3
    <3>5. \A a, b \in Nat : (b <= a => k + b <= k + a) /\ (b < a => k + b < k + a)
      BY <3>4
    <3>6. k + Wait' <= k + Wait /\ (age < Longest => k + Wait' < k + Wait)
      BY <3>2, <3>5, Zenon
    <3> QED
      BY <3>3, <3>4, <3>6, Zenon
  <2> QED
    BY <2>1, <2>2
<1>7. CASE (Mount \/ Unmount \/ Suspend \/ Resume) /\ ~Advance
  <2>1. UNCHANGED <<events, cursor, age, loopPc>> /\ (wire' = wire \/ wire' = <<>>)
    BY <1>7 DEF Mount, Unmount, Suspend, Resume
  <2>2. Len(wire') <= Len(wire)
    BY <1>1, <2>1, LeftTypes
  <2> QED
    BY <1>1, <1>7, <2>1, <2>2, LeftTypes, SizeTypes DEF Left, Wait
<1> QED
  BY <1>2, <1>3, <1>4, <1>5, <1>6, <1>7 DEF Next, Advance

\* Nothing but a button puts the end of a script off, and every step of the loop, of
\* the host's polling and of the waiting brings it closer: for every command, every
\* choice of the delays and every clock.
THEOREM DrainsStepByStep == Spec => DrainsOn
<1>1. IInv /\ [Next]_vars => [~SomePress => Left' <= Left /\ (Advance => Left' < Left)]_vars
  BY LeftStep
<1> QED
  BY <1>1, Invariance, PTL DEF Spec, DrainsOn

\* Unless the host sleeps, one of these steps can be taken as long as anything is
\* queued or under way: the bound on the clock never outlasts a script.
THEOREM NoDeadEnd == Spec => []NeverStuck
<1>1. ASSUME IInv, FromScript PROVE NeverStuck
  <2>1. TypeOK /\ WireInv /\ DueExact
    BY <1>1, DueIsExact DEF IInv
  <2>2. CASE events = <<>>
    BY <2>1, <2>2 DEF NeverStuck, WireInv
  <2>3. CASE events # <<>> /\ loopPc = "top" /\ ~(age < Longest /\ age < MaxAge)
    <3>1. cursor < Len(events) /\ cursor + 1 \in DOMAIN events
      BY <2>1, <2>3, LeftTypes, LenProperties DEF TypeOK
    <3>2. Due(events[cursor + 1])
      <4>1. events[cursor + 1].off <= age
        BY <1>1, <2>1, <2>3, <3>1, EventType, LeftTypes, SizeTypes DEF FromScript
      <4> QED
        BY <2>1, <3>1, <4>1 DEF DueExact
    <3> QED
      BY <2>1, <2>3, <3>1, <3>2 DEF NeverStuck, NextDue, HidReady
  <2> QED
    BY <2>1, <2>2, <2>3 DEF NeverStuck, TypeOK
<1> QED
  BY <1>1, Invariance, ScriptsOnly, PTL

-----------------------------------------------------------------------------
\* A queue that no button replaces drains.  Left cannot fall for ever; temporal
\* logic has no rule for that, so it is shown for the binary digits of Left one
\* after the other, from the highest: once those above it stand still, a digit
\* can only go from 1 to 0.

Ceiling == 65536
Part(k) == Left \div k
Steady(k) == Part(k)' = Part(k)
Odd(k) == Part(k) % 2 = 1

\* The digit at k, once those from j on stand still.
Halves(k, j) == /\ Steady(j) /\ Odd(k)' => Odd(k)
                /\ Steady(j) /\ (Odd(k)' <=> Odd(k)) => Steady(k)

\* All the digits of a number below Ceiling.
Descent == /\ Steady(Ceiling)
           /\ Halves(1, 2) /\ Halves(2, 4) /\ Halves(4, 8) /\ Halves(8, 16)
           /\ Halves(16, 32) /\ Halves(32, 64) /\ Halves(64, 128) /\ Halves(128, 256)
           /\ Halves(256, 512) /\ Halves(512, 1024) /\ Halves(1024, 2048)
           /\ Halves(2048, 4096) /\ Halves(4096, 8192) /\ Halves(8192, 16384)
           /\ Halves(16384, 32768) /\ Halves(32768, Ceiling)

LEMMA Halving ==
  ASSUME NEW a \in Nat, NEW b \in Nat, b <= a, b \div 2 = a \div 2
  PROVE  (b % 2 = 1 => a % 2 = 1) /\ ((b % 2 = 1 <=> a % 2 = 1) => b = a)
  OBVIOUS

LEMMA HalvesStep ==
  ASSUME NEW k, NEW j, Part(k) \in Nat, Part(k)' \in Nat, Part(k)' <= Part(k),
         Part(j) = Part(k) \div 2, Part(j)' = Part(k)' \div 2
  PROVE  Halves(k, j)
  BY Halving DEF Halves, Steady, Odd

LEMMA Descends ==
  ASSUME Left \in Nat, Left < Ceiling, Left' \in Nat, (Left < Ceiling)', Left' <= Left
  PROVE  Descent
<1>1. Halves(1, 2)
  BY HalvesStep DEF Part
<1>2. Halves(2, 4)
  BY HalvesStep DEF Part
<1>3. Halves(4, 8)
  BY HalvesStep DEF Part
<1>4. Halves(8, 16)
  BY HalvesStep DEF Part
<1>5. Halves(16, 32)
  BY HalvesStep DEF Part
<1>6. Halves(32, 64)
  BY HalvesStep DEF Part
<1>7. Halves(64, 128)
  BY HalvesStep DEF Part
<1>8. Halves(128, 256)
  BY HalvesStep DEF Part
<1>9. Halves(256, 512)
  BY HalvesStep DEF Part
<1>10. Halves(512, 1024)
  BY HalvesStep DEF Part
<1>11. Halves(1024, 2048)
  BY HalvesStep DEF Part
<1>12. Halves(2048, 4096)
  BY HalvesStep DEF Part
<1>13. Halves(4096, 8192)
  BY HalvesStep DEF Part
<1>14. Halves(8192, 16384)
  BY HalvesStep DEF Part
<1>15. Halves(16384, 32768)
  BY HalvesStep DEF Part
<1>16. Halves(32768, Ceiling)
  BY HalvesStep DEF Part, Ceiling
<1>17. Steady(Ceiling)
  <2>1. \A n \in Nat : n < Ceiling => n \div Ceiling = 0
    BY DEF Ceiling
  <2>2. Part(Ceiling) = 0 /\ Part(Ceiling)' = 0
    BY <2>1 DEF Part
  <2> QED
    BY <2>2 DEF Steady
<1> QED
  BY <1>1, <1>2, <1>3, <1>4, <1>5, <1>6, <1>7, <1>8, <1>9, <1>10, <1>11,
     <1>12, <1>13, <1>14, <1>15, <1>16, <1>17 DEF Descent

\* No script is longer than a minute: the longest of the code takes about 4 seconds.
ShortScripts == Longest + 3 * MostEvents + 1 < Ceiling

LEMMA LeftRange ==
  ASSUME ShortScripts, TypeOK, FromScript
  PROVE  Left \in Nat /\ Left < Ceiling
<1>1. Wait \in Nat /\ Wait <= Longest /\ Longest \in Nat /\ MostEvents \in Nat
  BY LeftTypes, SizeTypes DEF Wait
<1>2. Longest + 3 * MostEvents + 1 < Ceiling /\ Ceiling \in Nat
  BY DEF ShortScripts, Ceiling
<1> DEFINE w == Len(wire)
<1>3. w \in 0 .. 1
  BY LeftTypes
<1> HIDE DEF w
<1>4. CASE events = <<>>
  <2>1. Left = w + 0
    BY <1>4 DEF Left, w
  <2> QED
    BY <1>1, <1>2, <1>3, <2>1
<1>5. CASE events # <<>>
  <2> DEFINE n == Len(events)
             r == IF loopPc = "report" THEN 1 ELSE 0
  <2>1. n \in Nat /\ cursor \in Nat /\ cursor < n /\ n <= MostEvents /\ r \in 0 .. 1
    BY <1>5, LeftTypes DEF FromScript
  <2>2. Left = w + (3 * (n - cursor) + Wait - r)
    BY <1>5 DEF Left, w
  <2> HIDE DEF n, r
  <2> QED
    BY <1>1, <1>2, <1>3, <2>1, <2>2
<1> QED
  BY <1>4, <1>5

Sound == IInv /\ FromScript /\ Left \in Nat /\ Left < Ceiling

LEMMA SoundAlways == ASSUME ShortScripts PROVE Spec => []Sound
<1>1. IInv /\ FromScript => Sound
  BY LeftRange DEF Sound, IInv
<1> QED
  BY <1>1, Invariance, ScriptsOnly, PTL

LEMMA FallingStep ==
  ASSUME ShortScripts, Sound, Sound', [Next]_vars, [~SomePress]_vars
  PROVE  /\ Descent
         /\ Steady(1) => [~Advance]_vars
<1>1. /\ Left \in Nat /\ Left < Ceiling /\ Left' \in Nat /\ (Left < Ceiling)'
      /\ IInv /\ FromScript
  BY DEF Sound
<1>2. CASE UNCHANGED vars
  <2>1. Left' = Left
    BY <1>2 DEF vars, Left, Wait
  <2>2. Left' <= Left
    BY <1>1, <2>1
  <2> QED
    BY <1>1, <1>2, <2>2, Descends
<1>3. CASE ~UNCHANGED vars
  <2>1. Next /\ ~SomePress
    BY <1>3
  <2>2. Left' <= Left /\ (Advance => Left' < Left)
    BY <1>1, <2>1, LeftStep
  <2>3. Steady(1) => ~(Left' < Left)
    <3>1. \A n \in Nat : n \div 1 = n /\ ~(n < n)
      OBVIOUS
    <3>2. Part(1) = Left /\ Part(1)' = Left'
      BY <1>1, <3>1 DEF Part
    <3> QED
      BY <1>1, <3>1, <3>2 DEF Steady
  <2> QED
    BY <1>1, <2>2, <2>3, Descends
<1> QED
  BY <1>2, <1>3

LEMMA SteadyStutter ==
  UNCHANGED vars => Steady(4096) /\ Steady(256) /\ Steady(16) /\ Steady(1)
<1> SUFFICES ASSUME UNCHANGED vars PROVE Steady(4096) /\ Steady(256) /\ Steady(16) /\ Steady(1)
  OBVIOUS
<1>1. Left' = Left
  BY DEF vars, Left, Wait
<1> QED
  BY <1>1 DEF Steady, Part

LEMMA AdvanceEnds ==
  ASSUME ShortScripts
  PROVE  Spec /\ <>[][~SomePress]_vars => <>[][~Advance]_vars
<1>1. Sound /\ Sound' /\ [Next]_vars /\ [~SomePress]_vars =>
         Descent /\ (Steady(1) => [~Advance]_vars)
  BY FallingStep
<1>2. Spec /\ <>[][~SomePress]_vars => <>[][Steady(4096)]_vars
  BY <1>1, SteadyStutter, SoundAlways, PTL DEF Spec, Descent, Halves
<1>3. Spec /\ <>[][~SomePress]_vars => <>[][Steady(256)]_vars
  BY <1>1, <1>2, SteadyStutter, SoundAlways, PTL DEF Spec, Descent, Halves
<1>4. Spec /\ <>[][~SomePress]_vars => <>[][Steady(16)]_vars
  BY <1>1, <1>3, SteadyStutter, SoundAlways, PTL DEF Spec, Descent, Halves
<1>5. Spec /\ <>[][~SomePress]_vars => <>[][Steady(1)]_vars
  BY <1>1, <1>4, SteadyStutter, SoundAlways, PTL DEF Spec, Descent, Halves
<1> QED
  BY <1>1, <1>5, SteadyStutter, SoundAlways, PTL DEF Spec

\* Where a queue could be held up: at the endpoint, between the checks and the send,
\* before its next report is due, and when it is.
AtEndpoint == mounted /\ ~suspended /\ wire # <<>>
Sending == loopPc = "report"
NotDue == events # <<>> /\ loopPc = "top" /\ ~NextDue
Ready == NextDue /\ (~mounted \/ HidReady)
Drained == events = <<>> /\ wire = <<>>

Quiet == [Next]_vars /\ [~SomePress]_vars /\ [~Advance]_vars

LEMMA SoundMeans == Sound => TypeOK /\ WireInv /\ DueExact /\ FromScript
  BY DueIsExact DEF Sound, IInv

LEMMA HeldUp ==
  Sound /\ (~mounted \/ (mounted /\ ~suspended)) =>
    Drained \/ AtEndpoint \/ Sending \/ NotDue \/ Ready
<1> SUFFICES ASSUME Sound, ~mounted \/ (mounted /\ ~suspended),
                    ~Drained, ~AtEndpoint, ~Sending, ~NotDue
             PROVE  Ready
  OBVIOUS
<1>1. TypeOK /\ WireInv
  BY DEF Sound, IInv
<1>2. wire = <<>>
  BY <1>1 DEF WireInv, AtEndpoint
<1>3. events # <<>> /\ loopPc = "top"
  BY <1>1, <1>2 DEF Drained, Sending, TypeOK
<1> QED
  BY <1>2, <1>3 DEF NotDue, Ready, HidReady

\* Before an event is due there is time left ...
LEMMA TimeLeft == Sound /\ NotDue => age < MaxAge /\ age < Longest
<1> SUFFICES ASSUME Sound, NotDue PROVE age < MaxAge /\ age < Longest
  OBVIOUS
<1>1. TypeOK /\ DueExact /\ FromScript
  BY SoundMeans
<1>2. events # <<>> /\ loopPc = "top" /\ ~NextDue
  BY DEF NotDue
<1>3. cursor < Len(events) /\ cursor + 1 \in DOMAIN events
  BY <1>1, <1>2, LeftTypes, LenProperties DEF TypeOK
<1>4. ~(events[cursor + 1].off <= age)
  BY <1>1, <1>2, <1>3 DEF NextDue, DueExact
<1>5. events[cursor + 1].off <= Longest /\ events[cursor + 1].off \in 0 .. MaxAge
  BY <1>1, <1>3, EventType DEF FromScript
<1> QED
  BY <1>1, <1>4, <1>5, LeftTypes, SizeTypes

\* ... and it stays due.
LEMMA StaysDue == ASSUME Sound, Sound', NextDue, Tick PROVE NextDue'
<1>1. TypeOK /\ DueExact /\ (TypeOK /\ DueExact)'
  <2>1. (Sound => TypeOK /\ WireInv /\ DueExact /\ FromScript)'
    BY SoundMeans, PTL
  <2> QED
    BY <2>1, SoundMeans
<1>2. /\ loopPc' = "top" /\ cursor < Len(events) /\ UNCHANGED <<events, cursor>>
      /\ age' = age + 1 /\ Due(events[cursor + 1])
  <2>1. events # <<>>
    BY <1>1, LeftTypes DEF NextDue
  <2> QED
    BY <2>1 DEF NextDue, Tick
<1>3. cursor + 1 \in DOMAIN events
  BY <1>1, <1>2, LeftTypes, LenProperties DEF TypeOK
<1>4. events[cursor + 1].off <= age /\ events[cursor + 1].off \in 0 .. MaxAge
  BY <1>1, <1>2, <1>3, EventType DEF DueExact
<1>5. events'[cursor' + 1].off <= age' /\ cursor' + 1 \in DOMAIN events'
  BY <1>1, <1>2, <1>3, <1>4, LeftTypes
<1>6. \A i \in DOMAIN events' : Due(events[i])' <=> events'[i].off <= age'
  BY <1>1 DEF DueExact
<1> QED
  BY <1>2, <1>5, <1>6 DEF NextDue

LEMMA QuietStep ==
  ASSUME Sound, Sound', Quiet
  PROVE  /\ AtEndpoint /\ (mounted /\ ~suspended)' => AtEndpoint'
         /\ Sending => Sending'
         /\ NotDue => NotDue'
         /\ Ready /\ (mounted /\ ~suspended)' => Ready'
         /\ Ready /\ ~mounted' => Ready'
         /\ Drained => Drained'
<1>1. TypeOK /\ WireInv
  BY SoundMeans
<1>2. CASE UNCHANGED vars
  <2>1. NextDue' <=> NextDue
    BY <1>2 DEF vars, NextDue, Due
  <2> QED
    BY <1>2, <2>1 DEF vars, AtEndpoint, Sending, NotDue, Ready, HidReady, Drained
<1>3. CASE Tick /\ ~Advance /\ ~UNCHANGED vars
  <2>1. ~NotDue
    BY <1>3, TimeLeft DEF NotDue, Advance
  <2>2. NextDue => NextDue'
    BY <1>3, StaysDue
  <2>3. UNCHANGED <<events, loopPc, mounted, suspended, wire>>
    BY <1>3 DEF Tick
  <2> QED
    BY <2>1, <2>2, <2>3 DEF AtEndpoint, Sending, Ready, HidReady, Drained
<1>4. CASE Mount \/ Unmount \/ Suspend \/ Resume
  <2>1. UNCHANGED <<now, events, cursor, loopPc>> /\ (wire' = wire \/ wire' = <<>>)
    BY <1>4 DEF Mount, Unmount, Suspend, Resume
  <2>2. NextDue' <=> NextDue
    BY <2>1 DEF NextDue, Due
  <2>3. AtEndpoint /\ (mounted /\ ~suspended)' => AtEndpoint'
    BY <1>4 DEF AtEndpoint, Mount, Unmount, Suspend, Resume
  <2>4. Ready => wire = <<>> /\ wire' = <<>>
    BY <1>1, <2>1 DEF Ready, HidReady, WireInv
  <2> QED
    BY <2>1, <2>2, <2>3, <2>4 DEF Sending, NotDue, Ready, HidReady, Drained
<1> QED
  BY <1>2, <1>3, <1>4 DEF Quiet, Next, Advance

\* Where the queue is held up, a step of the fairness condition is possible, and
\* it is an advance.
LEMMA HeldUpSteps ==
  Sound /\ EnginePossible =>
    /\ AtEndpoint => ENABLED <<HostPoll>>_vars
    /\ Sending => ENABLED <<SendReport>>_vars
    /\ NotDue => ENABLED <<Tick>>_vars
    /\ Ready => ENABLED <<Abort \/ Take>>_vars
  BY TimeLeft DEF EnginePossible, AtEndpoint, Sending, NotDue, Ready

LEMMA StepsAdvance ==
  Sound => /\ <<HostPoll>>_vars => ~[~Advance]_vars
           /\ <<SendReport>>_vars => ~[~Advance]_vars
           /\ NotDue /\ <<Tick>>_vars => ~[~Advance]_vars
           /\ <<Abort \/ Take>>_vars => ~[~Advance]_vars
  BY TimeLeft DEF Advance, NotDue

\* With a host that stays attached and awake, or one that stays away, and no further
\* presses, the queue drains: for every command and every choice of the delays.
THEOREM QueueDrains ==
  ASSUME ShortScripts
  PROVE  FairSpec /\ []EnginePossible => Drains
<1> DEFINE Awake == mounted /\ ~suspended
           Away == ~mounted
<1>1. Sound /\ Sound' /\ [Next]_vars /\ [~SomePress]_vars /\ [~Advance]_vars =>
         /\ AtEndpoint /\ Awake' => AtEndpoint'
         /\ Sending => Sending'
         /\ NotDue => NotDue'
         /\ Ready /\ Awake' => Ready'
         /\ Ready /\ Away' => Ready'
         /\ Drained => Drained'
  BY QuietStep DEF Quiet
<1>2. Sound /\ Awake => Drained \/ AtEndpoint \/ Sending \/ NotDue \/ Ready
  BY HeldUp
<1>3. Sound /\ Away => Drained \/ Sending \/ NotDue \/ Ready
  BY HeldUp DEF AtEndpoint
<1> HIDE DEF Awake, Away
<1>4. FairSpec /\ []EnginePossible /\ <>[][~SomePress]_vars /\ <>[]Awake => <>[]~AtEndpoint
  BY <1>1, AdvanceEnds, HeldUpSteps, StepsAdvance, SoundAlways, PTL
  DEF FairSpec, Fairness, Spec
<1>5. FairSpec /\ []EnginePossible /\ <>[][~SomePress]_vars => <>[]~Sending
  BY <1>1, AdvanceEnds, HeldUpSteps, StepsAdvance, SoundAlways, PTL
  DEF FairSpec, Fairness, Spec
<1>6. FairSpec /\ []EnginePossible /\ <>[][~SomePress]_vars => <>[]~NotDue
  BY <1>1, AdvanceEnds, HeldUpSteps, StepsAdvance, SoundAlways, PTL
  DEF FairSpec, Fairness, Spec
<1>7. FairSpec /\ []EnginePossible /\ <>[][~SomePress]_vars /\ (<>[]Awake \/ <>[]Away) => <>[]~Ready
  BY <1>1, AdvanceEnds, HeldUpSteps, StepsAdvance, SoundAlways, PTL
  DEF FairSpec, Fairness, Spec
<1>8. FairSpec /\ []EnginePossible /\ <>[][~SomePress]_vars /\ (<>[]Awake \/ <>[]Away) => <>[]Drained
  BY <1>2, <1>3, <1>4, <1>5, <1>6, <1>7, SoundAlways, PTL DEF FairSpec
<1> QED
  BY <1>8 DEF Drains, Drained, Awake, Away
=============================================================================
