------------------------ MODULE RemoteControlProofs ------------------------
(***************************************************************************)
(* Proofs about RemoteControl, for any set of watched and moving items,    *)
(* any number of handlers and of changes by others, any levels asked for.  *)
(***************************************************************************)
EXTENDS RemoteControlLemmas

-----------------------------------------------------------------------------
(* The inductive invariant, in parts                                       *)

\* Types, and how the variables of an access hang together.
HistoryInv ==
  /\ history \in Seq([Registers -> Word])
  /\ Len(history) >= 1
  /\ \A t \in 1..Len(history) : \A r \in Registers \cap FlagRegisters : history[t][r] \in {0, 1}
  /\ at \in 0..Len(history)
  /\ at # 0 => todo # <<>>
  /\ failed \in BOOLEAN
  /\ failed = TRUE => todo = <<>>

AccessesInv ==
  /\ \A k \in 1..Len(todo) : WellFormed(todo[k])
  /\ late = <<>> \/ (late = <<late[1]>> /\ WellFormed(late[1]) /\ IsWrite(late[1]))

\* What is left to do of a handler: the rest of its plan, or its one write.
TodoInv ==
  /\ task \in Tasks
  /\ param \in Seq(Int)
  /\ todo \in Seq([first : Nat, count : Nat, values : Seq(Int)])
  /\ task = "none" => todo = <<>>
  /\ task \in Writers => todo = <<>> \/ (todo = <<todo[1]>> /\ Carries(todo[1], TargetOf(task, param)))
  /\ (task \in Tasks \ Writers) =>
       /\ Len(todo) <= Len(PlanOf(task))
       /\ \A k \in 1..Len(todo) : todo[k] = PlanOf(task)[Len(PlanOf(task)) - Len(todo) + k]

\* The write of the running handler has been answered, or will be.
Written ==
  /\ failed = FALSE
  /\ \/ task \in Writers /\ (at # 0 \/ todo = <<>>)
     \/ task = "toggle_status"

\* Written settings are there, unless others have changed them since, and no
\* earlier write will come after them.
WrittenInv ==
  Written =>
    /\ late = <<>>
    /\ \A i \in DOMAIN TargetOf(task, param) \cap Followed :
         /\ Legal(i, TargetOf(task, param)[i])
         /\ i \notin touched => Held(i, TargetOf(task, param)[i], At(i, Now))

\* What is going to be stored is not acknowledged.
AskedInv ==
  /\ \A k \in 1..Len(todo) : IsWrite(todo[k]) => \A i \in Settings(todo[k]) : asked[i] = <<>>
  /\ \A k \in 1..Len(late) : \A i \in Settings(late[k]) : asked[i] = <<>>
  /\ \A i \in Followed : asked[i] # <<>> => Legal(i, asked[i]) /\ Held(i, asked[i], At(i, Now))

\* While a handler runs, what was acknowledged before holds at every moment.
SteadyInv ==
  task # "none" =>
    \A i \in Followed : asked[i] # <<>> =>
      \A t \in 1..Len(history) : Held(i, asked[i], At(i, history[t]))

\* A read that is done returned the registers as they were at one moment.
Seen(a) ==
  \E t \in 1..Len(history) : \A r \in Touched(a) : r \in DOMAIN got /\ got[r] = history[t][r]

SeenInv ==
  (task \in Careful /\ failed = FALSE) =>
    \A j \in 1..(Len(PlanOf(task)) - Len(todo)) : Seen(PlanOf(task)[j])

\* A toggle knows a state the output had, and the other one is its aim.
ToggleInv ==
  task \in {"toggle_set", "toggle_status"} =>
    /\ param \in {<<w, b>> : w \in {0, 1}, b \in {0, 1}}
    /\ IF param[2] = 1
       THEN \E t \in 1..Len(history) : history[t][OutputRegister] = 1 - param[1]
       ELSE param[1] = 1
    /\ Written => \E t \in 1..Len(history) : history[t][OutputRegister] = param[1]

\* While a handler runs there is no reply.
ReplyInv == task # "none" => reply = NoReply

IInv == HistoryInv /\ AccessesInv /\ TodoInv /\ WrittenInv /\ AskedInv /\ SteadyInv /\ SeenInv /\ ToggleInv /\ ReplyInv

-----------------------------------------------------------------------------
(* The steps, told apart by what they do to the variables of RegisterCalls *)

\* A handler begins.
Starts ==
  \E name, p, accesses : Handler(name, p, accesses) /\ Start(name, p, accesses)

\* A handler ends.  One that ends well has not seen a call fail, and has made
\* the settings of its name.
Ends ==
  \E ok \in BOOLEAN : \E answer, set :
    /\ Finished
    /\ End(ok, answer, set)
    /\ ok = TRUE => /\ failed = FALSE
                    /\ task \notin {"toggle_out", "toggle_set"}
                    /\ set = TargetOf(task, param)
                    /\ task \in DOMAIN Queries =>
                         answer = Answer(task, Decode(Queries[task].kind,
                                                      Values(Queries[task].item)))

\* A toggle that has been answered goes on to the status page.
ToggleShows ==
  /\ Finished /\ task = "toggle_set" /\ failed = FALSE
  /\ task' = "toggle_status"
  /\ todo' = Chunks(SUBSET_END)
  /\ UNCHANGED <<history, late, param, at, got, failed, reply, asked, touched, moves, tasks>>

LEMMA TaskNames ==
  /\ {"set_i", "set_v", "toggle_set", "set_clock"} \subseteq Writers
  /\ \A c \in DOMAIN SetCommands : c \in Writers /\ c \notin PageTasks /\ c # "none"
  /\ \A c \in DOMAIN Queries : c \notin Writers /\ c \notin PageTasks /\ c # "none"
  /\ "toggle_set" \in PageTasks /\ "toggle_status" \in PageTasks
  /\ \A c \in Tasks \ (Writers \cup {"none", "toggle_status"}) :
       TargetOf(c, param) = NoSetting
  /\ {"status", "psu", "root", "lxi_identification", "modbus_qps", "toggle_out",
      "toggle_status"} \cap Writers = {}
  /\ Tasks = {"none"} \cup PageTasks \cup DOMAIN SetCommands \cup DOMAIN Queries
  BY SetCommandNames, QueryNames DEF Writers, PageTasks, Tasks, TargetOf

\* Reading handlers begin with their plans.
LEMMA ReadersStart ==
  ASSUME NEW name \in Tasks \ (Writers \cup {"none"}), name # "toggle_status",
         Start(name, <<>>, PlanOf(name))
  PROVE  Starts
<1>1. Handler(name, <<>>, PlanOf(name))
  BY TaskNames DEF Handler
<1> QED
  BY <1>1 DEF Starts

\* Setting handlers begin with the write that carries what they are to set.
LEMMA WritersStart ==
  ASSUME NEW name \in Writers, name # "toggle_set", NEW p \in Seq(Int), NEW w, Carries(w, TargetOf(name, p)),
         Start(name, p, <<w>>)
  PROVE  Starts
<1>1. Handler(name, p, <<w>>)
  BY PlainReaders, TaskNames DEF Handler
<1> QED
  BY <1>1 DEF Starts

LEMMA ScpiSteps ==
  ASSUME Scpi, failed \in BOOLEAN
  PROVE  Starts \/ Reject \/ Ends \/ UNCHANGED callVars
<1>1. ASSUME NEW c \in DOMAIN SetCommands, NEW p \in Parameters(c), ScpiSet(c, p)
      PROVE  Starts \/ Reject
  <2>1. CASE p[1] \in SetCommands[c].legal
             /\ \E v \in Encode(SetCommands[c].kind, p) :
                  Start(c, p, <<Write(SetCommands[c].item, v)>>)
    <3>1. PICK v \in Encode(SetCommands[c].kind, p) :
            Start(c, p, <<Write(SetCommands[c].item, v)>>)
      BY <2>1
    <3>2. p \in Seq(Int) /\ Carries(Write(SetCommands[c].item, v), TargetOf(c, p))
      BY <2>1, CommandCarries
    <3>3. c \in Writers /\ c # "toggle_set"
      BY TaskNames
    <3> QED
      BY <3>1, <3>2, <3>3, WritersStart
  <2> QED
    BY <1>1, <2>1, Zenon DEF ScpiSet
<1>2. ASSUME NEW c \in DOMAIN Queries, ScpiQuery(c)
      PROVE  Starts
  <2>1. /\ PlanOf(c) = <<ReadItem(Queries[c].item)>>
        /\ c \in Tasks \ (Writers \cup {"none"}) /\ c # "toggle_status"
    BY PlanCases, PlainReaders, TaskNames
  <2> QED
    BY <1>2, <2>1, ReadersStart DEF ScpiQuery
<1>3. CASE ScpiFailed
  BY <1>3 DEF ScpiFailed, Ends
<1>4. CASE ScpiDone
  <2>1. CASE task \in DOMAIN SetCommands
             /\ End(TRUE, <<>>, Setting(SetCommands[task].item, param))
    <3>1. TargetOf(task, param) = Setting(SetCommands[task].item, param)
      BY <2>1, SetCommandNames DEF TargetOf
    <3>2. task \notin DOMAIN Queries /\ task \notin {"toggle_out", "toggle_set"}
      BY <2>1, TaskNames DEF PageTasks
    <3>3. Finished /\ failed = FALSE
      BY <1>4 DEF ScpiDone
    <3> QED
      BY <2>1, <3>1, <3>2, <3>3 DEF Ends
  <2>2. CASE task \in DOMAIN Queries
             /\ End(TRUE, Answer(task, Decode(Queries[task].kind, Values(Queries[task].item))),
                    NoSetting)
    <3>1. TargetOf(task, param) = NoSetting
      BY <2>2, SetCommandNames, QueryNames DEF TargetOf
    <3>2. task \notin {"toggle_out", "toggle_set"}
      BY <2>2, QueryNames
    <3>3. Finished /\ failed = FALSE
      BY <1>4 DEF ScpiDone
    <3> QED
      BY <2>2, <3>1, <3>2, <3>3 DEF Ends
  <2> QED
    BY <1>4, <2>1, <2>2 DEF ScpiDone
<1>5. CASE ScpiBadParameter \/ ScpiBadSensor \/ ErrorsRead
  BY <1>5 DEF ScpiBadParameter, ScpiBadSensor, ErrorsRead
<1> QED
  BY <1>1, <1>2, <1>3, <1>4, <1>5 DEF Scpi

LEMMA HttpSteps ==
  ASSUME Http, failed \in BOOLEAN
  PROVE  Starts \/ Ends \/ ToggleWrite \/ ToggleShows
<1>1. CASE StatusGet \/ PsuGet \/ RootGet \/ LxiIdentification \/ ModbusQps \/ ToggleOut
  <2>1. /\ {"status", "psu", "root", "lxi_identification", "modbus_qps", "toggle_out"}
             \subseteq Tasks \ (Writers \cup {"none"})
        /\ "toggle_status" \notin {"status", "psu", "root", "lxi_identification",
                                   "modbus_qps", "toggle_out"}
    BY PlainReaders
  <2>2. /\ StatusGet => Start("status", <<>>, PlanOf("status"))
        /\ PsuGet => Start("psu", <<>>, PlanOf("psu"))
        /\ RootGet => Start("root", <<>>, PlanOf("root"))
        /\ LxiIdentification => Start("lxi_identification", <<>>, PlanOf("lxi_identification"))
        /\ ModbusQps => Start("modbus_qps", <<>>, PlanOf("modbus_qps"))
        /\ ToggleOut => Start("toggle_out", <<>>, PlanOf("toggle_out"))
    BY PlanCases, Zenon
       DEF StatusGet, PsuGet, RootGet, LxiIdentification, ModbusQps, ToggleOut
  <2> QED
    BY <1>1, <2>1, <2>2, ReadersStart
<1>2. ASSUME NEW x \in Levels, SetI(x)
      PROVE  Starts
  <2>1. PICK v \in Encode("amps", <<x>>) : Start("set_i", <<x>>, <<Write("CurrentSet", v)>>)
    BY <1>2 DEF SetI
  <2>2. x \in Int /\ <<x>> \in Seq(Int) /\ "set_i" \in Writers
    BY ScpiAssumption, TaskNames
  <2>3. TargetOf("set_i", <<x>>) = Setting("CurrentSet", <<x>>)
    BY SetCommandNames DEF TargetOf
  <2>4. Carries(Write("CurrentSet", v), Setting("CurrentSet", <<x>>))
    BY <2>2, LevelCarries
  <2> QED
    BY <2>1, <2>2, <2>3, <2>4, WritersStart
<1>3. ASSUME NEW x \in Levels, SetV(x)
      PROVE  Starts
  <2>1. PICK v \in Encode("volts", <<x>>) : Start("set_v", <<x>>, <<Write("VoltageSet", v)>>)
    BY <1>3 DEF SetV
  <2>2. x \in Int /\ <<x>> \in Seq(Int) /\ "set_v" \in Writers
    BY ScpiAssumption, TaskNames
  <2>3. TargetOf("set_v", <<x>>) = Setting("VoltageSet", <<x>>)
    BY SetCommandNames DEF TargetOf
  <2>4. Carries(Write("VoltageSet", v), Setting("VoltageSet", <<x>>))
    BY <2>2, LevelCarries
  <2> QED
    BY <2>1, <2>2, <2>3, <2>4, WritersStart
<1>4. CASE ToggleAnswer
  BY <1>4 DEF ToggleAnswer, ToggleShows, Ends
<1>5. CASE PageDone
  <2>1. TargetOf(task, param) = NoSetting /\ task \notin DOMAIN Queries
    BY <1>5, SetCommandNames, QueryNames DEF PageDone, TargetOf
  <2> QED
    BY <1>5, <2>1 DEF PageDone, Ends
<1>6. CASE SetDone
  <2>1. /\ task = "set_i" => TargetOf(task, param) = Setting("CurrentSet", param)
        /\ task = "set_v" => TargetOf(task, param) = Setting("VoltageSet", param)
        /\ task = "toggle_status" => TargetOf(task, param) = Setting("Output", <<param[1]>>)
        /\ task \in {"set_i", "set_v", "toggle_status"} => task \notin DOMAIN Queries
    BY SetCommandNames, QueryNames DEF TargetOf
  <2> QED
    BY <1>6, <2>1 DEF SetDone, Ends
<1> QED
  BY <1>1, <1>2, <1>3, <1>4, <1>5, <1>6 DEF Http

LEMMA ClockSteps ==
  ASSUME SetClock, failed \in BOOLEAN
  PROVE  Starts \/ Ends
<1> DEFINE tm == <<125, 2, 12, 8, 30, 0>>
<1>1. CASE \E v \in Encode("clock", tm) : Start("set_clock", tm, <<Write("Clock", v)>>)
  <2>1. PICK v \in Encode("clock", tm) : Start("set_clock", tm, <<Write("Clock", v)>>)
    BY <1>1
  <2>2. tm \in Seq(Int) /\ "set_clock" \in Writers
    BY TaskNames
  <2>3. Carries(Write("Clock", v), TargetOf("set_clock", tm))
    BY ClockCarries
  <2> QED
    BY <2>1, <2>2, <2>3, WritersStart
<1> DEFINE target == [i \in {"Date", "Time"} |->
                         IF i = "Date" THEN <<2025, 3, 12>> ELSE <<8, 30, 0>>]
<1>2. ASSUME Finished, task = "set_clock", End(~failed, <<>>, target)
      PROVE  Ends
  <2>1. TargetOf(task, param) = target
    BY <1>2, SetCommandNames DEF TargetOf
  <2>2. task \notin DOMAIN Queries /\ task \notin {"toggle_out", "toggle_set"}
    BY <1>2, QueryNames
  <2>3. (~failed) \in BOOLEAN /\ ((~failed) = TRUE => failed = FALSE)
    OBVIOUS
  <2> HIDE DEF target
  <2> QED
    BY <1>2, <2>1, <2>2, <2>3, Zenon DEF Ends
<1> QED
  BY <1>1, <1>2 DEF SetClock

\* Every step is one of these.
LEMMA StepCases ==
  ASSUME [Next]_vars, failed \in BOOLEAN
  PROVE  \/ Starts \/ Ends \/ ToggleWrite \/ ToggleShows
         \/ Perform \/ Answered \/ GiveUp \/ PerformLate \/ \E i \in Moving : Move(i)
         \/ Reject \/ UNCHANGED callVars
  BY ScpiSteps, HttpSteps, ClockSteps DEF Next, Access, vars

-----------------------------------------------------------------------------
(* What steps do to the registers                                          *)

\* A value of the registers as HistoryInv wants it.
Regular(regs) ==
  /\ regs \in [Registers -> Word]
  /\ \A r \in Registers \cap FlagRegisters : regs[r] \in {0, 1}

LEMMA RegularHistory ==
  ASSUME HistoryInv
  PROVE  \A t \in 1..Len(history) : Regular(history[t])
  BY DEF HistoryInv, Regular

LEMMA RegularNow ==
  ASSUME HistoryInv
  PROVE  Regular(Now) /\ Len(history) \in 1..Len(history) /\ Now = history[Len(history)]
<1>1. Len(history) \in Nat /\ Len(history) >= 1
  BY DEF HistoryInv
<1>2. Len(history) \in 1..Len(history)
  BY <1>1
<1> QED
  BY <1>2, RegularHistory DEF Now

\* A setting's registers are followed, and numbered from its first one.
LEMMA FollowedRegisters ==
  ASSUME NEW i \in Followed
  PROVE  /\ i \in Settable
         /\ Layout[i][1] \in Nat /\ Layout[i][2] \in 1..3
         /\ Regs(i) = Layout[i][1] .. Layout[i][1] + Layout[i][2] - 1
         /\ Regs(i) \subseteq Registers
         /\ \A k \in 1..Layout[i][2] : Layout[i][1] + k - 1 \in Regs(i)
<1>1. i \in Settable /\ Regs(i) \subseteq Registers
  BY DEF Followed
<1>2. Layout[i][1] \in Nat /\ Layout[i][2] \in 1..3
  BY <1>1, SettableLayout
<1> QED
  BY <1>1, <1>2 DEF Regs

\* A setting none of whose registers changes is as it was.
LEMMA AtKept ==
  ASSUME NEW i \in Followed, NEW old, NEW new, \A r \in Regs(i) : new[r] = old[r]
  PROVE  At(i, new) = At(i, old)
<1>1. \A k \in 1..Layout[i][2] : Layout[i][1] + k - 1 \in Regs(i)
  BY FollowedRegisters
<1> QED
  BY <1>1 DEF At

LEMMA StoredRegular ==
  ASSUME NEW w, WellFormed(w), IsWrite(w), NEW regs, Regular(regs)
  PROVE  Regular(Stored(w, regs))
<1>1. \A r \in Touched(w) : w.values[r - w.first + 1] \in Word
  <2> SUFFICES ASSUME NEW r \in Touched(w)
               PROVE  w.values[r - w.first + 1] \in Word
    OBVIOUS
  <2>0. w.first \in 0..256 /\ w.count \in 1..20
    BY Zenon DEF WellFormed
  <2>1. w.values \in Seq(Word) /\ Len(w.values) = w.count
    BY Zenon DEF WellFormed
  <2>2. r \in Int /\ r >= w.first /\ r < w.first + w.count
    BY RegistersFit DEF Touched
  <2>3. \A x, f, n \in Int : x >= f /\ x < f + n => x - f + 1 \in 1..n
    OBVIOUS
  <2>4. w.first \in Int /\ w.count \in Int
    BY <2>0
  <2>5. r - w.first + 1 \in 1..Len(w.values)
    BY <2>1, <2>2, <2>3, <2>4, Zenon
  <2> QED
    BY <2>1, <2>5
<1>2. \A r \in Touched(w) \cap FlagRegisters : w.values[r - w.first + 1] \in {0, 1}
  BY DEF WellFormed
<1> QED
  BY <1>1, <1>2 DEF Regular, Stored

\* A write leaves the settings alone that it does not touch ...
LEMMA AtSpared ==
  ASSUME NEW i \in Followed, NEW w, i \notin Settings(w), NEW regs
  PROVE  At(i, Stored(w, regs)) = At(i, regs)
<1>1. \A r \in Regs(i) : r \in Registers /\ r \notin Touched(w)
  BY FollowedRegisters DEF Settings, Touched
<1>2. \A r \in Regs(i) : Stored(w, regs)[r] = regs[r]
  BY <1>1 DEF Stored
<1> QED
  BY <1>2, AtKept

\* ... and what it stores in the others is there.
LEMMA AtStored ==
  ASSUME NEW i \in Followed, NEW w, WellFormed(w), Regs(i) \subseteq Touched(w), NEW regs
  PROVE  At(i, Stored(w, regs)) = Part(i, w)
<1>1. w.first \in 0..256
  BY Zenon DEF WellFormed
<1>2. ASSUME NEW k \in 1..Layout[i][2]
      PROVE  Stored(w, regs)[Layout[i][1] + k - 1] = w.values[Layout[i][1] + k - w.first]
  <2> DEFINE r == Layout[i][1] + k - 1
  <2>1. r \in Registers /\ r \in Touched(w)
    BY FollowedRegisters
  <2>2. Layout[i][1] \in Nat /\ Layout[i][2] \in 1..3
    BY FollowedRegisters
  <2> DEFINE l == Layout[i][1]
             f == w.first
  <2>3. l \in Int /\ k \in Int /\ f \in Int
    BY <1>1, <2>2
  <2>6. r = l + k - 1
    OBVIOUS
  <2> HIDE DEF l, f
  <2>5. (l + k - 1) - f + 1 = l + k - f
    BY <2>3
  <2> HIDE DEF r
  <2>4. Stored(w, regs)[r] = w.values[r - w.first + 1]
    BY <2>1 DEF Stored
  <2> QED
    BY <2>4, <2>5, <2>6 DEF r, l, f
<1> QED
  BY <1>2 DEF At, Part

\* When nothing but the history grows, by something regular.
LEMMA HistoryGrows ==
  ASSUME HistoryInv, NEW regs, Regular(regs), history' = Append(history, regs)
  PROVE  /\ history' \in Seq([Registers -> Word])
         /\ Len(history') = Len(history) + 1 /\ Len(history) \in Nat
         /\ \A t \in 1..Len(history) : history'[t] = history[t]
         /\ history'[Len(history')] = regs
         /\ \A t \in 1..Len(history') : Regular(history'[t])
<1>1. history \in Seq([Registers -> Word]) /\ regs \in [Registers -> Word]
  BY DEF HistoryInv, Regular
<1>2. /\ history' \in Seq([Registers -> Word])
      /\ Len(history') = Len(history) + 1 /\ Len(history) \in Nat
      /\ \A t \in 1..Len(history) : history'[t] = history[t]
      /\ history'[Len(history')] = regs
  BY <1>1
<1>3. \A t \in 1..Len(history') : t \in 1..Len(history) \/ t = Len(history')
  BY <1>2
<1> QED
  BY <1>2, <1>3, RegularHistory

\* What Move makes of the registers.
Moved(i, regs) ==
  [r \in Registers |->
     IF r \notin Regs(i) THEN regs[r]
     ELSE IF i \in Flags THEN 1 - regs[r] ELSE (regs[r] + 1) % WORD]

\* The flags of an item that others change stay flags.
LEMMA MovedRegular ==
  ASSUME NEW regs, Regular(regs), NEW i \in Moving
  PROVE  Regular(Moved(i, regs))
<1>1. i \in DOMAIN Layout
  BY CallsAssumption
<1>2. i \in Flags => Regs(i) \subseteq FlagRegisters
  BY DEF FlagRegisters
<1>3. i \notin Flags => Regs(i) \cap FlagRegisters = {}
  BY <1>1, FlagsApart
<1>4. \A v \in Word : (v + 1) % WORD \in Word
  BY RegistersAssumption DEF Word
<1>5. {0, 1} \subseteq Word
  BY RegistersAssumption DEF Word
<1>6. \A v \in {0, 1} : 1 - v \in {0, 1}
  OBVIOUS
<1>7. \A r \in Registers : regs[r] \in Word
  BY DEF Regular
<1>8. \A r \in Registers \cap FlagRegisters : regs[r] \in {0, 1}
  BY DEF Regular
<1> HIDE DEF Word
<1> QED
  BY <1>2, <1>3, <1>4, <1>5, <1>6, <1>7, <1>8 DEF Regular, Moved

-----------------------------------------------------------------------------
(* The invariant holds at first                                            *)

LEMMA InitIInv ==
  ASSUME Init
  PROVE  IInv
<1>0. /\ history = <<[r \in Registers |-> 0]>> /\ late = <<>> /\ task = "none" /\ param = <<>>
      /\ todo = <<>> /\ at = 0 /\ failed = FALSE
      /\ asked = [i \in Followed |-> <<>>]
  BY DEF Init, CallsInit
<1>1. "none" \notin Writers /\ "none" \notin Careful /\ "none" \in Tasks
  BY PlainReaders, QueryNames DEF Careful, Tasks
<1>2. HistoryInv
  <2>1. 0 \in Word /\ [r \in Registers |-> 0] \in [Registers -> Word]
    BY RegistersAssumption DEF Word
  <2>2. history \in Seq([Registers -> Word]) /\ Len(history) = 1
        /\ history[1] = [r \in Registers |-> 0]
    BY <1>0, <2>1
  <2>3. \A t \in 1..Len(history) : \A r \in Registers \cap FlagRegisters : history[t][r] \in {0, 1}
    BY <2>2
  <2>4. history \in Seq([Registers -> Word]) /\ Len(history) >= 1
        /\ at = 0 /\ at \in 0..Len(history) /\ failed = FALSE
    BY <1>0, <2>2
  <2> QED
    BY <2>3, <2>4 DEF HistoryInv
<1>3. AccessesInv
  BY <1>0 DEF AccessesInv
<1>4. TodoInv
  <2>1. todo \in Seq([first : Nat, count : Nat, values : Seq(Int)]) /\ param \in Seq(Int)
    BY <1>0
  <2>2. task \notin Tasks \ Writers \/ PlanOf("none") = <<>>
    BY QueryNames DEF PlanOf
  <2>3. Len(todo) = 0
    BY <1>0
  <2> QED
    BY <1>0, <1>1, <2>1, <2>2, <2>3 DEF TodoInv
<1>5. WrittenInv
  BY <1>0, <1>1 DEF WrittenInv, Written
<1>6. AskedInv
  BY <1>0 DEF AskedInv
<1>7. SteadyInv /\ SeenInv /\ ToggleInv /\ ReplyInv
  BY <1>0, <1>1 DEF SteadyInv, SeenInv, ToggleInv, ReplyInv
<1> QED
  BY <1>2, <1>3, <1>4, <1>5, <1>6, <1>7 DEF IInv

-----------------------------------------------------------------------------
(* Steps keep the invariant                                                *)

\* Which handlers write and which read.
LEMMA TaskKinds ==
  /\ "none" \notin Writers /\ "none" \notin Careful /\ "none" \in Tasks
  /\ "toggle_set" \in Writers /\ "toggle_status" \in Tasks \ Writers
  /\ "toggle_set" \notin Careful /\ "toggle_status" \in Careful
  /\ "toggle_out" \in Tasks \ Writers /\ "toggle_out" \in Careful
  /\ Writers \subseteq Tasks /\ Careful \subseteq Tasks \ (Writers \cup {"none"})
  /\ Careful \cap {"root", "lxi_identification", "modbus_qps"} = {}
  /\ Writers \cap {"root", "lxi_identification", "modbus_qps"} = {}
  BY SetCommandNames, QueryNames DEF Careful, Tasks, PageTasks, Writers

\* The plan of a reader consists of reads.
LEMMA PlanReads ==
  ASSUME TodoInv, task \notin Writers
  PROVE  \A k \in 1..Len(todo) : WellFormed(todo[k]) /\ ~IsWrite(todo[k])
<1> SUFFICES ASSUME NEW k \in 1..Len(todo)
             PROVE  WellFormed(todo[k]) /\ ~IsWrite(todo[k])
  OBVIOUS
<1>1. task \in Tasks /\ task # "none"
  BY DEF TodoInv
<1>2. PlanOf(task) \in Seq(Reads)
  BY <1>1, PlansRead
<1>3. /\ Len(todo) <= Len(PlanOf(task))
      /\ todo[k] = PlanOf(task)[Len(PlanOf(task)) - Len(todo) + k]
      /\ Len(todo) \in Nat
  BY <1>1 DEF TodoInv
<1>4. Len(PlanOf(task)) \in Nat
  BY <1>2
<1>5. Len(PlanOf(task)) - Len(todo) + k \in 1..Len(PlanOf(task))
  BY <1>3, <1>4
<1>6. todo[k] \in Reads
  BY <1>2, <1>3, <1>5
<1> QED
  BY <1>6, ReadsAre

\* The history so far stays.
Grows ==
  /\ Len(history) \in Nat /\ Len(history') \in Nat
  /\ Len(history) <= Len(history')
  /\ \A t \in 1..Len(history) : t \in 1..Len(history') /\ history'[t] = history[t]

LEMMA SeenGrows ==
  ASSUME Grows, got' = got, NEW a, Seen(a)
  PROVE  Seen(a)'
<1>1. PICK t \in 1..Len(history) : \A r \in Touched(a) : r \in DOMAIN got /\ got[r] = history[t][r]
  BY DEF Seen
<1>2. t \in 1..Len(history') /\ history'[t] = history[t]
  BY DEF Grows
<1>3. \A r \in Touched(a) : r \in DOMAIN got' /\ got'[r] = history'[t][r]
  BY <1>1, <1>2
<1> QED
  BY <1>2, <1>3 DEF Seen

LEMMA SeenInvGrows ==
  ASSUME Grows, got' = got, SeenInv, UNCHANGED <<task, todo, failed>>
  PROVE  SeenInv'
<1> SUFFICES ASSUME task' \in Careful /\ failed' = FALSE,
                    NEW j \in 1..(Len(PlanOf(task')) - Len(todo'))
             PROVE  Seen(PlanOf(task)[j])'
  BY DEF SeenInv
<1>1. Seen(PlanOf(task)[j])
  BY DEF SeenInv
<1> QED
  BY <1>1, SeenGrows

\* A setting that is being written is what it was asked for at the moment the
\* write is carried out.
LEMMA PerformWrites ==
  ASSUME HistoryInv, AccessesInv, TodoInv, Perform, task \in Writers
  PROVE  /\ IsWrite(todo[1]) /\ WellFormed(todo[1])
         /\ \A i \in DOMAIN TargetOf(task, param) \cap Followed :
              /\ i \in Settings(todo[1])
              /\ Legal(i, TargetOf(task, param)[i])
              /\ Held(i, TargetOf(task, param)[i], At(i, Stored(todo[1], Now)))
<1>1. Carries(todo[1], TargetOf(task, param))
  BY DEF Perform, TodoInv
<1>2. IsWrite(todo[1]) /\ WellFormed(todo[1])
  BY <1>1 DEF Carries
<1> SUFFICES ASSUME NEW i \in DOMAIN TargetOf(task, param) \cap Followed
             PROVE  /\ i \in Settings(todo[1])
                    /\ Legal(i, TargetOf(task, param)[i])
                    /\ Held(i, TargetOf(task, param)[i], At(i, Stored(todo[1], Now)))
  BY <1>2
<1>3. /\ i \in Settings(todo[1]) /\ Regs(i) \subseteq Touched(todo[1])
      /\ Legal(i, TargetOf(task, param)[i])
      /\ Held(i, TargetOf(task, param)[i], Part(i, todo[1]))
  BY <1>1 DEF Carries
<1>4. At(i, Stored(todo[1], Now)) = Part(i, todo[1])
  BY <1>2, <1>3, AtStored
<1> QED
  BY <1>3, <1>4

\* What becomes of the history when the first access is carried out.
LEMMA PerformGrows ==
  ASSUME HistoryInv, AccessesInv, TodoInv, Perform
  PROVE  /\ Grows
         /\ HistoryInv'
         /\ at' = Len(history') /\ at' \in 1..Len(history')
         /\ ~IsWrite(todo[1]) => history' = history
         /\ IsWrite(todo[1]) => /\ Now' = Stored(todo[1], Now)
                                /\ Len(history') = Len(history) + 1
<1>1. todo # <<>> /\ Head(todo) = todo[1] /\ todo' = todo /\ failed' = failed
      /\ at' = Len(history')
  BY DEF Perform
<1>2. CASE ~IsWrite(todo[1])
  <2>1. history' = history
    BY <1>1, <1>2 DEF Perform
  <2>2. Grows
    BY <2>1 DEF Grows, HistoryInv
  <2>3. at' \in 1..Len(history')
    BY <1>1, <2>1 DEF HistoryInv
  <2>4. HistoryInv'
    BY <1>1, <2>1, <2>3 DEF HistoryInv
  <2> QED
    BY <1>1, <1>2, <2>1, <2>2, <2>3, <2>4
<1>3. CASE IsWrite(todo[1])
  <2>1. history' = Append(history, Stored(todo[1], Now))
    BY <1>1, <1>3 DEF Perform
  <2>2. 1 \in 1..Len(todo)
    BY <1>1 DEF TodoInv
  <2>3. Regular(Stored(todo[1], Now))
    <3>1. WellFormed(todo[1])
      BY <2>2 DEF AccessesInv
    <3>2. Regular(Now)
      BY RegularNow
    <3> QED
      BY <1>3, <3>1, <3>2, StoredRegular
  <2>4. /\ history' \in Seq([Registers -> Word])
        /\ Len(history') = Len(history) + 1 /\ Len(history) \in Nat
        /\ \A t \in 1..Len(history) : history'[t] = history[t]
        /\ history'[Len(history')] = Stored(todo[1], Now)
        /\ \A t \in 1..Len(history') : Regular(history'[t])
    BY <2>1, <2>3, HistoryGrows
  <2>5. Grows
    BY <2>4 DEF Grows
  <2>6. at' \in 1..Len(history')
    BY <1>1, <2>4
  <2>7. HistoryInv'
    BY <1>1, <2>4, <2>6 DEF HistoryInv, Regular
  <2> QED
    BY <1>1, <1>3, <2>4, <2>5, <2>6, <2>7 DEF Now
<1> QED
  BY <1>2, <1>3

\* The output's state and its setting.
LEMMA OutputSetting ==
  /\ "Output" \in Followed
  /\ \A p : TargetOf("toggle_set", p) = Setting("Output", <<p[1]>>)
  /\ \A p : TargetOf("toggle_status", p) = Setting("Output", <<p[1]>>)
  /\ \A p, regs : Held("Output", <<p>>, At("Output", regs)) <=> regs[OutputRegister] = p
  /\ OutputRegister = 18 /\ 18 \in Registers \cap FlagRegisters
<1>1. Layout["Output"] = <<18, 1>> /\ OutputRegister = 18
  BY LayoutOfSettings DEF OutputRegister
<1>2. Regs("Output") = {18}
  BY <1>1 DEF Regs
<1>3. {18} \subseteq Registers /\ "Output" \in Followed /\ 18 \in FlagRegisters
  BY <1>2, HttpAssumption, FlagsAre DEF Registers, Followed, Settable
<1>4. /\ \A p : TargetOf("toggle_set", p) = Setting("Output", <<p[1]>>)
      /\ \A p : TargetOf("toggle_status", p) = Setting("Output", <<p[1]>>)
  BY SetCommandNames DEF TargetOf
<1>5. \A regs : At("Output", regs)[1] = regs[18]
  BY <1>1 DEF At
<1>6. \A p, v : Held("Output", <<p>>, v) <=> v[1] = p
  BY DEF Held
<1> QED
  BY <1>1, <1>3, <1>4, <1>5, <1>6

\* What holds now and held at every moment before holds at every moment.
LEMMA SteadyGrows ==
  ASSUME SteadyInv, AskedInv', Grows, Len(history') <= Len(history) + 1,
         \A i \in Followed : asked'[i] # <<>> => asked'[i] = asked[i],
         task' # "none" => task # "none"
  PROVE  SteadyInv'
<1> SUFFICES ASSUME task' # "none", NEW i \in Followed, asked'[i] # <<>>,
                    NEW t \in 1..Len(history')
             PROVE  Held(i, asked'[i], At(i, history'[t]))
  BY DEF SteadyInv
<1>1. Len(history) \in Nat /\ Len(history') \in Nat
  BY DEF Grows
<1>2. CASE t \in 1..Len(history)
  <2>1. history'[t] = history[t]
    BY <1>2 DEF Grows
  <2>2. Held(i, asked[i], At(i, history[t]))
    BY <1>2 DEF SteadyInv
  <2> QED
    BY <2>1, <2>2
<1>3. CASE t = Len(history')
  BY <1>3 DEF AskedInv, Now
<1> QED
  BY <1>1, <1>2, <1>3

\* Moments there were stay.
LEMMA ToggleGrows ==
  ASSUME ToggleInv, Grows, UNCHANGED <<task, param>>, Written' => Written
  PROVE  ToggleInv'
<1> SUFFICES ASSUME task \in {"toggle_set", "toggle_status"}
             PROVE  ToggleInv'
  BY DEF ToggleInv
<1> DEFINE Had(v) == \E t \in 1..Len(history) : history[t][OutputRegister] = v
           Has(v) == \E t \in 1..Len(history') : history'[t][OutputRegister] = v
<1>1. \A v : Had(v) => Has(v)
  BY DEF Grows
<1>2. /\ param \in {<<w, b>> : w \in {0, 1}, b \in {0, 1}}
      /\ IF param[2] = 1 THEN Had(1 - param[1]) ELSE param[1] = 1
      /\ Written => Had(param[1])
  BY DEF ToggleInv
<1> HIDE DEF Had, Has
<1>3. /\ IF param[2] = 1 THEN Has(1 - param[1]) ELSE param[1] = 1
      /\ Written' => Has(param[1])
  BY <1>1, <1>2
<1> QED
  BY <1>2, <1>3 DEF ToggleInv, Has

LEMMA PerformKeeps ==
  ASSUME IInv, Perform
  PROVE  IInv'
<1> USE DEF IInv
<1>1. /\ todo # <<>> /\ at = 0 /\ late = <<>>
      /\ UNCHANGED <<late, task, param, todo, got, failed, reply, asked, touched>>
  BY DEF Perform
<1>2. task # "none" /\ task \in Tasks /\ 1 \in 1..Len(todo)
  BY <1>1 DEF TodoInv
<1>3. /\ Grows /\ HistoryInv' /\ at' \in 1..Len(history')
      /\ ~IsWrite(todo[1]) => history' = history
      /\ IsWrite(todo[1]) => Now' = Stored(todo[1], Now) /\ Len(history') = Len(history) + 1
  BY PerformGrows
<1>4. AccessesInv' /\ TodoInv' /\ ReplyInv' /\ SeenInv'
  BY <1>1, <1>3, SeenInvGrows DEF AccessesInv, TodoInv, ReplyInv
<1>5. task \in Writers =>
        /\ IsWrite(todo[1])
        /\ \A i \in DOMAIN TargetOf(task, param) \cap Followed :
             /\ Legal(i, TargetOf(task, param)[i])
             /\ Held(i, TargetOf(task, param)[i], At(i, Now'))
  BY <1>3, PerformWrites
<1>6. task \notin Writers => ~IsWrite(todo[1]) /\ history' = history /\ Now' = Now
  BY <1>2, <1>3, PlanReads DEF Now
<1>7. WrittenInv'
  <2>1. CASE task \in Writers
    BY <1>1, <1>5, <2>1 DEF WrittenInv
  <2>2. CASE task \notin Writers
    <3>1. Written' => Written
      BY <1>1, <2>2 DEF Written
    <3> QED
      BY <1>1, <1>6, <2>2, <3>1 DEF WrittenInv
  <2> QED
    BY <2>1, <2>2
<1>8. AskedInv'
  <2>1. ASSUME NEW i \in Followed, asked[i] # <<>>
        PROVE  Legal(i, asked[i]) /\ Held(i, asked[i], At(i, Now'))
    <3>1. Legal(i, asked[i]) /\ Held(i, asked[i], At(i, Now))
      BY <2>1 DEF AskedInv
    <3>2. CASE ~IsWrite(todo[1])
      BY <1>3, <3>1, <3>2 DEF Now
    <3>3. CASE IsWrite(todo[1])
      <4>1. i \notin Settings(todo[1])
        BY <1>2, <2>1, <3>3 DEF AskedInv
      <4>2. At(i, Now') = At(i, Now)
        BY <1>3, <3>3, <4>1, AtSpared
      <4> QED
        BY <3>1, <4>2
    <3> QED
      BY <3>2, <3>3
  <2> QED
    BY <1>1, <2>1 DEF AskedInv
<1>9. SteadyInv'
  <2>1. Len(history') <= Len(history) + 1
    BY <1>3 DEF Grows
  <2> QED
    BY <1>1, <1>3, <1>8, <2>1, SteadyGrows
<1>10. ToggleInv'
  <2>1. CASE Written' => Written
    BY <1>1, <1>3, <2>1, ToggleGrows
  <2>2. CASE Written' /\ ~Written /\ task = "toggle_set"
    <3>1. /\ TargetOf(task, param) = Setting("Output", <<param[1]>>) /\ task \in Writers
          /\ "Output" \in Followed
      BY <2>2, OutputSetting, TaskKinds
    <3>2. Held("Output", <<param[1]>>, At("Output", Now'))
      BY <1>5, <3>1 DEF Setting
    <3>3. Now'[OutputRegister] = param[1]
      BY <3>2, OutputSetting
    <3>4. Now' = history'[Len(history')] /\ Len(history') \in 1..Len(history')
      BY <1>3 DEF Now, Grows
    <3>5. \E t \in 1..Len(history') : history'[t][OutputRegister] = param[1]
      BY <3>3, <3>4
    <3>6. /\ param \in {<<w, b>> : w \in {0, 1}, b \in {0, 1}}
          /\ IF param[2] = 1
             THEN \E t \in 1..Len(history) : history[t][OutputRegister] = 1 - param[1]
             ELSE param[1] = 1
      BY <2>2 DEF ToggleInv
    <3>7. param[2] = 1 => \E t \in 1..Len(history') : history'[t][OutputRegister] = 1 - param[1]
      BY <1>3, <3>6 DEF Grows
    <3> QED
      BY <1>1, <3>5, <3>6, <3>7 DEF ToggleInv
  <2>3. task \in {"toggle_set", "toggle_status"} /\ Written' /\ ~Written => task = "toggle_set"
    BY <1>1 DEF Written
  <2> QED
    BY <1>1, <2>1, <2>2, <2>3 DEF ToggleInv
<1> QED
  BY <1>3, <1>4, <1>7, <1>8, <1>9, <1>10

LEMMA TailOf ==
  ASSUME NEW S, NEW s \in Seq(S), s # <<>>
  PROVE  /\ Tail(s) \in Seq(S) /\ Len(s) \in Nat /\ Len(s) >= 1
         /\ Len(Tail(s)) = Len(s) - 1
         /\ \A k \in 1..Len(Tail(s)) : k + 1 \in 1..Len(s) /\ Tail(s)[k] = s[k + 1]
         /\ 1 \in 1..Len(s) /\ Head(s) = s[1]
         /\ Len(s) = 1 => Tail(s) = <<>>
  OBVIOUS

\* What is left when an access is over, or all of them are.
LEMMA TodoShrinks ==
  ASSUME TodoInv, AccessesInv, todo # <<>>, todo' \in {Tail(todo), <<>>},
         UNCHANGED <<task, param>>
  PROVE  /\ TodoInv'
         /\ \A k \in 1..Len(todo') : WellFormed(todo'[k])
         /\ task \in Writers => todo' = <<>>
         /\ \A k \in 1..Len(todo') : \E j \in 1..Len(todo) : todo'[k] = todo[j]
<1>1. /\ task \in Tasks /\ task # "none" /\ param \in Seq(Int)
      /\ todo \in Seq([first : Nat, count : Nat, values : Seq(Int)])
  BY DEF TodoInv
<1>2. CASE todo' = <<>>
  <2>1. Len(todo') = 0 /\ todo' \in Seq([first : Nat, count : Nat, values : Seq(Int)])
    BY <1>2
  <2>2. task \notin Writers => PlanOf(task) \in Seq(Reads)
    BY <1>1, PlansRead
  <2>3. task \notin Writers => Len(PlanOf(task)) >= 0 /\ Len(PlanOf(task)) \in Nat
    BY <2>2
  <2> QED
    BY <1>1, <1>2, <2>1, <2>3 DEF TodoInv
<1>3. CASE todo' = Tail(todo)
  <2>1. /\ todo' \in Seq([first : Nat, count : Nat, values : Seq(Int)])
        /\ Len(todo) \in Nat /\ Len(todo) >= 1 /\ Len(todo') = Len(todo) - 1
        /\ \A k \in 1..Len(todo') : k + 1 \in 1..Len(todo) /\ todo'[k] = todo[k + 1]
        /\ Len(todo) = 1 => todo' = <<>>
    BY <1>1, <1>3, TailOf
  <2>2. task \in Writers => todo' = <<>>
    <3>1. task \in Writers => todo = <<todo[1]>>
      BY DEF TodoInv
    <3>2. task \in Writers => Len(todo) = 1
      BY <3>1
    <3> QED
      BY <2>1, <3>2
  <2>3. ASSUME task \notin Writers
        PROVE  /\ Len(todo') <= Len(PlanOf(task))
               /\ \A k \in 1..Len(todo') :
                    todo'[k] = PlanOf(task)[Len(PlanOf(task)) - Len(todo') + k]
    <3>1. PlanOf(task) \in Seq(Reads)
      BY <1>1, <2>3, PlansRead
    <3> DEFINE n == Len(PlanOf(task))
    <3>2. n \in Nat
      BY <3>1
    <3>3. /\ Len(todo) <= n
          /\ \A k \in 1..Len(todo) : todo[k] = PlanOf(task)[n - Len(todo) + k]
      BY <1>1, <2>3 DEF TodoInv
    <3> HIDE DEF n
    <3>4. ASSUME NEW k \in 1..Len(todo')
          PROVE  todo'[k] = PlanOf(task)[n - Len(todo') + k]
      <4>1. k + 1 \in 1..Len(todo) /\ todo'[k] = todo[k + 1]
        BY <2>1
      <4>2. todo[k + 1] = PlanOf(task)[n - Len(todo) + (k + 1)]
        BY <3>3, <4>1
      <4>3. n - Len(todo) + (k + 1) = n - Len(todo') + k
        BY <2>1, <3>2
      <4> QED
        BY <4>1, <4>2, <4>3
    <3>5. Len(todo') <= n
      BY <2>1, <3>2, <3>3
    <3> QED
      BY <3>4, <3>5 DEF n
  <2>4. \A k \in 1..Len(todo') : WellFormed(todo'[k])
    BY <2>1 DEF AccessesInv
  <2>5. TodoInv'
    BY <1>1, <2>1, <2>2, <2>3 DEF TodoInv
  <2> QED
    BY <2>1, <2>2, <2>4, <2>5
<1> QED
  BY <1>2, <1>3

\* An answered read shows what was read at its moment; what earlier reads of
\* the plan have shown stays.
LEMMA AnsweredSees ==
  ASSUME HistoryInv, TodoInv, SeenInv, Answered, at \in 1..Len(history),
         task \in Careful, failed = FALSE,
         NEW j \in 1..(Len(PlanOf(task)) - Len(todo) + 1), Len(todo) \in 1..Len(PlanOf(task))
  PROVE  Seen(PlanOf(task)[j])'
<1> DEFINE n == Len(PlanOf(task))
           l == Len(todo)
           old == DOMAIN got
<1>1. task \in Tasks \ Writers /\ task # "none"
  BY TaskKinds
<1>2. PlanOf(task) \in Seq(Reads) /\ n \in Nat /\ l \in Nat
  <2>1. PlanOf(task) \in Seq(Reads)
    BY <1>1, PlansRead
  <2>2. n \in Nat
    BY <2>1
  <2> QED
    BY <2>1, <2>2
<1>3. n - l + 1 \in 1..n /\ 1 \in 1..l /\ j \in 1..n
  BY <1>2
<1>4. todo[1] = PlanOf(task)[n - l + 1]
  BY <1>1, <1>3 DEF TodoInv
<1>5. /\ Head(todo) = todo[1] /\ task' = task /\ history' = history
      /\ ~IsWrite(todo[1])
  <2>1. todo \in Seq([first : Nat, count : Nat, values : Seq(Int)]) /\ todo # <<>>
    BY <1>3 DEF TodoInv
  <2>2. task \notin Writers
    BY <1>1
  <2>3. ~IsWrite(todo[1])
    BY <1>3, <2>2, PlanReads
  <2>4. task' = task /\ history' = history
    BY DEF Answered
  <2> QED
    BY <2>1, <2>3, <2>4, TailOf
<1>6. got' = [r \in old \cup Touched(todo[1]) |->
                IF r \in Touched(todo[1]) THEN history[at][r] ELSE got[r]]
  BY <1>5 DEF Answered
<1> HIDE DEF n, l
<1>7. CASE j = n - l + 1
  <2>1. \A r \in Touched(todo[1]) : r \in DOMAIN got' /\ got'[r] = history'[at][r]
    BY <1>5, <1>6
  <2>2. PlanOf(task)[j] = todo[1]
    BY <1>4, <1>7
  <2> QED
    BY <1>5, <2>1, <2>2 DEF Seen
<1>8. CASE j # n - l + 1
  <2>1. j \in 1..(n - l)
    BY <1>2, <1>8 DEF n, l
  <2>2. Seen(PlanOf(task)[j])
    BY <2>1 DEF SeenInv, n, l
  <2>3. PICK t \in 1..Len(history) :
          \A r \in Touched(PlanOf(task)[j]) : r \in DOMAIN got /\ got[r] = history[t][r]
    BY <2>2 DEF Seen
  <2>4. Touched(PlanOf(task)[j]) \cap Touched(PlanOf(task)[n - l + 1]) = {}
    BY <1>3, <1>8, PlansApart DEF n
  <2>5. \A r \in Touched(PlanOf(task)[j]) : r \in DOMAIN got' /\ got'[r] = history[t][r]
    BY <1>4, <1>6, <2>3, <2>4
  <2> QED
    BY <1>5, <2>5 DEF Seen
<1> QED
  BY <1>7, <1>8

LEMMA AnsweredKeeps ==
  ASSUME IInv, Answered
  PROVE  IInv'
<1> USE DEF IInv
<1>1. /\ at # 0 /\ todo # <<>> /\ todo' = Tail(todo) /\ at' = 0
      /\ UNCHANGED <<history, late, task, param, failed, reply, asked, touched>>
  BY DEF Answered, HistoryInv
<1>2. /\ task # "none" /\ task \in Tasks /\ failed = FALSE /\ at \in 1..Len(history)
      /\ Now' = Now
  BY <1>1 DEF TodoInv, HistoryInv, Now
<1>3. /\ TodoInv'
      /\ \A k \in 1..Len(todo') : WellFormed(todo'[k])
      /\ task \in Writers => todo' = <<>>
      /\ \A k \in 1..Len(todo') : \E j \in 1..Len(todo) : todo'[k] = todo[j]
  BY <1>1, TodoShrinks
<1>4. HistoryInv'
  BY <1>1, <1>2 DEF HistoryInv
<1>5. AccessesInv'
  BY <1>1, <1>3 DEF AccessesInv
<1>6. Written' => Written
  BY <1>1 DEF Written
<1>7. WrittenInv'
  BY <1>1, <1>2, <1>6 DEF WrittenInv
<1>8. AskedInv'
  <2>1. ASSUME NEW k \in 1..Len(todo'), IsWrite(todo'[k])
        PROVE  \A i \in Settings(todo'[k]) : asked[i] = <<>>
    BY <1>3, <2>1 DEF AskedInv
  <2> QED
    BY <1>1, <1>2, <2>1 DEF AskedInv
<1>9. SteadyInv' /\ ReplyInv'
  BY <1>1 DEF SteadyInv, ReplyInv
<1>10. SeenInv'
  <2> SUFFICES ASSUME task \in Careful, NEW j \in 1..(Len(PlanOf(task)) - Len(todo'))
               PROVE  Seen(PlanOf(task)[j])'
    BY <1>1 DEF SeenInv
  <2>1. task \in Tasks \ Writers
    BY TaskKinds
  <2>2. Len(todo) <= Len(PlanOf(task))
    BY <2>1 DEF TodoInv
  <2>3. /\ Len(todo) \in Nat /\ Len(todo) >= 1 /\ Len(todo') = Len(todo) - 1
    BY <1>1, TailOf DEF TodoInv
  <2>4. Len(PlanOf(task)) \in Nat
    BY <1>2, <2>1, TaskKinds, PlansRead
  <2>5. /\ Len(todo) \in 1..Len(PlanOf(task))
        /\ j \in 1..(Len(PlanOf(task)) - Len(todo) + 1)
    BY <2>2, <2>3, <2>4
  <2> QED
    BY <1>2, <2>5, AnsweredSees
<1>11. ToggleInv'
  <2>1. Grows
    BY <1>1 DEF Grows, HistoryInv
  <2> QED
    BY <1>1, <1>6, <2>1, ToggleGrows
<1> QED
  BY <1>3, <1>4, <1>5, <1>7, <1>8, <1>9, <1>10, <1>11

LEMMA GiveUpKeeps ==
  ASSUME IInv, GiveUp
  PROVE  IInv'
<1> USE DEF IInv
<1>1. /\ todo # <<>> /\ at' = 0 /\ todo' \in {Tail(todo), <<>>}
      /\ UNCHANGED <<history, task, param, got, reply, asked, touched>>
  BY DEF GiveUp
<1>1a. (failed' = TRUE /\ todo' = <<>>) \/ (failed' = FALSE /\ GoesOn)
  <2>1. CASE GoesOn
    BY <2>1, Zenon DEF GiveUp
  <2>2. CASE ~GoesOn
    BY <2>2, Zenon DEF GiveUp
  <2> QED
    BY <2>1, <2>2
<1>2. task # "none" /\ task \in Tasks /\ Now' = Now /\ 1 \in 1..Len(todo)
  BY <1>1, TailOf DEF TodoInv, Now
<1>3. late' = late \/ (late' = <<todo[1]>> /\ IsWrite(todo[1]))
  <2>1. Head(todo) = todo[1]
    BY <1>1, TailOf DEF TodoInv
  <2> QED
    BY <2>1 DEF GiveUp
<1>4. /\ TodoInv'
      /\ \A k \in 1..Len(todo') : WellFormed(todo'[k])
      /\ \A k \in 1..Len(todo') : \E j \in 1..Len(todo) : todo'[k] = todo[j]
  BY <1>1, TodoShrinks
<1>5. failed' = TRUE \/ (failed' = FALSE /\ task \notin Writers /\ task \notin Careful)
  <2>1. GoesOn => task \notin Writers /\ task \notin Careful
    BY TaskKinds DEF GoesOn
  <2> QED
    BY <1>1a, <2>1
<1>6. HistoryInv'
  <2>1. failed' \in BOOLEAN /\ (failed' = TRUE => todo' = <<>>)
    BY <1>1a
  <2>2. at' \in 0..Len(history')
    BY <1>1 DEF HistoryInv
  <2> QED
    BY <1>1, <1>2, <2>1, <2>2 DEF HistoryInv
<1>7. AccessesInv'
  BY <1>2, <1>3, <1>4 DEF AccessesInv
<1>8. ~Written'
  BY <1>1, <1>5, TaskKinds DEF Written
<1>9. AskedInv'
  <2>1. ASSUME NEW k \in 1..Len(todo'), IsWrite(todo'[k])
        PROVE  \A i \in Settings(todo'[k]) : asked[i] = <<>>
    BY <1>4, <2>1 DEF AskedInv
  <2>2. ASSUME NEW k \in 1..Len(late')
        PROVE  \A i \in Settings(late'[k]) : asked[i] = <<>>
    BY <1>2, <1>3 DEF AskedInv
  <2> QED
    BY <1>1, <1>2, <2>1, <2>2 DEF AskedInv
<1>10. SteadyInv' /\ ReplyInv' /\ WrittenInv' /\ SeenInv'
  BY <1>1, <1>5, <1>8, TaskKinds DEF SteadyInv, ReplyInv, WrittenInv, SeenInv
<1>11. ToggleInv'
  BY <1>1, <1>8 DEF ToggleInv
<1> QED
  BY <1>4, <1>6, <1>7, <1>9, <1>10, <1>11

LEMMA BecomesNow ==
  ASSUME HistoryInv, NEW regs, Regular(regs), Becomes(regs)
  PROVE  Now' = regs
<1>1. CASE task = "none"
  <2>1. history' = <<regs>>
    BY <1>1 DEF Becomes
  <2>2. Len(history') = 1 /\ history'[1] = regs
    BY <2>1
  <2> QED
    BY <2>2 DEF Now
<1>2. CASE task # "none"
  BY <1>2, HistoryGrows DEF Becomes, Now
<1> QED
  BY <1>1, <1>2

\* The registers become something regular, other than by the access of the
\* handler; what is acknowledged is not touched.
LEMMA BecomesKeeps ==
  ASSUME IInv, NEW regs, Regular(regs), Becomes(regs),
         UNCHANGED <<task, param, todo, at, got, failed>>,
         AccessesInv', AskedInv',
         \A i \in Followed : asked'[i] # <<>> => asked'[i] = asked[i]
  PROVE  /\ HistoryInv' /\ TodoInv' /\ SteadyInv' /\ SeenInv' /\ ToggleInv' /\ ReplyInv'
         /\ Now' = regs
<1> USE DEF IInv
<1>1. CASE task = "none"
  <2>1. history' = <<regs>> /\ todo = <<>> /\ at = 0
    BY <1>1 DEF Becomes, TodoInv, HistoryInv
  <2>2. /\ history' \in Seq([Registers -> Word]) /\ Len(history') = 1 /\ history'[1] = regs
    BY <2>1 DEF Regular
  <2>3. \A t \in 1..Len(history') : \A r \in Registers \cap FlagRegisters : history'[t][r] \in {0, 1}
    BY <2>2 DEF Regular
  <2>4. HistoryInv'
    <3>1. at' = 0 /\ at' \in 0..Len(history') /\ Len(history') >= 1
      BY <2>1, <2>2
    <3> QED
      BY <2>2, <2>3, <3>1 DEF HistoryInv
  <2> QED
    BY <1>1, <2>2, <2>4, TaskKinds DEF TodoInv, SteadyInv, SeenInv, ToggleInv, ReplyInv, Now
<1>2. CASE task # "none"
  <2>1. history' = Append(history, regs) /\ reply' = reply
    BY <1>2 DEF Becomes
  <2>2. /\ history' \in Seq([Registers -> Word])
        /\ Len(history') = Len(history) + 1 /\ Len(history) \in Nat
        /\ \A t \in 1..Len(history) : history'[t] = history[t]
        /\ history'[Len(history')] = regs
        /\ \A t \in 1..Len(history') : Regular(history'[t])
    BY <2>1, HistoryGrows
  <2>3. Grows /\ Len(history') <= Len(history) + 1 /\ Now' = regs
    BY <2>2 DEF Grows, Now
  <2>4. HistoryInv'
    <3>1. at' \in 0..Len(history') /\ Len(history') >= 1
      BY <2>2 DEF HistoryInv
    <3> QED
      BY <2>2, <3>1 DEF HistoryInv, Regular
  <2>5. SteadyInv'
    BY <2>3, SteadyGrows
  <2>6. ToggleInv'
    <3>1. Written' => Written
      BY DEF Written
    <3> QED
      BY <2>3, <3>1, ToggleGrows
  <2>7. SeenInv'
    BY <2>3, SeenInvGrows
  <2> QED
    BY <2>1, <2>3, <2>4, <2>5, <2>6, <2>7 DEF TodoInv, ReplyInv
<1> QED
  BY <1>1, <1>2

LEMMA PerformLateKeeps ==
  ASSUME IInv, PerformLate
  PROVE  IInv'
<1>1. HistoryInv /\ AccessesInv /\ WrittenInv /\ AskedInv
  BY DEF IInv
<1>2. /\ late # <<>> /\ late' = <<>>
      /\ UNCHANGED <<task, param, todo, at, got, failed, asked, touched>>
  BY DEF PerformLate
<1>3. late = <<late[1]>> /\ WellFormed(late[1]) /\ IsWrite(late[1])
  BY <1>1, <1>2 DEF AccessesInv
<1>4. Len(late) = 1 /\ Head(late) = late[1] /\ Len(late') = 0
  <2> DEFINE l == late[1]
  <2>1. late = <<l>>
    BY <1>3
  <2> HIDE DEF l
  <2>2. Len(late) = 1 /\ Head(late) = l
    BY <2>1
  <2> QED
    BY <1>2, <2>2 DEF l
<1>5. Becomes(Stored(late[1], Now))
  BY <1>4 DEF PerformLate
<1>6. Regular(Stored(late[1], Now))
  BY <1>1, <1>3, RegularNow, StoredRegular
<1>7. Now' = Stored(late[1], Now)
  BY <1>1, <1>5, <1>6, BecomesNow
<1>8. AccessesInv'
  BY <1>1, <1>2 DEF AccessesInv
<1>9. AskedInv'
  <2>1. ASSUME NEW i \in Followed, asked[i] # <<>>
        PROVE  Legal(i, asked[i]) /\ Held(i, asked[i], At(i, Now'))
    <3>1. i \notin Settings(late[1])
      BY <1>1, <1>4, <2>1 DEF AskedInv
    <3>2. At(i, Now') = At(i, Now)
      BY <1>7, <3>1, AtSpared
    <3> QED
      BY <1>1, <2>1, <3>2 DEF AskedInv
  <2>2. \A k \in 1..Len(late') : \A i \in Settings(late'[k]) : asked'[i] = <<>>
    BY <1>4
  <2> QED
    BY <1>1, <1>2, <2>1, <2>2 DEF AskedInv
<1>10. WrittenInv'
  BY <1>1, <1>2 DEF WrittenInv, Written
<1>11. HistoryInv' /\ TodoInv' /\ SteadyInv' /\ SeenInv' /\ ToggleInv' /\ ReplyInv'
  BY <1>2, <1>5, <1>6, <1>8, <1>9, BecomesKeeps
<1> QED
  BY <1>8, <1>9, <1>10, <1>11 DEF IInv

LEMMA MoveKeeps ==
  ASSUME IInv, NEW i \in Moving, Move(i)
  PROVE  IInv'
<1> DEFINE moved == Moved(i, Now)
           hit == {j \in Followed : Regs(i) \cap Regs(j) # {}}
<1>1. HistoryInv /\ AccessesInv /\ WrittenInv /\ AskedInv
  BY DEF IInv
<1>2. /\ Becomes(moved) /\ task # "none"
      /\ asked' = [j \in Followed |-> IF j \in hit THEN <<>> ELSE asked[j]]
      /\ touched' = touched \cup hit
      /\ UNCHANGED <<late, task, param, todo, at, got, failed>>
  BY DEF Move, Moved, Touch
<1>3. Regular(moved)
  <2>1. Regular(Now)
    BY <1>1, RegularNow
  <2> QED
    BY <2>1, MovedRegular
<1>4. \A j \in Followed \ hit : At(j, moved) = At(j, Now)
  <2> SUFFICES ASSUME NEW j \in Followed, j \notin hit
               PROVE  At(j, moved) = At(j, Now)
    BY Zenon
  <2>1. \A r \in Regs(j) : r \in Registers /\ r \notin Regs(i)
    BY FollowedRegisters
  <2>2. \A r \in Regs(j) : moved[r] = Now[r]
    BY <2>1 DEF Moved
  <2> HIDE DEF moved, hit
  <2> QED
    BY <2>2, AtKept
<1> HIDE DEF moved, hit
<1>5. Now' = moved
  BY <1>1, <1>2, <1>3, BecomesNow
<1>6. AccessesInv'
  BY <1>1, <1>2 DEF AccessesInv
<1>7. \A j \in Followed : asked'[j] # <<>> => asked'[j] = asked[j] /\ j \notin hit
  BY <1>2
<1>8. AskedInv'
  <2>1. ASSUME NEW j \in Followed, asked'[j] # <<>>
        PROVE  Legal(j, asked'[j]) /\ Held(j, asked'[j], At(j, Now'))
    BY <1>1, <1>4, <1>5, <1>7, <2>1 DEF AskedInv
  <2>2. \A a : \A j \in Settings(a) : asked[j] = <<>> => asked'[j] = <<>>
    BY <1>2 DEF Settings
  <2> QED
    BY <1>1, <1>2, <2>1, <2>2 DEF AskedInv
<1>9. WrittenInv'
  <2>1. Written' => Written
    BY <1>2 DEF Written
  <2>2. \A j \in Followed : j \notin touched' => At(j, Now') = At(j, Now) /\ j \notin touched
    BY <1>2, <1>4, <1>5
  <2> QED
    BY <1>1, <1>2, <2>1, <2>2 DEF WrittenInv
<1>10. HistoryInv' /\ TodoInv' /\ SteadyInv' /\ SeenInv' /\ ToggleInv' /\ ReplyInv'
  BY <1>2, <1>3, <1>6, <1>7, <1>8, BecomesKeeps
<1> QED
  BY <1>6, <1>8, <1>9, <1>10 DEF IInv

\* A handler's accesses as it begins: one write that carries what the handler
\* is to set, or the plan of a reader.
Planned(name, p, accesses) ==
  /\ name \in Tasks \ {"none", "toggle_status"}
  /\ p \in Seq(Int)
  /\ IF name \in Writers THEN \E w : accesses = <<w>> /\ Carries(w, TargetOf(name, p))
                         ELSE accesses = PlanOf(name)

LEMMA PlannedFits ==
  ASSUME NEW name, NEW p, NEW accesses, Planned(name, p, accesses)
  PROVE  /\ accesses \in Seq([first : Nat, count : Nat, values : Seq(Int)])
         /\ \A k \in 1..Len(accesses) : WellFormed(accesses[k])
         /\ name \in Writers => /\ accesses = <<accesses[1]>> /\ accesses # <<>>
                                /\ Carries(accesses[1], TargetOf(name, p))
         /\ name \notin Writers => accesses = PlanOf(name) /\ Len(accesses) \in Nat
<1>1. CASE name \in Writers
  <2>1. PICK w : accesses = <<w>> /\ Carries(w, TargetOf(name, p))
    BY <1>1 DEF Planned
  <2>2. accesses[1] = w /\ Len(accesses) = 1 /\ accesses # <<>>
    BY <2>1
  <2>3. WellFormed(w)
    BY <2>1 DEF Carries
  <2>4. w \in [first : Nat, count : Nat, values : Seq(Int)]
    <3>1. w = [first |-> w.first, count |-> w.count, values |-> w.values]
      BY <2>3, Zenon DEF WellFormed
    <3>2. w.values \in Seq(Word)
      BY <2>3, Zenon DEF WellFormed
    <3>6. w.first \in 0..256 /\ w.count \in 1..20
      BY <2>3, Zenon DEF WellFormed
    <3> DEFINE f == w.first
               c == w.count
               v == w.values
    <3>3. f \in Nat /\ c \in Nat
      BY <3>6
    <3>4. v \in Seq(Int)
      BY <3>2, RegistersAssumption DEF Word
    <3>5. w = [first |-> f, count |-> c, values |-> v]
      BY <3>1
    <3> HIDE DEF f, c, v
    <3> QED
      BY <3>3, <3>4, <3>5
  <2>5. accesses \in Seq([first : Nat, count : Nat, values : Seq(Int)])
    <3> DEFINE S == [first : Nat, count : Nat, values : Seq(Int)]
    <3>1. w \in S
      BY <2>4
    <3> HIDE DEF S
    <3>2. accesses \in Seq(S)
      BY <2>1, <3>1
    <3> QED
      BY <3>2 DEF S
  <2> QED
    BY <1>1, <2>1, <2>2, <2>3, <2>5
<1>2. CASE name \notin Writers
  <2>1. accesses = PlanOf(name) /\ accesses \in Seq(Reads)
    BY <1>2, PlansRead DEF Planned
  <2>2. Reads \subseteq [first : Nat, count : Nat, values : Seq(Int)]
    <3> DEFINE V == Seq(Int)
    <3>1. <<>> \in V /\ 0..256 \subseteq Nat /\ 1..20 \subseteq Nat
      OBVIOUS
    <3> HIDE DEF V
    <3>2. ASSUME NEW a \in Reads
          PROVE  a \in [first : Nat, count : Nat, values : V]
      <4>1. a = [first |-> a.first, count |-> a.count, values |-> a.values]
        BY DEF Reads
      <4>2. a.first \in Nat /\ a.count \in Nat /\ a.values \in V
        BY <3>1 DEF Reads
      <4> QED
        BY <4>1, <4>2
    <3> QED
      BY <3>2 DEF V
  <2>3. accesses \in Seq([first : Nat, count : Nat, values : Seq(Int)])
    <3> DEFINE S == [first : Nat, count : Nat, values : Seq(Int)]
               R == Reads
    <3>1. R \subseteq S /\ accesses \in Seq(R)
      BY <2>1, <2>2
    <3> HIDE DEF S, R
    <3>2. accesses \in Seq(S)
      BY <3>1
    <3> QED
      BY <3>2 DEF S
  <2>4. \A k \in 1..Len(accesses) : accesses[k] \in Reads
    BY <2>1
  <2>5. Len(accesses) \in Nat
    BY <2>1
  <2> QED
    BY <1>2, <2>1, <2>3, <2>4, <2>5, ReadsAre
<1> QED
  BY <1>1, <1>2

\* What is to be written is not acknowledged any more, the rest is.
LEMMA BeginTouches ==
  ASSUME NEW name, NEW p, NEW accesses, Begin(name, p, accesses)
  PROVE  /\ \A i \in Followed : asked'[i] # <<>> => asked'[i] = asked[i]
         /\ \A k \in DOMAIN accesses : IsWrite(accesses[k]) =>
              \A i \in Settings(accesses[k]) : asked'[i] = <<>>
         /\ \A a : \A i \in Settings(a) : asked[i] = <<>> => asked'[i] = <<>>
<1> DEFINE S == UNION {Settings(accesses[k]) : k \in {j \in DOMAIN accesses : IsWrite(accesses[j])}}
<1>1. asked' = [i \in Followed |-> IF i \in S THEN <<>> ELSE asked[i]]
  BY DEF Begin, Touch
<1>2. \A k \in DOMAIN accesses : IsWrite(accesses[k]) => Settings(accesses[k]) \subseteq S
  OBVIOUS
<1>3. \A a : Settings(a) \subseteq Followed
  BY DEF Settings
<1> HIDE DEF S
<1> QED
  BY <1>1, <1>2, <1>3

LEMMA BeginKeeps ==
  ASSUME IInv, NEW name, NEW p, NEW accesses, Planned(name, p, accesses),
         Begin(name, p, accesses), late' = late, at = 0, at' = 0, Now' = Now
  PROVE  AccessesInv' /\ TodoInv' /\ WrittenInv' /\ AskedInv' /\ SeenInv' /\ ~Written'
<1> USE DEF IInv
<1>1. /\ task' = name /\ param' = p /\ todo' = accesses /\ failed' = FALSE
      /\ name \in Tasks /\ p \in Seq(Int) /\ name \notin {"none", "toggle_status"}
  BY DEF Begin, Planned
<1>2. /\ accesses \in Seq([first : Nat, count : Nat, values : Seq(Int)])
      /\ \A k \in 1..Len(accesses) : WellFormed(accesses[k])
      /\ name \in Writers => /\ accesses = <<accesses[1]>> /\ accesses # <<>>
                             /\ Carries(accesses[1], TargetOf(name, p))
      /\ name \notin Writers => accesses = PlanOf(name) /\ Len(accesses) \in Nat
  BY PlannedFits
<1>3. AccessesInv'
  BY <1>1, <1>2 DEF AccessesInv
<1>4. TodoInv'
  <2>1. ASSUME name \notin Writers
        PROVE  /\ Len(accesses) <= Len(PlanOf(name))
               /\ \A k \in 1..Len(accesses) :
                    accesses[k] = PlanOf(name)[Len(PlanOf(name)) - Len(accesses) + k]
    <3> DEFINE n == Len(accesses)
    <3>1. PlanOf(name) = accesses /\ n \in Nat
      BY <1>2, <2>1
    <3>2. Len(PlanOf(name)) = n
      BY <3>1
    <3> HIDE DEF n
    <3>3. \A k \in 1..n : n - n + k = k
      BY <3>1
    <3>4. n <= n
      BY <3>1
    <3>5. n <= Len(PlanOf(name))
          /\ \A k \in 1..n : accesses[k] = PlanOf(name)[Len(PlanOf(name)) - n + k]
      BY <3>1, <3>2, <3>3, <3>4, Zenon
    <3> QED
      BY <3>5 DEF n
  <2> QED
    BY <1>1, <1>2, <2>1 DEF TodoInv
<1>5. ~Written'
  BY <1>1, <1>2 DEF Written
<1>6. AskedInv'
  <2>1. \A k \in 1..Len(todo') : IsWrite(todo'[k]) =>
          \A i \in Settings(todo'[k]) : asked'[i] = <<>>
    <3>1. DOMAIN accesses = 1..Len(accesses)
      BY <1>2
    <3> QED
      BY <1>1, <3>1, BeginTouches
  <2>2. \A k \in 1..Len(late') : \A i \in Settings(late'[k]) : asked'[i] = <<>>
    BY BeginTouches DEF AskedInv
  <2>3. \A i \in Followed : asked'[i] # <<>> =>
          Legal(i, asked'[i]) /\ Held(i, asked'[i], At(i, Now'))
    BY BeginTouches DEF AskedInv
  <2> QED
    BY <2>1, <2>2, <2>3 DEF AskedInv
<1>7. SeenInv'
  <2>1. name \in Careful => 1..(Len(PlanOf(name)) - Len(accesses)) = {}
    BY <1>2, TaskKinds
  <2> QED
    BY <1>1, <2>1 DEF SeenInv
<1> QED
  BY <1>3, <1>4, <1>5, <1>6, <1>7 DEF WrittenInv

LEMMA StartsKeeps ==
  ASSUME IInv, Starts
  PROVE  IInv'
<1>1. PICK name, p, accesses : Handler(name, p, accesses) /\ Start(name, p, accesses)
  BY DEF Starts
<1>2. /\ task = "none" /\ Begin(name, p, accesses) /\ history' = <<Now>>
      /\ late' = late /\ at' = at /\ reply' = NoReply
  BY <1>1 DEF Start, Idle
<1>3. /\ Planned(name, p, accesses) /\ name \notin {"toggle_set", "toggle_status"}
  BY <1>1 DEF Handler, Planned
<1>4. HistoryInv /\ at = 0 /\ at' = 0
  BY <1>2 DEF IInv, TodoInv, HistoryInv
<1>5. Regular(Now)
  BY <1>4, RegularNow
<1>6. /\ history' \in Seq([Registers -> Word]) /\ Len(history') = 1 /\ history'[1] = Now
      /\ Now' = Now
  <2> DEFINE r == Now
  <2>1. history' = <<r>> /\ r \in [Registers -> Word]
    BY <1>2, <1>5 DEF Regular
  <2> HIDE DEF r
  <2>2. /\ history' \in Seq([Registers -> Word]) /\ Len(history') = 1 /\ history'[1] = r
    BY <2>1
  <2> QED
    BY <2>2 DEF r, Now
<1>7. /\ AccessesInv' /\ TodoInv' /\ WrittenInv' /\ AskedInv' /\ SeenInv'
  BY <1>2, <1>3, <1>4, <1>6, BeginKeeps
<1>8. HistoryInv'
  <2>1. failed' = FALSE
    BY <1>2 DEF Begin
  <2>2. \A t \in 1..Len(history') : \A r \in Registers \cap FlagRegisters : history'[t][r] \in {0, 1}
    BY <1>5, <1>6 DEF Regular
  <2>3. at' \in 0..Len(history') /\ Len(history') >= 1
    BY <1>4, <1>6
  <2> QED
    BY <1>4, <1>6, <2>1, <2>2, <2>3 DEF HistoryInv
<1>9. SteadyInv'
  BY <1>6, <1>7 DEF SteadyInv, AskedInv
<1>10. ToggleInv' /\ ReplyInv'
  BY <1>2, <1>3 DEF ToggleInv, ReplyInv, Begin
<1> QED
  BY <1>7, <1>8, <1>9, <1>10 DEF IInv

\* The toggle writes the state that it has not read, or that it takes the
\* output not to have.
LEMMA ToggleWriteKeeps ==
  ASSUME IInv, ToggleWrite
  PROVE  IInv'
<1> USE DEF IInv
<1> DEFINE on == failed = FALSE /\ got[OutputRegister] # 0
           w  == IF on THEN 0 ELSE 1
           b  == IF failed = TRUE THEN 0 ELSE 1
<1>1. /\ task = "toggle_out" /\ todo = <<>> /\ failed \in BOOLEAN /\ at = 0
  BY DEF ToggleWrite, Finished, HistoryInv
<1>2. /\ Begin("toggle_set", <<w, b>>, <<Write("Output", <<w>>)>>)
      /\ UNCHANGED <<history, late, at, reply>>
  <2>1. CASE failed = TRUE
    BY <2>1, Zenon DEF ToggleWrite, Continue
  <2>2. CASE failed = FALSE
    BY <2>2, Zenon DEF ToggleWrite, Continue
  <2> QED
    BY <1>1, <2>1, <2>2
<1>3. w \in {0, 1} /\ b \in {0, 1}
  OBVIOUS
<1>4. failed = FALSE => \E t \in 1..Len(history) : history[t][OutputRegister] = 1 - w
  <2> SUFFICES ASSUME failed = FALSE
               PROVE  \E t \in 1..Len(history) : history[t][OutputRegister] = 1 - w
    OBVIOUS
  <2>1. PlanOf(task) = <<ReadItem("Output")>> /\ task \in Careful
    BY <1>1, PlanCases, TaskKinds
  <2>2. Seen(ReadItem("Output"))
    <3> DEFINE a == ReadItem("Output")
    <3>1. PlanOf(task) = <<a>>
      BY <2>1
    <3> HIDE DEF a
    <3>2. Len(PlanOf(task)) = 1 /\ PlanOf(task)[1] = a /\ Len(todo) = 0
      BY <1>1, <3>1
    <3>3. 1 \in 1..(Len(PlanOf(task)) - Len(todo))
      BY <3>2
    <3> QED
      BY <2>1, <3>2, <3>3 DEF SeenInv, a
  <2>3. OutputRegister \in Touched(ReadItem("Output"))
    BY OutputSetting, LayoutOfSettings DEF Touched, ReadItem, Read
  <2>4. PICK t \in 1..Len(history) : got[OutputRegister] = history[t][OutputRegister]
    BY <2>2, <2>3 DEF Seen
  <2>5. history[t][OutputRegister] \in {0, 1}
    BY OutputSetting DEF HistoryInv
  <2>6. history[t][OutputRegister] = 1 - w
    BY <2>4, <2>5
  <2> QED
    BY <2>6
<1>5. failed = TRUE => w = 1 /\ b = 0
  OBVIOUS
<1>6. failed = FALSE => b = 1
  OBVIOUS
<1> HIDE DEF w, b, on
<1>7. Planned("toggle_set", <<w, b>>, <<Write("Output", <<w>>)>>)
  <2>1. TargetOf("toggle_set", <<w, b>>) = Setting("Output", <<w>>)
    BY OutputSetting
  <2>2. <<w>> \in Encode("flag", <<w>>)
    BY <1>3 DEF Encode
  <2>3. Legal("Output", <<w>>)
    BY <1>3 DEF Legal
  <2>4. Carries(Write("Output", <<w>>), Setting("Output", <<w>>))
    BY <1>3, <2>2, <2>3, NumberCarries
  <2>5. <<w, b>> \in Seq(Int)
    BY <1>3
  <2> QED
    BY <2>1, <2>4, <2>5, TaskKinds DEF Planned
<1>8. Now' = Now
  BY <1>2 DEF Now
<1>9. /\ AccessesInv' /\ TodoInv' /\ WrittenInv' /\ AskedInv' /\ SeenInv' /\ ~Written'
  BY <1>1, <1>2, <1>7, <1>8, BeginKeeps
<1>10. HistoryInv'
  <2>1. failed' = FALSE
    BY <1>2 DEF Begin
  <2> QED
    BY <1>1, <1>2, <2>1 DEF HistoryInv
<1>11. SteadyInv'
  BY <1>1, <1>2, BeginTouches DEF SteadyInv
<1>12. ToggleInv'
  <2>1. task' = "toggle_set" /\ param' = <<w, b>>
    BY <1>2 DEF Begin
  <2>2. /\ param' \in {<<x, y>> : x \in {0, 1}, y \in {0, 1}}
        /\ param'[1] = w /\ param'[2] = b
    BY <1>3, <2>1
  <2>3. IF param'[2] = 1
        THEN \E t \in 1..Len(history') : history'[t][OutputRegister] = 1 - param'[1]
        ELSE param'[1] = 1
    BY <1>1, <1>2, <1>4, <1>5, <1>6, <2>2
  <2> QED
    BY <1>9, <2>2, <2>3 DEF ToggleInv
<1>13. ReplyInv'
  BY <1>1, <1>2 DEF ReplyInv
<1> QED
  BY <1>9, <1>10, <1>11, <1>12, <1>13

\* The toggle goes on to read the page it answers with.
LEMMA ToggleShowsKeeps ==
  ASSUME IInv, ToggleShows
  PROVE  IInv'
<1> USE DEF IInv
<1>1. /\ task = "toggle_set" /\ todo = <<>> /\ failed = FALSE /\ at = 0
      /\ task' = "toggle_status" /\ todo' = PlanOf("toggle_status")
      /\ UNCHANGED <<history, late, param, at, got, failed, reply, asked, touched>>
      /\ Now' = Now
  BY PlanCases DEF ToggleShows, Finished, HistoryInv, Now
<1>2. /\ todo' \in Seq([first : Nat, count : Nat, values : Seq(Int)])
      /\ \A k \in 1..Len(todo') : WellFormed(todo'[k]) /\ ~IsWrite(todo'[k])
      /\ Len(todo') \in Nat /\ todo' \in Seq(Reads)
  <2>1. PlanOf("status") = PlanOf("toggle_status")
    BY PlanCases
  <2>2. Planned("status", <<>>, PlanOf("status"))
    BY PlainReaders DEF Planned
  <2>3. "status" \notin Writers /\ "toggle_status" \in Tasks \ (Writers \cup {"none"})
    BY PlainReaders
  <2>4. PlanOf("toggle_status") \in Seq(Reads)
    BY <2>3, PlansRead
  <2>5. \A k \in 1..Len(todo') : todo'[k] \in Reads
    BY <1>1, <2>4
  <2> QED
    BY <1>1, <2>1, <2>2, <2>3, <2>4, <2>5, PlannedFits, ReadsAre
<1>3. HistoryInv' /\ AccessesInv'
  BY <1>1, <1>2 DEF HistoryInv, AccessesInv
<1>4. TodoInv'
  <2>1. /\ Len(todo') <= Len(PlanOf(task'))
        /\ \A k \in 1..Len(todo') :
             todo'[k] = PlanOf(task')[Len(PlanOf(task')) - Len(todo') + k]
    BY <1>1, <1>2
  <2> QED
    BY <1>1, <1>2, <2>1, TaskKinds DEF TodoInv
<1>5. Written
  BY <1>1, TaskKinds DEF Written
<1>6. WrittenInv'
  <2>1. TargetOf(task', param') = TargetOf(task, param)
    BY <1>1, OutputSetting
  <2> QED
    BY <1>1, <1>5, <2>1 DEF WrittenInv
<1>7. AskedInv'
  BY <1>1, <1>2 DEF AskedInv
<1>8. SteadyInv' /\ ReplyInv'
  BY <1>1 DEF SteadyInv, ReplyInv
<1>9. SeenInv'
  BY <1>1, <1>2 DEF SeenInv
<1>10. ToggleInv'
  BY <1>1, <1>5 DEF ToggleInv
<1> QED
  BY <1>3, <1>4, <1>6, <1>7, <1>8, <1>9, <1>10

\* Handlers that end well have made the settings they were asked for.
LEMMA EndsAsked ==
  ASSUME IInv, Ends
  PROVE  \A i \in Followed :
           \/ asked'[i] = asked[i]
           \/ /\ Written
              /\ i \in DOMAIN TargetOf(task, param) /\ i \notin touched
              /\ asked'[i] = TargetOf(task, param)[i]
<1>1. PICK ok \in BOOLEAN : \E answer, set :
    /\ Finished
    /\ End(ok, answer, set)
    /\ ok = TRUE => /\ failed = FALSE
                    /\ task \notin {"toggle_out", "toggle_set"}
                    /\ set = TargetOf(task, param)
  BY Zenon DEF Ends
<1>2. PICK answer, set :
    /\ Finished
    /\ End(ok, answer, set)
    /\ ok = TRUE => /\ failed = FALSE
                    /\ task \notin {"toggle_out", "toggle_set"}
                    /\ set = TargetOf(task, param)
  BY <1>1
<1>3. task # "none" /\ todo = <<>> /\ task \in Tasks
  BY <1>2 DEF Finished, IInv, TodoInv
<1>4. asked' = [i \in Followed |-> IF ok /\ i \in DOMAIN set \ touched THEN set[i]
                                                                    ELSE asked[i]]
  BY <1>2 DEF End
<1>5. CASE ok = FALSE
  BY <1>4, <1>5
<1>6. CASE ok = TRUE
  <2>1. \A i \in Followed : asked'[i] = asked[i] \/ (i \in DOMAIN set /\ i \notin touched /\ asked'[i] = set[i])
    BY <1>4
  <2>2. set = TargetOf(task, param) /\ failed = FALSE
    BY <1>2, <1>6
  <2>3. CASE task \in Writers \/ task = "toggle_status"
    <3>1. Written
      BY <1>3, <2>2, <2>3 DEF Written
    <3> QED
      BY <2>1, <2>2, <3>1
  <2>4. CASE task \notin Writers /\ task # "toggle_status"
    <3>1. DOMAIN TargetOf(task, param) = {}
      BY <1>3, <2>4, TaskNames DEF NoSetting
    <3> QED
      BY <2>1, <2>2, <3>1
  <2> QED
    BY <2>3, <2>4
<1> QED
  BY <1>5, <1>6

LEMMA EndsKeeps ==
  ASSUME IInv, Ends
  PROVE  IInv'
<1> USE DEF IInv
<1>1. /\ todo = <<>> /\ at = 0 /\ task' = "none" /\ param' = <<>> /\ failed' = FALSE
      /\ UNCHANGED <<history, late, todo, at, touched>>
      /\ Now' = Now
  BY DEF Ends, End, Finished, HistoryInv, Now
<1>2. HistoryInv' /\ AccessesInv'
  BY <1>1 DEF HistoryInv, AccessesInv
<1>3. TodoInv'
  <2>1. todo' \in Seq([first : Nat, count : Nat, values : Seq(Int)]) /\ param' \in Seq(Int)
    BY <1>1
  <2>2. Len(todo') = 0 /\ PlanOf("none") = <<>>
    BY <1>1, QueryNames DEF PlanOf
  <2> QED
    BY <1>1, <2>1, <2>2, TaskKinds DEF TodoInv
<1>4. ~Written'
  BY <1>1, TaskKinds DEF Written
<1>5. WrittenInv' /\ SteadyInv' /\ SeenInv' /\ ToggleInv' /\ ReplyInv'
  BY <1>1, <1>4, TaskKinds DEF WrittenInv, SteadyInv, SeenInv, ToggleInv, ReplyInv
<1>6. AskedInv'
  <2>1. \A i \in Followed :
           \/ asked'[i] = asked[i]
           \/ /\ late = <<>>
              /\ Legal(i, asked'[i]) /\ Held(i, asked'[i], At(i, Now))
    BY EndsAsked DEF WrittenInv
  <2>2. \A i \in Followed : asked'[i] # <<>> =>
          Legal(i, asked'[i]) /\ Held(i, asked'[i], At(i, Now'))
    BY <1>1, <2>1 DEF AskedInv
  <2>3. \A k \in 1..Len(late') : \A i \in Settings(late'[k]) : asked'[i] = <<>>
    BY <1>1, <2>1 DEF AskedInv, Settings
  <2>4. \A k \in 1..Len(todo') : IsWrite(todo'[k]) => \A i \in Settings(todo'[k]) : asked'[i] = <<>>
    BY <1>1
  <2> QED
    BY <2>2, <2>3, <2>4 DEF AskedInv
<1> QED
  BY <1>2, <1>3, <1>5, <1>6

LEMMA UnchangedKeeps ==
  ASSUME IInv, UNCHANGED <<history, late, task, param, todo, at, got, failed, asked, touched>>,
         reply' \in {reply, NoReply}
  PROVE  IInv'
<1>1. HistoryInv' /\ AccessesInv' /\ TodoInv'
  BY DEF IInv, HistoryInv, AccessesInv, TodoInv
<1>2. Now' = Now
  BY DEF Now
<1>3. Written' <=> Written
  BY DEF Written
<1>4. WrittenInv'
  BY <1>2, <1>3 DEF IInv, WrittenInv
<1>5. AskedInv' /\ SteadyInv'
  BY <1>2 DEF IInv, AskedInv, SteadyInv
<1>6. SeenInv'
  <2>1. Grows
    BY DEF Grows, IInv, HistoryInv
  <2> QED
    BY <2>1, SeenInvGrows DEF IInv
<1>7. ToggleInv' /\ ReplyInv'
  BY <1>3 DEF IInv, ToggleInv, ReplyInv
<1> QED
  BY <1>1, <1>4, <1>5, <1>6, <1>7 DEF IInv

LEMMA NextIInv ==
  ASSUME IInv, [Next]_vars
  PROVE  IInv'
<1>1. failed \in BOOLEAN
  BY DEF IInv, HistoryInv
<1>2. CASE Reject
  BY <1>2, UnchangedKeeps DEF Reject
<1>3. CASE UNCHANGED callVars
  BY <1>3, UnchangedKeeps DEF callVars
<1> QED
  BY <1>1, <1>2, <1>3, StepCases, StartsKeeps, EndsKeeps, ToggleWriteKeeps, ToggleShowsKeeps,
     PerformKeeps, AnsweredKeeps, GiveUpKeeps, PerformLateKeeps, MoveKeeps

LEMMA IInvHolds == Spec => []IInv
<1>1. Init => IInv
  BY InitIInv
<1>2. IInv /\ [Next]_vars => IInv'
  BY NextIInv
<1> QED
  BY <1>1, <1>2, PTL DEF Spec

-----------------------------------------------------------------------------
(* What clients and pages may rely on                                      *)

\* The invariant implies the property: a setting that was acknowledged is in
\* the power supply until somebody sets it anew, whichever calls fail, are
\* repeated or are carried out late.
THEOREM AcknowledgedStays == Spec => []AcknowledgedHolds
<1>1. IInv => AcknowledgedHolds
  BY DEF IInv, AskedInv, AcknowledgedHolds, At
<1> QED
  BY <1>1, IInvHolds, PTL

\* Only the end of a handler makes a reply; the registers and settings it is
\* about do not change while it stands.
LEMMA RepliesStand ==
  ASSUME IInv, [Next]_vars
  PROVE  \/ Ends
         \/ reply' = NoReply
         \/ UNCHANGED callVars
<1>1. failed \in BOOLEAN /\ (task # "none" => reply = NoReply) /\ (task = "none" => todo = <<>>)
      /\ (at # 0 => todo # <<>>)
  BY DEF IInv, HistoryInv, ReplyInv, TodoInv
<1>2. CASE Starts \/ Reject
  BY <1>2 DEF Starts, Start, Reject
<1>3. CASE ToggleWrite \/ ToggleShows
  BY <1>1, <1>3 DEF ToggleWrite, Continue, ToggleShows, Finished
<1>4. CASE Perform \/ Answered \/ GiveUp
  BY <1>1, <1>4 DEF Perform, Answered, GiveUp
<1>5. CASE PerformLate
  BY <1>1, <1>5 DEF PerformLate, Becomes
<1>6. ASSUME NEW i \in Moving, Move(i)
      PROVE  reply' = NoReply
  BY <1>1, <1>6 DEF Move, Becomes
<1> QED
  BY <1>1, <1>2, <1>3, <1>4, <1>5, <1>6, StepCases

\* A handler that answers well has answered what it read.
LEMMA EndsReply ==
  ASSUME IInv, Ends, reply'.ok = TRUE
  PROVE  /\ reply'.task = task /\ reply'.param = param /\ reply'.shown = got
         /\ failed = FALSE /\ todo = <<>> /\ task # "none" /\ task \in Tasks
         /\ history' = history
         /\ task \in DOMAIN Queries =>
              reply'.answer = Answer(task, Decode(Queries[task].kind,
                                                  Values(Queries[task].item)))
<1>1. PICK ok \in BOOLEAN : \E answer, set :
        /\ Finished
        /\ End(ok, answer, set)
        /\ ok = TRUE => /\ failed = FALSE
                        /\ task \in DOMAIN Queries =>
                             answer = Answer(task, Decode(Queries[task].kind,
                                                          Values(Queries[task].item)))
  BY Zenon DEF Ends
<1>2. PICK answer, set :
        /\ Finished
        /\ End(ok, answer, set)
        /\ ok = TRUE => /\ failed = FALSE
                        /\ task \in DOMAIN Queries =>
                             answer = Answer(task, Decode(Queries[task].kind,
                                                          Values(Queries[task].item)))
  BY <1>1
<1>3. reply' = [task |-> task, ok |-> ok, shown |-> IF ok THEN got ELSE <<>>,
                answer |-> answer, param |-> param]
  BY <1>2 DEF End
<1>4. ok = TRUE
  BY <1>3
<1>5. task \in Tasks /\ history' = history /\ task # "none" /\ todo = <<>>
  BY <1>2 DEF End, Finished, IInv, TodoInv
<1> QED
  BY <1>2, <1>3, <1>4, <1>5

\* The reads of a careful handler that has ended well.
LEMMA AllSeen ==
  ASSUME IInv, task \in Careful, failed = FALSE, todo = <<>>
  PROVE  \A j \in 1..Len(PlanOf(task)) : Seen(PlanOf(task)[j])
<1>1. Len(todo) = 0
  OBVIOUS
<1>2. Len(PlanOf(task)) \in Nat
  BY TaskKinds, PlansRead
<1>3. Len(PlanOf(task)) - Len(todo) = Len(PlanOf(task))
  BY <1>1, <1>2
<1> QED
  BY <1>3 DEF IInv, SeenInv

\* A property of the reply that holds of every reply a handler ends with.
LEMMA ShownTogetherKept ==
  ASSUME IInv, [Next]_vars, ShownTogether
  PROVE  ShownTogether'
<1>1. CASE reply' = NoReply
  BY <1>1 DEF ShownTogether, NoReply
<1>2. CASE UNCHANGED callVars
  BY <1>2 DEF callVars, ShownTogether
<1>3. CASE Ends
  <2> SUFFICES ASSUME reply'.ok = TRUE, NEW G \in ShownItems(reply'.task)
               PROVE  \E t \in DOMAIN history' :
                        \A r \in (UNION {Regs(i) : i \in G}) \cap Registers :
                          r \in DOMAIN reply'.shown /\ reply'.shown[r] = history'[t][r]
    BY DEF ShownTogether
  <2>1. /\ reply'.task = task /\ reply'.shown = got /\ failed = FALSE /\ todo = <<>>
        /\ task \in Tasks /\ history' = history
    BY <1>3, EndsReply
  <2>2. PICK j \in 1..Len(PlanOf(task)) :
          /\ task \in Careful
          /\ (UNION {Regs(i) : i \in G}) \cap Registers \subseteq Touched(PlanOf(task)[j])
    BY <2>1, PlansShow
  <2>3. Seen(PlanOf(task)[j])
    BY <2>1, <2>2, AllSeen
  <2>4. PICK t \in 1..Len(history) :
          \A r \in Touched(PlanOf(task)[j]) : r \in DOMAIN got /\ got[r] = history[t][r]
    BY <2>3 DEF Seen
  <2>5. t \in DOMAIN history
    BY DEF IInv, HistoryInv
  <2> QED
    BY <2>1, <2>2, <2>4, <2>5
<1> QED
  BY <1>1, <1>2, <1>3, RepliesStand

\* The invariant and one step more: every page and every answer shows
\* registers as they were together at one moment of its request.
THEOREM PagesShowOneMoment == Spec => []ShownTogether
<1>1. Init => ShownTogether
  BY DEF Init, CallsInit, ShownTogether, NoReply
<1>2. IInv /\ [Next]_vars /\ ShownTogether => ShownTogether'
  BY ShownTogetherKept
<1> QED
  BY <1>1, <1>2, IInvHolds, PTL DEF Spec

LEMMA ToggleFlipsKept ==
  ASSUME IInv, [Next]_vars, ToggleFlips
  PROVE  ToggleFlips'
<1>1. CASE reply' = NoReply
  BY <1>1 DEF ToggleFlips, NoReply
<1>2. CASE UNCHANGED callVars
  BY <1>2 DEF callVars, ToggleFlips
<1>3. CASE Ends
  <2> SUFFICES ASSUME reply'.ok = TRUE, reply'.task = "toggle_status"
               PROVE  LET states == {history'[t][OutputRegister] : t \in DOMAIN history'}
                      IN  IF reply'.param[2] = 1 THEN {0, 1} \subseteq states ELSE 1 \in states
    BY DEF ToggleFlips
  <2> DEFINE states == {history[t][OutputRegister] : t \in DOMAIN history}
  <2>1. /\ task = "toggle_status" /\ reply'.param = param /\ failed = FALSE
        /\ history' = history
    BY <1>3, EndsReply
  <2>2. DOMAIN history = 1..Len(history)
    BY DEF IInv, HistoryInv
  <2>3. Written
    BY <2>1 DEF Written
  <2>4. /\ param \in {<<w, b>> : w \in {0, 1}, b \in {0, 1}}
        /\ IF param[2] = 1
           THEN \E t \in 1..Len(history) : history[t][OutputRegister] = 1 - param[1]
           ELSE param[1] = 1
        /\ \E t \in 1..Len(history) : history[t][OutputRegister] = param[1]
    BY <2>1, <2>3 DEF IInv, ToggleInv
  <2>5. param[1] \in {0, 1} /\ param[2] \in {0, 1}
    BY <2>4
  <2>6. /\ param[1] \in states
        /\ param[2] = 1 => 1 - param[1] \in states
        /\ param[2] # 1 => param[1] = 1
    BY <2>2, <2>4
  <2> HIDE DEF states
  <2>7. IF param[2] = 1 THEN {0, 1} \subseteq states ELSE 1 \in states
    BY <2>5, <2>6
  <2> QED
    BY <2>1, <2>7 DEF states
<1> QED
  BY <1>1, <1>2, <1>3, RepliesStand

\* The invariant and one step more: the output has been both on and off when a
\* toggle is answered, whoever else switches it.
THEOREM TogglesFlip == Spec => []ToggleFlips
<1>1. Init => ToggleFlips
  BY DEF Init, CallsInit, ToggleFlips, NoReply
<1>2. IInv /\ [Next]_vars /\ ToggleFlips => ToggleFlips'
  BY ToggleFlipsKept
<1> QED
  BY <1>1, <1>2, IInvHolds, PTL DEF Spec

-----------------------------------------------------------------------------
(* What is set is read back                                                *)

\* What a query has read is in its values.
LEMMA ValuesSeen ==
  ASSUME NEW item \in DOMAIN Layout, NEW regs,
         \A r \in Touched(ReadItem(item)) : r \in DOMAIN got /\ got[r] = regs[r],
         NEW k \in 1..Layout[item][2], Layout[item][1] + k - 1 \in Registers
  PROVE  Values(item)[k] = regs[Layout[item][1] + k - 1]
<1> DEFINE r == Layout[item][1] + k - 1
<1>1. Layout[item][1] \in 0..256 /\ Layout[item][2] \in 1..8
  BY ItemsFit
<1>2. ReadItem(item).first = Layout[item][1] /\ ReadItem(item).count = Layout[item][2]
  BY DEF ReadItem, Read
<1>3. r >= Layout[item][1] /\ r < Layout[item][1] + Layout[item][2]
  <2> DEFINE l == Layout[item][1]
             n == Layout[item][2]
  <2>1. l \in Nat /\ n \in Nat /\ k \in 1..n /\ r = l + k - 1
    BY <1>1
  <2> HIDE DEF l, n, r
  <2>2. r >= l /\ r < l + n
    BY <2>1
  <2> QED
    BY <2>2 DEF l, n
<1>4. r \in Touched(ReadItem(item))
  BY <1>2, <1>3 DEF Touched
<1>5. Values(item)[k] = IF r \in DOMAIN got THEN got[r] ELSE 0
  BY DEF Values
<1> HIDE DEF r
<1>6. Values(item)[k] = regs[r]
  BY <1>4, <1>5
<1> QED
  BY <1>6 DEF r

\* A setting is answered by the query of its name, from its own registers or
\* from those of the clock.
LEMMA SettingQueried ==
  ASSUME NEW c \in DOMAIN Queries, SettingOf(c) \in Followed
  PROVE  \/ c = "SystemDateQ" /\ SettingOf(c) = "Date"
         \/ c = "SystemTimeQ" /\ SettingOf(c) = "Time"
         \/ c = "DisplayBrightnessQ" /\ SettingOf(c) = "Brightness"
         \/ c = "DisplayLanguageQ" /\ SettingOf(c) = "Language"
         \/ c = "SystemBeeperStateQ" /\ SettingOf(c) = "Buzzer"
         \/ c = "OutputStateQ" /\ SettingOf(c) = "Output"
         \/ c = "SourceVoltageQ" /\ SettingOf(c) = "VoltageSet"
         \/ c = "SourceCurrentQ" /\ SettingOf(c) = "CurrentSet"
<1>1. SettingOf(c) \in Settable
  BY DEF Followed
<1>2. c \in {"SystemDateQ", "SystemTimeQ"} \/ SettingOf(c) = Queries[c].item
  BY DEF SettingOf
<1>3. CASE c = "SystemDateQ"
  BY <1>3 DEF SettingOf
<1>4. CASE c = "SystemTimeQ"
  BY <1>4 DEF SettingOf
<1>5. CASE c \in {"DisplayBrightnessQ", "DisplayLanguageQ", "SystemBeeperStateQ", "OutputStateQ",
                  "SourceVoltageQ", "SourceCurrentQ"}
  BY <1>2, <1>5, QueryTable
<1>6. CASE c \in {"OutputModeQ", "SourceVoltageProtectionTrippedQ",
                  "SourceCurrentProtectionTrippedQ", "MeasureVoltageQ", "MeasureCurrentQ",
                  "MeasurePowerQ", "MeasureTemperatureQ_SYSTEM", "MeasureTemperatureQ_PROBE"}
  <2>1. Queries[c].item \in {"OutputMode", "Protection", "VoltageOut", "CurrentOut", "PowerOut",
                             "SystemTemperatureCelsius", "ProbeTemperatureCelsius"}
    BY <1>6, QueryTable
  <2>2. Queries[c].item \notin Settable
    BY <2>1 DEF Settable
  <2> QED
    BY <1>1, <1>2, <1>6, <2>2
<1> QED
  BY <1>3, <1>4, <1>5, <1>6, QueryNames

\* Numbers come back as they were sent.
LEMMA NumberAgrees ==
  ASSUME NEW i \in {"Brightness", "Language", "Buzzer", "Output"},
         NEW p, Legal(i, p), NEW v, Held(i, p, v), v = [k \in 1..1 |-> v[k]],
         NEW kind \in {"flag", "byte", "word"}, kind = "flag" => i \in {"Buzzer", "Output"}
  PROVE  AnswerAgrees(i, p, Decode(kind, v))
<1>1. PICK n \in 0..5 : p = <<n>> /\ (kind = "flag" => n \in {0, 1})
  BY DEF Legal
<1>2. v[1] = n
  <2>1. v[1] = p[1]
    BY DEF Held
  <2> QED
    BY <1>1, <2>1
<1>3. v = <<n>>
  BY <1>2
<1>4. n % BYTE = n
  BY RegistersAssumption
<1>5. Decode(kind, v) = <<n>>
  <2>1. CASE kind = "flag"
    BY <1>1, <1>2, <2>1 DEF Decode
  <2>2. CASE kind = "byte"
    BY <1>2, <1>4, <2>2 DEF Decode
  <2>3. CASE kind = "word"
    BY <1>3, <2>3 DEF Decode
  <2> QED
    BY <2>1, <2>2, <2>3
<1> QED
  BY <1>1, <1>5 DEF AnswerAgrees

\* A level comes back as it is held.
LEMMA LevelAgrees ==
  ASSUME NEW i \in {"VoltageSet", "CurrentSet"}, NEW p, NEW v, v[1] \in Word, Held(i, p, v)
  PROVE  AnswerAgrees(i, p, Decode(IF i = "VoltageSet" THEN "volts" ELSE "amps", v))
<1> DEFINE multi == IF i = "VoltageSet" THEN ModelOf(PSU_ID).v ELSE ModelOf(PSU_ID).i
           a == Decode(IF i = "VoltageSet" THEN "volts" ELSE "amps", v)
<1>1. LevelHeld(p[1], v[1], multi)
  BY DEF Held
<1>2. PICK S \in {1, 10, 100} : Step(multi) = S
  BY Models, Steps
<1>3. a = <<v[1] * Step(multi)>>
  BY DEF Decode
<1>4. a[1] = v[1] * S
  BY <1>2, <1>3
<1>5. v[1] \in Int
  BY RegistersAssumption DEF Word
<1>6. \A x \in Int : (x * S) \div S = x
  <2>1. \A x \in Int : (x * 1) \div 1 = x /\ (x * 10) \div 10 = x /\ (x * 100) \div 100 = x
    OBVIOUS
  <2> QED
    BY <2>1
<1>7. a[1] \div Step(multi) = v[1]
  BY <1>2, <1>4, <1>5, <1>6
<1> HIDE DEF multi, a
<1>8. LevelHeld(p[1], a[1] \div Step(multi), multi)
  BY <1>1, <1>7
<1> QED
  BY <1>8 DEF multi, a, AnswerAgrees

\* Year and month come back as they were set, whatever tm counts from.
Years == 1900..9999

LEMMA DayAgrees ==
  ASSUME NEW y \in Years, NEW m \in 1..12, NEW d \in 1..31, NEW v,
         v[1] = y % WORD, v[2] = m % WORD, v[3] = d % WORD
  PROVE  AnswerAgrees("Date", <<y, m, d>>, Answer("SystemDateQ", Decode("clock", v)))
<1>1. v[1] = y /\ v[2] = m /\ v[3] = d
  BY RegistersAssumption DEF Years
<1>2. Answer("SystemDateQ", Decode("clock", v)) = <<v[1] - 1900 + 1900, v[2] - 1 + 1, v[3]>>
  BY DEF Decode, Answer, ValuesToTm
<1>3. y - 1900 + 1900 = y /\ m - 1 + 1 = m
  BY DEF Years
<1>4. Answer("SystemDateQ", Decode("clock", v)) = <<y, m, d>>
  BY <1>1, <1>2, <1>3
<1> QED
  BY <1>4 DEF AnswerAgrees

LEMMA DateAgrees ==
  ASSUME NEW p, Legal("Date", p), NEW v,
         v[1] = p[1] % WORD, v[2] = p[2] % WORD, v[3] = p[3] % WORD
  PROVE  AnswerAgrees("Date", p, Answer("SystemDateQ", Decode("clock", v)))
<1> DEFINE y == p[1]
           m == p[2]
           d == p[3]
           A == <<2024, 2, 29>>
           B == <<2025, 3, 12>>
<1>1. p = A \/ p = B
  BY DEF Legal
<1>2. /\ y \in Years /\ m \in 1..12 /\ d \in 1..31
      /\ p = <<y, m, d>>
  <2>1. CASE p = A
    <3>1. y = 2024 /\ m = 2 /\ d = 29
      BY <2>1
    <3> HIDE DEF y, m, d
    <3> QED
      BY <2>1, <3>1 DEF Years
  <2>2. CASE p = B
    <3>1. y = 2025 /\ m = 3 /\ d = 12
      BY <2>2
    <3> HIDE DEF y, m, d
    <3> QED
      BY <2>2, <3>1 DEF Years
  <2> HIDE DEF y, m, d, A, B
  <2> QED
    BY <1>1, <2>1, <2>2, Zenon
<1>3. v[1] = y % WORD /\ v[2] = m % WORD /\ v[3] = d % WORD
  OBVIOUS
<1> HIDE DEF y, m, d, A, B
<1>4. AnswerAgrees("Date", <<y, m, d>>, Answer("SystemDateQ", Decode("clock", v)))
  BY <1>2, <1>3, DayAgrees, Zenon
<1> QED
  BY <1>2, <1>4, Zenon

LEMMA TimeAgrees ==
  ASSUME NEW p, NEW v, \A k \in 1..3 : v[k + 3] = p[k] % BYTE
  PROVE  AnswerAgrees("Time", p, Answer("SystemTimeQ", Decode("clock", v)))
<1> DEFINE a == Answer("SystemTimeQ", Decode("clock", v))
<1>1. a = <<v[4], v[5], v[6]>>
  BY DEF Decode, Answer, ValuesToTm
<1>2. v[4] = p[1] % BYTE /\ v[5] = p[2] % BYTE /\ v[6] = p[3] % BYTE
  BY 1 \in 1..3, 2 \in 1..3, 3 \in 1..3, 1 + 3 = 4, 2 + 3 = 5, 3 + 3 = 6
<1>3. \A k \in 1..3 : a[k] = p[k] % BYTE
  BY <1>1, <1>2
<1> HIDE DEF a
<1> QED
  BY <1>3 DEF AnswerAgrees, a

\* What a query answers, when its reads showed the setting as it is held.
LEMMA QueryAgrees ==
  ASSUME NEW c \in DOMAIN Queries, SettingOf(c) \in Followed, NEW p, Legal(SettingOf(c), p),
         NEW regs, Regular(regs), Held(SettingOf(c), p, At(SettingOf(c), regs)),
         \A r \in Touched(ReadItem(Queries[c].item)) : r \in DOMAIN got /\ got[r] = regs[r]
  PROVE  AnswerAgrees(SettingOf(c), p,
                      Answer(c, Decode(Queries[c].kind, Values(Queries[c].item))))
<1> DEFINE i == SettingOf(c)
           item == Queries[c].item
<1>1. item \in DOMAIN Layout
  BY QueryItems
<1>2. /\ Layout[i][1] \in Nat /\ Layout[i][2] \in 1..3
      /\ \A k \in 1..Layout[i][2] : Layout[i][1] + k - 1 \in Registers
  BY FollowedRegisters
<1>3. \A k \in 1..Layout[item][2] : Layout[item][1] + k - 1 \in Registers =>
        Values(item)[k] = regs[Layout[item][1] + k - 1]
  BY <1>1, ValuesSeen
<1>4. Values(item) = [k \in 1..Layout[item][2] |-> Values(item)[k]]
  BY DEF Values
<1>5. CASE c = "SystemDateQ"
  <2>1. i = "Date" /\ item = "Clock" /\ Queries[c].kind = "clock"
    BY <1>5, QueryTable DEF SettingOf
  <2>2. \A k \in 1..3 : 48 + k - 1 \in Registers /\ Values("Clock")[k] = regs[48 + k - 1]
    BY <1>2, <1>3, <2>1, LayoutOfSettings
  <2>3. \A k \in 1..3 : At("Date", regs)[k] = regs[48 + k - 1]
    BY LayoutOfSettings DEF At
  <2>4. \A k \in 1..3 : At("Date", regs)[k] = p[k] % WORD
    BY <2>1 DEF Held
  <2>5. \A k \in 1..3 : Values("Clock")[k] = p[k] % WORD
    BY <2>2, <2>3, <2>4
  <2>6. LET v == Values("Clock")
        IN  v[1] = p[1] % WORD /\ v[2] = p[2] % WORD /\ v[3] = p[3] % WORD
    BY <2>5
  <2> QED
    BY <1>5, <2>1, <2>6, DateAgrees
<1>6. CASE c = "SystemTimeQ"
  <2>1. i = "Time" /\ item = "Clock" /\ Queries[c].kind = "clock"
    BY <1>6, QueryTable DEF SettingOf
  <2>2. \A k \in 1..3 : 51 + k - 1 \in Registers
    BY <1>2, <2>1, LayoutOfSettings
  <2>3. \A k \in 1..3 : Values("Clock")[k + 3] = regs[51 + k - 1]
    <3> SUFFICES ASSUME NEW k \in 1..3
                 PROVE  Values("Clock")[k + 3] = regs[51 + k - 1]
      OBVIOUS
    <3>1. k + 3 \in 1..6 /\ 48 + (k + 3) - 1 = 51 + k - 1
      OBVIOUS
    <3>2. 48 + (k + 3) - 1 \in Registers
      BY <2>2, <3>1
    <3> QED
      BY <1>3, <2>1, <3>1, <3>2, LayoutOfSettings
  <2>4. \A k \in 1..3 : At("Time", regs)[k] = regs[51 + k - 1]
    BY LayoutOfSettings DEF At
  <2>5. \A k \in 1..3 : At("Time", regs)[k] = p[k] % BYTE
    BY <2>1 DEF Held
  <2>6. \A k \in 1..3 : Values("Clock")[k + 3] = p[k] % BYTE
    BY <2>3, <2>4, <2>5
  <2> QED
    BY <1>6, <2>1, <2>6, TimeAgrees
<1>7. CASE c \notin {"SystemDateQ", "SystemTimeQ"}
  <2>1. /\ i = item /\ i \notin {"Date", "Time"}
        /\ \A v : Answer(c, v) = v \/ c \in {"SourceVoltageProtectionTrippedQ",
                                             "SourceCurrentProtectionTrippedQ"}
    BY <1>7, SettingQueried DEF SettingOf, Answer
  <2>2. Layout[i][2] = 1
    BY <2>1, FollowedRegisters, SettableLayout
  <2>3. /\ Values(item)[1] = regs[Layout[i][1]] /\ Layout[i][1] \in Registers
        /\ At(i, regs)[1] = regs[Layout[i][1]]
    <3>1. 1 \in 1..Layout[i][2] /\ Layout[i][1] + 1 - 1 = Layout[i][1]
      BY <1>2, <2>2
    <3> QED
      BY <1>2, <1>3, <2>1, <3>1 DEF At
  <2>4. Values(item) = [k \in 1..1 |-> Values(item)[k]] /\ At(i, regs) = [k \in 1..1 |-> At(i, regs)[k]]
    BY <1>4, <2>1, <2>2 DEF At
  <2>5. Values(item) = At(i, regs) /\ Values(item)[1] \in Word
    BY <2>3, <2>4 DEF Regular
  <2>6. Held(i, p, Values(item)) /\ Legal(i, p)
    BY <2>5
  <2>7. CASE c \in {"DisplayBrightnessQ", "DisplayLanguageQ", "SystemBeeperStateQ",
                    "OutputStateQ"}
    <3>1. /\ i \in {"Brightness", "Language", "Buzzer", "Output"}
          /\ Queries[c].kind \in {"flag", "byte", "word"}
          /\ Queries[c].kind = "flag" => i \in {"Buzzer", "Output"}
      BY <2>1, <2>7, QueryTable
    <3>2. Answer(c, Decode(Queries[c].kind, Values(item)))
            = Decode(Queries[c].kind, Values(item))
      BY <2>1, <2>7
    <3> HIDE DEF i, item
    <3>3. AnswerAgrees(i, p, Decode(Queries[c].kind, Values(item)))
      BY <2>4, <2>6, <3>1, NumberAgrees
    <3> QED
      BY <3>2, <3>3 DEF i, item
  <2>8. CASE c \in {"SourceVoltageQ", "SourceCurrentQ"}
    <3>1. /\ i \in {"VoltageSet", "CurrentSet"}
          /\ Queries[c].kind = IF i = "VoltageSet" THEN "volts" ELSE "amps"
      BY <2>1, <2>8, QueryTable
    <3>2. Answer(c, Decode(Queries[c].kind, Values(item)))
            = Decode(Queries[c].kind, Values(item))
      BY <2>1, <2>8
    <3> HIDE DEF i, item
    <3>3. AnswerAgrees(i, p, Decode(Queries[c].kind, Values(item)))
      BY <2>5, <2>6, <3>1, LevelAgrees
    <3> QED
      BY <3>2, <3>3 DEF i, item
  <2> QED
    BY <1>7, <2>7, <2>8, SettingQueried
<1> QED
  BY <1>5, <1>6, <1>7

LEMMA SettingsReadBackKept ==
  ASSUME IInv, [Next]_vars, SettingsReadBack
  PROVE  SettingsReadBack'
<1>1. CASE reply' = NoReply
  BY <1>1 DEF SettingsReadBack, NoReply
<1>2. CASE UNCHANGED callVars
  BY <1>2 DEF callVars, SettingsReadBack
<1>3. CASE Ends
  <2> SUFFICES ASSUME reply'.ok = TRUE, reply'.task \in DOMAIN Queries,
                      SettingOf(reply'.task) \in Followed, asked'[SettingOf(reply'.task)] # <<>>
               PROVE  AnswerAgrees(SettingOf(reply'.task), asked'[SettingOf(reply'.task)],
                                   reply'.answer)
    BY DEF SettingsReadBack
  <2>1. /\ reply'.task = task /\ failed = FALSE /\ todo = <<>> /\ task # "none"
        /\ task \in Tasks /\ task \in DOMAIN Queries
        /\ reply'.answer = Answer(task, Decode(Queries[task].kind, Values(Queries[task].item)))
    BY <1>3, EndsReply
  <2>2. task \in Tasks \ (Writers \cup {"none", "toggle_status"}) /\ task \in Careful
    BY <2>1, TaskNames DEF Careful
  <2> DEFINE i == SettingOf(task)
  <2>3. asked'[i] = asked[i] /\ i \in Followed
    <3>1. DOMAIN TargetOf(task, param) = {}
      BY <2>2, TaskNames DEF NoSetting
    <3> QED
      BY <1>3, <2>1, <3>1, EndsAsked
  <2>4. PICK t \in 1..Len(history) :
          \A r \in Touched(ReadItem(Queries[task].item)) :
            r \in DOMAIN got /\ got[r] = history[t][r]
    <3> DEFINE a == ReadItem(Queries[task].item)
    <3>1. PlanOf(task) = <<a>>
      BY <2>1, PlanCases
    <3> HIDE DEF a
    <3>2. 1 \in 1..Len(PlanOf(task)) /\ PlanOf(task)[1] = a
      BY <3>1
    <3>3. Seen(a)
      BY <2>1, <2>2, <3>2, AllSeen
    <3> QED
      BY <3>3 DEF Seen, a
  <2>5. asked[i] # <<>>
    BY <2>1, <2>3
  <2>6. Legal(i, asked[i]) /\ Held(i, asked[i], At(i, history[t]))
    BY <2>1, <2>3, <2>5 DEF IInv, AskedInv, SteadyInv
  <2>7. Regular(history[t])
    BY RegularHistory DEF IInv
  <2>8. AnswerAgrees(i, asked[i],
          Answer(task, Decode(Queries[task].kind, Values(Queries[task].item))))
    BY <2>1, <2>3, <2>4, <2>6, <2>7, QueryAgrees
  <2> QED
    BY <2>1, <2>3, <2>8
<1> QED
  BY <1>1, <1>2, <1>3, RepliesStand

\* The invariant and one step more: a query answers, in the units clients use,
\* what the last acknowledged request for the setting asked for.
THEOREM SettingsAreReadBack == Spec => []SettingsReadBack
<1>1. Init => SettingsReadBack
  BY DEF Init, CallsInit, SettingsReadBack, NoReply
<1>2. IInv /\ [Next]_vars /\ SettingsReadBack => SettingsReadBack'
  BY SettingsReadBackKept
<1> QED
  BY <1>1, <1>2, IInvHolds, PTL DEF Spec

-----------------------------------------------------------------------------
(* The error queue                                                         *)

ErrorsInv ==
  /\ errors \in Seq(Errors)
  /\ Len(errors) <= SCPI_ERROR_QUEUE_SIZE

\* A queue that an error goes into is no longer than its array.
LEMMA Pushed ==
  ASSUME NEW q \in Seq(Errors), Len(q) <= SCPI_ERROR_QUEUE_SIZE, NEW e \in Errors
  PROVE  /\ Push(q, e) \in Seq(Errors)
         /\ Len(Push(q, e)) <= SCPI_ERROR_QUEUE_SIZE
<1>1. SCPI_ERROR_QUEUE_SIZE \in Nat /\ SCPI_ERROR_QUEUE_SIZE >= 1 /\ Len(q) \in Nat
  BY ScpiAssumption
<1>2. CASE Len(q) < SCPI_ERROR_QUEUE_SIZE
  <2>1. Push(q, e) = Append(q, e)
    BY <1>2 DEF Push
  <2>2. Append(q, e) \in Seq(Errors) /\ Len(Append(q, e)) = Len(q) + 1
    OBVIOUS
  <2> QED
    BY <1>1, <1>2, <2>1, <2>2
<1>3. CASE ~(Len(q) < SCPI_ERROR_QUEUE_SIZE)
  <2> DEFINE full == [q EXCEPT ![Len(q)] = "overflow"]
  <2>1. Push(q, e) = full
    BY <1>3 DEF Push
  <2>2. "overflow" \in Errors
    BY DEF Errors
  <2>3. full \in Seq(Errors) /\ Len(full) = Len(q)
    <3> DEFINE n == Len(q)
    <3>1. q = [k \in 1..n |-> q[k]] /\ \A k \in 1..n : q[k] \in Errors
      OBVIOUS
    <3>2. full = [k \in 1..n |-> IF k = n THEN "overflow" ELSE q[k]]
      BY <3>1
    <3> HIDE DEF n, full
    <3>3. n \in Nat
      BY <1>1 DEF n
    <3>5. full \in [1..n -> Errors]
      BY <2>2, <3>1, <3>2
    <3>4. full \in Seq(Errors) /\ Len(full) = n
      BY <3>3, <3>5
    <3> QED
      BY <3>4 DEF n
  <2> HIDE DEF full
  <2> QED
    BY <2>1, <2>3
<1> QED
  BY <1>2, <1>3

LEMMA FailsKeeps ==
  ASSUME ErrorsInv, NEW e \in Errors, Fails(e)
  PROVE  ErrorsInv'
  BY Pushed DEF Fails, ErrorsInv

LEMMA NextErrorsInv ==
  ASSUME ErrorsInv, [Next]_vars
  PROVE  ErrorsInv'
<1>1. CASE UNCHANGED errors
  BY <1>1 DEF ErrorsInv
<1>2. {"command", "parameter", "illegal_parameter_value"} \subseteq Errors
  BY DEF Errors
<1>3. ASSUME NEW c \in DOMAIN SetCommands, NEW p \in Parameters(c), ScpiSet(c, p)
      PROVE  UNCHANGED errors \/ Fails("illegal_parameter_value")
  BY <1>3, Zenon DEF ScpiSet
<1>4. CASE ScpiBadSensor
  <2>1. errors' = Push(Push(errors, "parameter"), "illegal_parameter_value")
    BY <1>4 DEF ScpiBadSensor
  <2> DEFINE q == Push(errors, "parameter")
  <2>2. q \in Seq(Errors) /\ Len(q) <= SCPI_ERROR_QUEUE_SIZE
    BY <1>2, Pushed DEF ErrorsInv
  <2> HIDE DEF q
  <2>3. LET r == Push(q, "illegal_parameter_value")
        IN  r \in Seq(Errors) /\ Len(r) <= SCPI_ERROR_QUEUE_SIZE
    BY <1>2, <2>2, Pushed
  <2> QED
    BY <2>1, <2>3 DEF q, ErrorsInv
<1>5. CASE ErrorsRead
  <2>1. errors # <<>> /\ errors' \in {Tail(errors), <<>>}
    BY <1>5 DEF ErrorsRead
  <2>2. errors' \in Seq(Errors) /\ Len(errors') <= SCPI_ERROR_QUEUE_SIZE
    <3>1. CASE errors' = Tail(errors)
      <4>1. Tail(errors) \in Seq(Errors) /\ Len(Tail(errors)) = Len(errors) - 1 /\ Len(errors) \in Nat
        BY <2>1, TailOf DEF ErrorsInv
      <4>2. Len(errors) <= SCPI_ERROR_QUEUE_SIZE
        BY DEF ErrorsInv
      <4> QED
        BY <3>1, <4>1, <4>2, ScpiAssumption
    <3>2. CASE errors' = <<>>
      <4>1. errors' \in Seq(Errors) /\ Len(errors') = 0
        BY <3>2
      <4> QED
        BY <4>1, ScpiAssumption
    <3> QED
      BY <2>1, <3>1, <3>2
  <2> QED
    BY <2>2 DEF ErrorsInv
<1>6. CASE ScpiFailed
  BY <1>1, <1>2, <1>6, FailsKeeps DEF ScpiFailed
<1>7. CASE ScpiBadParameter
  BY <1>2, <1>7, FailsKeeps DEF ScpiBadParameter
<1>8. CASE Scpi
  BY <1>1, <1>2, <1>3, <1>4, <1>5, <1>6, <1>7, <1>8, FailsKeeps DEF Scpi, ScpiQuery, ScpiDone
<1> QED
  BY <1>1, <1>8 DEF Next, Http, SetClock, vars

LEMMA ErrorsInvHolds == Spec => []ErrorsInv
<1>1. ASSUME Init
      PROVE  ErrorsInv
  <2>1. errors = <<>>
    BY <1>1 DEF Init, ScpiInit
  <2>2. errors \in Seq(Errors) /\ Len(errors) = 0
    BY <2>1
  <2>3. Len(errors) <= SCPI_ERROR_QUEUE_SIZE
    BY <2>2, ScpiAssumption
  <2> QED
    BY <2>1, <2>2, <2>3 DEF ErrorsInv
<1>2. ErrorsInv /\ [Next]_vars => ErrorsInv'
  BY NextErrorsInv
<1> QED
  BY <1>1, <1>2, PTL DEF Spec

-----------------------------------------------------------------------------
(* Types and bounds                                                        *)

\* A write of the running handler that has still to be carried out: the one it
\* waits for, or the one a toggle is going to make.
Pending ==
  IF task = "toggle_out" \/ (task \in Writers /\ todo # <<>> /\ at = 0) THEN 1 ELSE 0

\* A handler sees the registers as they were when it began, the changes by
\* others, its own write, and one write that was given up on before.
SizeInv ==
  /\ moves \in 0..MaxMoves
  /\ tasks \in 0..MaxTasks
  /\ tasks = 0 => task = "none" /\ Len(history) = 1
  /\ Len(history) + Len(late) + Pending <= 3 + moves

LEMMA LateLength ==
  ASSUME AccessesInv
  PROVE  /\ Len(late) \in {0, 1}
         /\ late = <<>> => Len(late) = 0
         /\ late # <<>> => Len(late) = 1
<1>1. late = <<>> \/ late = <<late[1]>>
  BY DEF AccessesInv
<1>2. CASE late = <<>>
  BY <1>2
<1>3. CASE late = <<late[1]>>
  <2> DEFINE l == late[1]
  <2>1. late = <<l>>
    BY <1>3
  <2> HIDE DEF l
  <2> QED
    BY <2>1
<1> QED
  BY <1>1, <1>2, <1>3

LEMMA NextSizeInv ==
  ASSUME IInv, SizeInv, [Next]_vars
  PROVE  SizeInv'
<1>1. /\ moves \in 0..MaxMoves /\ tasks \in 0..MaxTasks
      /\ tasks = 0 => task = "none" /\ Len(history) = 1
      /\ Len(history) + Len(late) + Pending <= 3 + moves
      /\ MaxMoves \in Nat /\ MaxTasks \in Nat
  BY CallsAssumption DEF SizeInv
<1>2. /\ Len(history) \in Nat /\ Len(history) >= 1
      /\ history \in Seq([Registers -> Word]) /\ failed \in BOOLEAN
      /\ at # 0 => todo # <<>>
  BY DEF IInv, HistoryInv
<1>3. /\ Len(late) \in {0, 1}
      /\ late = <<>> => Len(late) = 0
      /\ late # <<>> => Len(late) = 1
  BY LateLength DEF IInv
<1>4. Pending \in {0, 1} /\ Pending' \in {0, 1}
  BY DEF Pending
<1>5. /\ task \in Tasks /\ task = "none" => todo = <<>>
      /\ todo # <<>> => task # "none"
  BY DEF IInv, TodoInv
<1>6. CASE Starts
  <2>1. /\ history' = <<Now>> /\ late' = late /\ moves' = moves /\ tasks' = tasks + 1
        /\ tasks < MaxTasks
    BY <1>6 DEF Starts, Start, Idle
  <2>2. Len(history') = 1
    <3> DEFINE r == Now
    <3>1. history' = <<r>>
      BY <2>1
    <3> HIDE DEF r
    <3> QED
      BY <3>1
  <2>3. Len(late') = Len(late) /\ moves' = moves
    BY <2>1
  <2>5. moves \in Nat
    BY <1>1
  <2>4. Len(history') + Len(late') + Pending' <= 3 + moves'
    <3> DEFINE l == Len(late)
               n == Len(history')
    <3>1. l \in {0, 1} /\ n = 1
      BY <1>3, <2>2
    <3> HIDE DEF l, n
    <3>2. n + l \in 0..2 /\ (Pending' = 0 \/ Pending' = 1)
      BY <1>4, <3>1
    <3>3. \A x \in 0..2 : \A y \in {0, 1} : x + y <= 3 + moves
      BY <2>5
    <3>4. n + l + Pending' <= 3 + moves
      BY <3>2, <3>3
    <3> QED
      BY <2>3, <3>4 DEF l, n
  <2> QED
    BY <1>1, <2>1, <2>4 DEF SizeInv
<1>7. CASE Ends
  <2>1. /\ UNCHANGED <<history, late, moves, tasks>> /\ task' = "none" /\ Finished
    BY <1>7 DEF Ends, End
  <2>2. Pending' = 0
    BY <2>1, TaskKinds DEF Pending
  <2>3. Len(history') = Len(history) /\ Len(late') = Len(late)
    BY <2>1
  <2>4. Len(history') + Len(late') + Pending' <= 3 + moves'
    BY <1>1, <1>2, <1>3, <1>4, <2>1, <2>2, <2>3
  <2> QED
    BY <1>1, <2>1, <2>3, <2>4 DEF SizeInv
<1>8. CASE ToggleWrite \/ ToggleShows
  <2>1. /\ UNCHANGED <<history, late, at, moves, tasks>> /\ Finished /\ task # "none"
    BY <1>8 DEF ToggleWrite, Continue, ToggleShows, Finished
  <2>2. Pending' <= Pending
    <3>1. CASE ToggleWrite
      BY <1>4, <3>1 DEF ToggleWrite, Pending
    <3>2. CASE ToggleShows
      <4>1. task' = "toggle_status"
        BY <3>2 DEF ToggleShows
      <4>2. Pending' = 0
        BY <4>1, TaskKinds DEF Pending
      <4> QED
        BY <1>4, <4>2
    <3> QED
      BY <1>8, <3>1, <3>2
  <2>3. Len(history') = Len(history) /\ Len(late') = Len(late)
    BY <2>1
  <2>4. Len(history') + Len(late') + Pending' <= 3 + moves'
    BY <1>1, <1>2, <1>3, <1>4, <2>1, <2>2, <2>3
  <2> QED
    BY <1>1, <2>1, <2>4 DEF SizeInv
<1>9. CASE Perform
  <2>1. /\ todo # <<>> /\ at = 0 /\ late = <<>>
        /\ UNCHANGED <<late, task, todo, moves, tasks>>
    BY <1>9 DEF Perform
  <2>2. /\ at' \in 1..Len(history')
        /\ ~IsWrite(todo[1]) => history' = history
        /\ IsWrite(todo[1]) => Len(history') = Len(history) + 1
    BY <1>9, PerformGrows DEF IInv
  <2>3. at' # 0
    BY <2>2
  <2>4. CASE task \in Writers
    <3>1. task # "toggle_out"
      BY <2>4, TaskKinds
    <3>2. Pending = 1 /\ Pending' = 0
      BY <2>1, <2>3, <2>4, <3>1 DEF Pending
    <3>3. Len(history') \in {Len(history), Len(history) + 1} /\ Len(late') = Len(late)
      BY <2>1, <2>2
    <3>4. Len(history') + Len(late') + Pending' <= 3 + moves'
      BY <1>1, <1>2, <1>3, <2>1, <3>2, <3>3
    <3> QED
      BY <1>1, <1>5, <2>1, <3>4 DEF SizeInv
  <2>5. CASE task \notin Writers
    <3>1. 1 \in 1..Len(todo)
      BY <2>1 DEF IInv, TodoInv
    <3>2. history' = history
      BY <2>2, <2>5, <3>1, PlanReads DEF IInv
    <3>3. Pending' = Pending
      BY <2>1, <2>5 DEF Pending
    <3>4. Len(history') = Len(history) /\ Len(late') = Len(late)
      BY <2>1, <3>2
    <3> QED
      BY <1>1, <2>1, <3>3, <3>4 DEF SizeInv
  <2> QED
    BY <2>4, <2>5
<1>10. CASE Answered
  <2>1. /\ at # 0 /\ todo # <<>> /\ todo' = Tail(todo)
        /\ UNCHANGED <<history, late, task, param, moves, tasks>>
    BY <1>2, <1>10 DEF Answered
  <2>2. task \in Writers => todo' = <<>>
    BY <2>1, TodoShrinks DEF IInv
  <2>3. Pending' <= Pending
    BY <1>4, <2>1, <2>2 DEF Pending
  <2>4. Len(history') = Len(history) /\ Len(late') = Len(late)
    BY <2>1
  <2>5. Len(history') + Len(late') + Pending' <= 3 + moves'
    BY <1>1, <1>2, <1>3, <1>4, <2>1, <2>3, <2>4
  <2> QED
    BY <1>1, <2>1, <2>4, <2>5 DEF SizeInv
<1>11. CASE GiveUp
  <2>1. /\ todo # <<>> /\ todo' \in {Tail(todo), <<>>}
        /\ UNCHANGED <<history, task, param, moves, tasks>>
    BY <1>11 DEF GiveUp
  <2>2. task \in Writers => todo' = <<>>
    BY <2>1, TodoShrinks DEF IInv
  <2>3. Head(todo) = todo[1] /\ 1 \in 1..Len(todo)
    BY <2>1, TailOf DEF IInv, TodoInv
  <2>4. late' = late \/ (late = <<>> /\ at = 0 /\ IsWrite(todo[1]) /\ late' = <<todo[1]>>)
    BY <1>11, <2>3 DEF GiveUp
  <2>5. CASE late' = late
    <3>1. Pending' <= Pending
      BY <1>4, <2>1, <2>2 DEF Pending
    <3>2. Len(history') = Len(history) /\ Len(late') = Len(late)
      BY <2>1, <2>5
    <3>3. Len(history') + Len(late') + Pending' <= 3 + moves'
      BY <1>1, <1>2, <1>3, <1>4, <2>1, <3>1, <3>2
    <3> QED
      BY <1>1, <2>1, <3>2, <3>3 DEF SizeInv
  <2>6. CASE late = <<>> /\ at = 0 /\ IsWrite(todo[1]) /\ late' = <<todo[1]>>
    <3>1. task \in Writers
      BY <2>3, <2>6, PlanReads DEF IInv
    <3>2. task # "toggle_out"
      BY <3>1, TaskKinds
    <3>3. Pending = 1 /\ Pending' = 0
      BY <2>1, <2>2, <2>6, <3>1, <3>2 DEF Pending
    <3>4. Len(late') = 1
      <4> DEFINE a == todo[1]
      <4>1. late' = <<a>>
        BY <2>6
      <4> HIDE DEF a
      <4> QED
        BY <4>1
    <3>5. Len(late) = 0 /\ Len(history') = Len(history)
      BY <1>3, <2>1, <2>6
    <3>6. Len(history') + Len(late') + Pending' <= 3 + moves'
      BY <1>1, <1>2, <2>1, <3>3, <3>4, <3>5
    <3> QED
      BY <1>1, <2>1, <3>5, <3>6 DEF SizeInv
  <2> QED
    BY <2>4, <2>5, <2>6
<1>12. ASSUME NEW regs, Becomes(regs)
       PROVE  Len(history') \in Nat /\ Len(history') <= Len(history) + 1
              /\ (task = "none" => Len(history') = 1)
  <2>1. CASE task = "none"
    <3>1. history' = <<regs>>
      BY <1>12, <2>1 DEF Becomes
    <3>2. Len(history') = 1
      BY <3>1
    <3> QED
      BY <1>2, <2>1, <3>2
  <2>2. CASE task # "none"
    <3>1. history' = Append(history, regs)
      BY <1>12, <2>2 DEF Becomes
    <3>2. Len(history') = Len(history) + 1
      BY <1>2, <3>1
    <3> QED
      BY <1>2, <2>2, <3>2
  <2> QED
    BY <2>1, <2>2
<1>13. CASE PerformLate
  <2>1. /\ late # <<>> /\ late' = <<>> /\ Becomes(Stored(Head(late), Now))
        /\ UNCHANGED <<task, todo, at, moves, tasks>>
    BY <1>13 DEF PerformLate
  <2>2. Pending' = Pending
    BY <2>1 DEF Pending
  <2>3. Len(late) = 1 /\ Len(late') = 0
    BY <1>3, <2>1
  <2>4. Len(history') \in Nat /\ Len(history') <= Len(history) + 1
        /\ (task = "none" => Len(history') = 1)
    BY <1>12, <2>1
  <2>5. Len(history') + Len(late') + Pending' <= 3 + moves'
    BY <1>1, <1>2, <1>4, <2>1, <2>2, <2>3, <2>4
  <2> QED
    BY <1>1, <2>1, <2>4, <2>5 DEF SizeInv
<1>14. ASSUME NEW i \in Moving, Move(i)
       PROVE  SizeInv'
  <2>1. /\ Becomes(Moved(i, Now)) /\ moves < MaxMoves /\ moves' = moves + 1 /\ task # "none"
        /\ UNCHANGED <<late, task, todo, at, tasks>>
    BY <1>14 DEF Move, Moved
  <2>2. Pending' = Pending /\ Len(late') = Len(late)
    BY <2>1 DEF Pending
  <2>3. Len(history') \in Nat /\ Len(history') <= Len(history) + 1
    BY <1>12, <2>1
  <2>4. Len(history') + Len(late') + Pending' <= 3 + moves'
    BY <1>1, <1>2, <1>3, <1>4, <2>1, <2>2, <2>3
  <2>5. moves' \in 0..MaxMoves
    BY <1>1, <2>1
  <2> QED
    BY <1>1, <2>1, <2>4, <2>5 DEF SizeInv
<1>15. CASE Reject
  <2>1. /\ UNCHANGED <<history, late, task, todo, at, moves>> /\ tasks' = tasks + 1
        /\ tasks < MaxTasks
    BY <1>15 DEF Reject, Idle
  <2>2. Pending' = Pending /\ Len(history') = Len(history) /\ Len(late') = Len(late)
    BY <2>1 DEF Pending
  <2> QED
    BY <1>1, <2>1, <2>2 DEF SizeInv
<1>16. CASE UNCHANGED callVars
  <2>1. UNCHANGED <<history, late, task, todo, at, moves, tasks>>
    BY <1>16 DEF callVars
  <2>2. Pending' = Pending /\ Len(history') = Len(history) /\ Len(late') = Len(late)
    BY <2>1 DEF Pending
  <2> QED
    BY <1>1, <2>1, <2>2 DEF SizeInv
<1> QED
  BY <1>2, <1>6, <1>7, <1>8, <1>9, <1>10, <1>11, <1>13, <1>14, <1>15, <1>16, StepCases

\* What handlers keep of the registers and the settings has their names.
ShapeInv ==
  /\ DOMAIN got \subseteq Registers
  /\ asked = [i \in Followed |-> asked[i]]
  /\ touched \subseteq Followed
  /\ reply.task \in Tasks
  /\ DOMAIN reply.shown \subseteq Registers

LEMMA TouchShape ==
  ASSUME NEW S, Touch(S)
  PROVE  asked' = [i \in Followed |-> asked'[i]]
  BY DEF Touch

LEMMA NoReplyShape ==
  /\ NoReply.task \in Tasks
  /\ DOMAIN NoReply.shown \subseteq Registers
<1>1. DOMAIN <<>> = {}
  OBVIOUS
<1>2. NoReply.task = "none" /\ NoReply.shown = <<>>
  BY DEF NoReply
<1> QED
  BY <1>1, <1>2, TaskKinds

LEMMA NextShapeInv ==
  ASSUME IInv, ShapeInv, [Next]_vars
  PROVE  ShapeInv'
<1>1. DOMAIN <<>> = {}
  OBVIOUS
<1>2. failed \in BOOLEAN /\ task \in Tasks
  BY DEF IInv, HistoryInv, TodoInv
<1>3. CASE reply' = NoReply /\ UNCHANGED <<got, asked, touched>>
  BY <1>3, NoReplyShape DEF ShapeInv
<1>4. CASE UNCHANGED <<got, asked, touched, reply>>
  BY <1>4 DEF ShapeInv
<1>5. ASSUME NEW name, NEW p, NEW accesses, Begin(name, p, accesses),
             reply' = reply \/ reply' = NoReply
      PROVE  ShapeInv'
  <2>1. got' = <<>> /\ touched' = {}
    BY <1>5 DEF Begin
  <2>2. asked' = [i \in Followed |-> asked'[i]]
    BY <1>5, TouchShape DEF Begin
  <2>3. reply'.task \in Tasks /\ DOMAIN reply'.shown \subseteq Registers
    BY <1>5, NoReplyShape DEF ShapeInv
  <2> QED
    BY <1>1, <2>1, <2>2, <2>3 DEF ShapeInv
<1>6. CASE Starts
  <2>1. PICK name, p, accesses : Start(name, p, accesses)
    BY <1>6 DEF Starts
  <2>2. Begin(name, p, accesses) /\ reply' = NoReply
    BY <2>1 DEF Start
  <2> QED
    BY <1>5, <2>2
<1>7. CASE ToggleWrite
  <2>1. \E p, accesses : Begin("toggle_set", p, accesses) /\ reply' = reply
    BY <1>7 DEF ToggleWrite, Continue
  <2> QED
    BY <1>5, <2>1
<1>8. CASE Ends
  <2>1. PICK ok \in BOOLEAN : \E answer, set : End(ok, answer, set)
    BY <1>8, Zenon DEF Ends
  <2>2. PICK answer, set : End(ok, answer, set)
    BY <2>1
  <2>3. got' = <<>> /\ touched' = touched /\ asked' = [i \in Followed |-> asked'[i]]
    BY <2>2 DEF End
  <2>4. reply' = [task |-> task, ok |-> ok, shown |-> IF ok THEN got ELSE <<>>,
                  answer |-> answer, param |-> param]
    BY <2>2 DEF End
  <2>5. reply'.task = task /\ reply'.shown \in {got, <<>>}
    BY <2>4
  <2>6. reply'.task \in Tasks /\ DOMAIN reply'.shown \subseteq Registers
    BY <1>1, <1>2, <2>5 DEF ShapeInv
  <2> QED
    BY <1>1, <2>3, <2>6 DEF ShapeInv
<1>9. CASE ToggleShows \/ Perform \/ GiveUp \/ UNCHANGED callVars
  BY <1>4, <1>9 DEF ToggleShows, Perform, GiveUp, callVars
<1>10. CASE PerformLate
  BY <1>3, <1>4, <1>10 DEF PerformLate, Becomes
<1>11. CASE Answered
  <2>1. /\ got' = LET t == Head(todo)
                  IN  IF IsWrite(t) THEN got
                      ELSE [r \in DOMAIN got \cup Touched(t) |->
                              IF r \in Touched(t) THEN history[at][r] ELSE got[r]]
        /\ UNCHANGED <<asked, touched, reply>>
    BY <1>11 DEF Answered
  <2>2. \A t : Touched(t) \subseteq Registers
    BY DEF Touched
  <2>3. DOMAIN got' \subseteq DOMAIN got \cup Touched(Head(todo))
    BY <2>1
  <2> QED
    BY <2>1, <2>2, <2>3 DEF ShapeInv
<1>12. ASSUME NEW i \in Moving, Move(i)
       PROVE  ShapeInv'
  <2>1. /\ asked' = [j \in Followed |-> asked'[j]]
        /\ touched' = touched \cup {j \in Followed : Regs(i) \cap Regs(j) # {}}
        /\ got' = got /\ reply' \in {reply, NoReply}
    BY <1>12, TouchShape DEF Move, Becomes
  <2>2. reply'.task \in Tasks /\ DOMAIN reply'.shown \subseteq Registers
    BY <2>1, NoReplyShape DEF ShapeInv
  <2> QED
    BY <2>1, <2>2 DEF ShapeInv
<1>13. CASE Reject
  BY <1>3, <1>13 DEF Reject
<1> QED
  BY <1>2, <1>6, <1>7, <1>8, <1>9, <1>10, <1>11, <1>12, <1>13, StepCases

\* The parameters of a setting are numbers.
LEMMA LegalNumbers ==
  ASSUME NEW i \in Settable, NEW p, Legal(i, p)
  PROVE  p \in Seq(Int)
<1>1. CASE i \in {"Output", "Buzzer", "Language", "Brightness", "Preset"}
  <2>1. PICK n \in 0..9 : p = <<n>>
    BY <1>1 DEF Legal
  <2> QED
    BY <2>1
<1>2. CASE i = "Date"
  <2> DEFINE A == <<2024, 2, 29>>
             B == <<2025, 3, 12>>
             V == Seq(Int)
  <2>1. p = A \/ p = B
    BY <1>2 DEF Legal
  <2>2. A \in V /\ B \in V
    OBVIOUS
  <2> HIDE DEF A, B, V
  <2>3. p \in V
    BY <2>1, <2>2
  <2> QED
    BY <2>3 DEF V
<1>3. CASE i = "Time"
  <2>1. p \in {<<23, 59, 58>>, <<BYTE, 0, 1>>, <<8, 30, 0>>}
    BY <1>3 DEF Legal
  <2>2. \A a, b, c \in Int : <<a, b, c>> \in Seq(Int)
    OBVIOUS
  <2>3. 0 \in Int /\ 1 \in Int /\ 8 \in Int /\ 23 \in Int /\ 30 \in Int /\ 58 \in Int
        /\ 59 \in Int /\ BYTE \in Int
    BY RegistersAssumption
  <2> DEFINE A == <<23, 59, 58>>
             B == <<BYTE, 0, 1>>
             C == <<8, 30, 0>>
             V == Seq(Int)
  <2>4. A \in V /\ B \in V /\ C \in V
    BY <2>2, <2>3
  <2>5. p = A \/ p = B \/ p = C
    BY <2>1
  <2> HIDE DEF A, B, C, V
  <2>6. p \in V
    BY <2>4, <2>5
  <2> QED
    BY <2>6 DEF V
<1>4. CASE i \in {"VoltageSet", "CurrentSet", "M0_OVP", "M0_OCP"}
  <2> DEFINE n == p[1]
  <2>1. p = <<n>> /\ n \in Int
    BY <1>4 DEF Legal
  <2> HIDE DEF n
  <2> QED
    BY <2>1
<1> QED
  BY <1>1, <1>2, <1>3, <1>4 DEF Settable

LEMMA TypesHold ==
  ASSUME IInv, ErrorsInv, SizeInv, ShapeInv
  PROVE  TypeOK
<1>1. /\ history \in Seq([Registers -> 0..(WORD - 1)]) /\ Len(history) \in Nat
      /\ Len(history) >= 1 /\ at \in 0..Len(history) /\ failed \in BOOLEAN
  BY DEF IInv, HistoryInv, Word
<1>2. Len(late) \in {0, 1}
  BY LateLength DEF IInv
<1>3. /\ moves \in 0..MaxMoves /\ tasks \in 0..MaxTasks
      /\ tasks = 0 => Len(history) = 1
      /\ Len(history) + Len(late) + Pending <= 3 + moves
      /\ MaxMoves \in Nat /\ MaxTasks \in Nat
  BY CallsAssumption DEF SizeInv
<1>4. Pending \in {0, 1}
  BY DEF Pending
<1>5. Len(history) \in 1..(1 + MaxMoves + 2 * MaxTasks)
  <2>1. CASE tasks = 0
    <3>1. Len(history) = 1
      BY <1>3, <2>1
    <3> QED
      BY <1>3, <3>1
  <2>2. CASE tasks # 0
    <3>1. MaxTasks >= 1 /\ MaxMoves \in Nat /\ MaxTasks \in Nat /\ moves \in 0..MaxMoves
      BY <1>3, <2>2
    <3> DEFINE n == Len(history)
               l == Len(late)
               q == Pending
    <3>2. n \in Nat /\ n >= 1 /\ l \in {0, 1} /\ q \in {0, 1} /\ n + l + q <= 3 + moves
      BY <1>1, <1>2, <1>3, <1>4
    <3> HIDE DEF n, l, q
    <3>3. n <= 3 + moves
      BY <3>1, <3>2
    <3>4. n \in 1..(1 + MaxMoves + 2 * MaxTasks)
      BY <3>1, <3>2, <3>3
    <3> QED
      BY <3>4 DEF n
  <2> QED
    BY <2>1, <2>2
<1>6. Len(late) <= 1
  <2>1. \A x \in {0, 1} : x <= 1
    OBVIOUS
  <2> QED
    BY <1>2, <2>1
<1>7. \A k \in DOMAIN todo : todo[k].first \in 0..256 /\ todo[k].count \in 1..20
  <2> SUFFICES ASSUME NEW k \in DOMAIN todo
               PROVE  todo[k].first \in 0..256 /\ todo[k].count \in 1..20
    OBVIOUS
  <2>1. k \in 1..Len(todo)
    <3> DEFINE S == [first : Nat, count : Nat, values : Seq(Int)]
    <3>1. todo \in Seq(S)
      BY DEF IInv, TodoInv
    <3> HIDE DEF S
    <3> QED
      BY <3>1
  <2>2. WellFormed(todo[k])
    BY <2>1 DEF IInv, AccessesInv
  <2> QED
    BY <2>2, Zenon DEF WellFormed
<1>8. asked \in [Followed -> Seq(Int)]
  <2>1. ASSUME NEW i \in Followed
        PROVE  asked[i] \in Seq(Int)
    <3>1. CASE asked[i] = <<>>
      BY <3>1
    <3>2. CASE asked[i] # <<>>
      <4>1. i \in Settable /\ Legal(i, asked[i])
        BY <3>2 DEF IInv, AskedInv, Followed
      <4> QED
        BY <4>1, LegalNumbers
    <3> QED
      BY <3>1, <3>2
  <2>2. asked = [i \in Followed |-> asked[i]]
    BY DEF ShapeInv
  <2> DEFINE V == Seq(Int)
  <2>3. \A i \in Followed : asked[i] \in V
    BY <2>1
  <2> HIDE DEF V
  <2>4. asked \in [Followed -> V]
    BY <2>2, <2>3
  <2> QED
    BY <2>4 DEF V
<1>9. task \in Tasks /\ param \in Seq(Int)
  BY DEF IInv, TodoInv
<1>10. /\ DOMAIN got \subseteq Registers /\ touched \subseteq Followed
       /\ reply.task \in Tasks /\ DOMAIN reply.shown \subseteq Registers
  BY DEF ShapeInv
<1>11. errors \in Seq(Errors) /\ Len(errors) <= SCPI_ERROR_QUEUE_SIZE
  BY DEF ErrorsInv
<1> QED
  BY <1>1, <1>3, <1>5, <1>6, <1>7, <1>8, <1>9, <1>10, <1>11, Zenon DEF TypeOK

LEMMA InitBounds ==
  ASSUME Init
  PROVE  SizeInv /\ ShapeInv
<1>1. /\ history = <<[r \in Registers |-> 0]>> /\ late = <<>> /\ task = "none"
      /\ got = <<>> /\ reply = NoReply /\ asked = [i \in Followed |-> <<>>]
      /\ touched = {} /\ moves = 0 /\ tasks = 0
  BY DEF Init, CallsInit
<1>2. Len(history) = 1 /\ Len(late) = 0
  <2> DEFINE r == [q \in Registers |-> 0]
  <2>1. history = <<r>>
    BY <1>1
  <2> HIDE DEF r
  <2> QED
    BY <1>1, <2>1
<1>3. Pending = 0
  BY <1>1, TaskKinds DEF Pending
<1>4. SizeInv
  BY <1>1, <1>2, <1>3, CallsAssumption DEF SizeInv
<1>5. ShapeInv
  <2>1. DOMAIN <<>> = {}
    OBVIOUS
  <2> QED
    BY <1>1, <2>1, NoReplyShape DEF ShapeInv
<1> QED
  BY <1>4, <1>5

\* All variables keep their types: values fit their registers, and the moments
\* a handler can see and the errors that wait are bounded.
THEOREM RemoteControlTypeCorrect == Spec => []TypeOK
<1>1. Init => SizeInv /\ ShapeInv
  BY InitBounds
<1>2. IInv /\ SizeInv /\ [Next]_vars => SizeInv'
  BY NextSizeInv
<1>3. IInv /\ ShapeInv /\ [Next]_vars => ShapeInv'
  BY NextShapeInv
<1>4. IInv /\ ErrorsInv /\ SizeInv /\ ShapeInv => TypeOK
  BY TypesHold
<1> QED
  BY <1>1, <1>2, <1>3, <1>4, IInvHolds, ErrorsInvHolds, PTL DEF Spec
=============================================================================
