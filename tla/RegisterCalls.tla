--------------------------- MODULE RegisterCalls ---------------------------
(***************************************************************************)
(* The one thread of the firmware at work on the power supply's registers. *)
(* A handler (a SCPI command, a web page) is a series of register reads    *)
(* and writes, one at a time, each of them a call as RegisterAccess        *)
(* promises it: it may fail, and a call that failed may have been carried  *)
(* out, or be carried out later, but before any call that follows it.      *)
(* Between any two of them the front panel, the power supply itself and    *)
(* Modbus TCP clients change registers.                                    *)
(***************************************************************************)
EXTENDS RidenRegisters, FiniteSets

CONSTANTS
  Watched,   \* items whose registers are followed
  Moving,    \* those of them that others than the dongle's handlers change
  MaxMoves,  \* bound: changes by others in a behaviour
  MaxTasks   \* bound: handlers run in a behaviour

ASSUME CallsAssumption ==
  /\ Watched \subseteq DOMAIN Layout
  /\ Moving \subseteq Watched
  /\ MaxMoves \in Nat
  /\ MaxTasks \in Nat

VARIABLES
  history,  \* the watched registers at every moment since the running, or
            \* the last, handler began
  late,     \* writes given up on that may yet be carried out: none or one
  task,     \* the handler that is running, or "none"
  param,    \* its parameters, a sequence of numbers
  todo,     \* the register accesses it has still to make
  at,       \* moment at which the first of them was carried out; 0: not yet
  got,      \* register |-> value, as its reads returned them
  failed,   \* a call whose failure it looks at has failed
  reply,    \* what it ended with (history)
  asked,    \* setting |-> parameters of the last call that set it, if that
            \* was acknowledged and nobody has touched it since; else <<>>
  touched,  \* settings others have changed since the handler's accesses
            \* began; these two are history
  moves, tasks  \* counters for the bounds

callVars == <<history, late, task, param, todo, at, got, failed, reply, asked,
              touched, moves, tasks>>

Registers == UNION {Regs(i) : i \in Watched}
Now == history[Len(history)]

Read(first, count) == [first |-> first, count |-> count, values |-> <<>>]
ReadItem(i) == Read(Layout[i][1], Layout[i][2])
Write(i, values) == [first |-> Layout[i][1], count |-> Len(values), values |-> values]

IsWrite(t) == t.values # <<>>
Touched(t) == {r \in Registers : r >= t.first /\ r < t.first + t.count}
Stored(t, regs) ==
  [r \in Registers |-> IF r \in Touched(t) THEN t.values[r - t.first + 1] ELSE regs[r]]

Settable == {"VoltageSet", "CurrentSet", "Output", "Preset", "Date", "Time", "Buzzer",
             "Language", "Brightness", "M0_OVP", "M0_OCP"}
Followed == {i \in Settable : Regs(i) \subseteq Registers}

NoReply == [task |-> "none", ok |-> FALSE, shown |-> <<>>, answer |-> <<>>, param |-> <<>>]

CallsInit ==
  /\ history = <<[r \in Registers |-> 0]>>
  /\ late = <<>>
  /\ task = "none"
  /\ param = <<>>
  /\ todo = <<>>
  /\ at = 0
  /\ got = <<>>
  /\ failed = FALSE
  /\ reply = NoReply
  /\ asked = [i \in Followed |-> <<>>]
  /\ touched = {}
  /\ moves = 0
  /\ tasks = 0

\* The settings whose registers a transaction touches.
Settings(t) == {i \in Followed : \E r \in Regs(i) : r >= t.first /\ r < t.first + t.count}

\* The settings are no longer what was last asked for.
Touch(S) == asked' = [i \in Followed |-> IF i \in S THEN <<>> ELSE asked[i]]

-----------------------------------------------------------------------------
(* Handlers begin and end; the modules of the handlers use these.          *)

Begin(name, p, accesses) ==
  /\ task' = name
  /\ param' = p
  /\ todo' = accesses
  /\ got' = <<>>
  /\ failed' = FALSE
  /\ Touch(UNION {Settings(accesses[k]) : k \in {j \in DOMAIN accesses : IsWrite(accesses[j])}})
  /\ touched' = {}

Idle == task = "none" /\ tasks < MaxTasks

Start(name, p, accesses) ==
  /\ Idle
  /\ Begin(name, p, accesses)
  /\ history' = <<Now>>
  /\ tasks' = tasks + 1
  /\ reply' = NoReply
  /\ UNCHANGED <<late, at, moves>>

\* The handler ends.  set: the settings it has made, with their parameters.
End(ok, answer, set) ==
  /\ reply' = [task |-> task, ok |-> ok, shown |-> IF ok THEN got ELSE <<>>,
               answer |-> answer, param |-> param]
  /\ asked' = [i \in Followed |-> IF ok /\ i \in DOMAIN set \ touched THEN set[i]
                                                                     ELSE asked[i]]
  /\ task' = "none"
  /\ param' = <<>>
  /\ got' = <<>>
  /\ failed' = FALSE
  /\ UNCHANGED <<history, late, todo, at, touched, moves, tasks>>

NoSetting == [i \in {} |-> <<>>]
Setting(i, p) == [j \in {i} |-> p]

Finished == task # "none" /\ todo = <<>>

-----------------------------------------------------------------------------
(* One register access                                                     *)

Connected == Known(PSU_ID)

\* Mutant: the request is sent without waiting for the line.
PerformAtOnce ==
  /\ Connected /\ todo # <<>> /\ at = 0
  /\ history' = IF IsWrite(Head(todo)) THEN Append(history, Stored(Head(todo), Now))
                                       ELSE history
  /\ at' = Len(history')
  /\ UNCHANGED <<late, task, param, todo, got, failed, reply, asked, touched, moves, tasks>>

\* wait_for_inactive has found the line idle, so that nothing is left of an
\* earlier call; the request is sent and carried out.
Perform ==
  /\ Connected /\ todo # <<>> /\ at = 0 /\ late = <<>>
  /\ history' = IF IsWrite(Head(todo)) THEN Append(history, Stored(Head(todo), Now))
                                       ELSE history
  /\ at' = Len(history')
  /\ UNCHANGED <<late, task, param, todo, got, failed, reply, asked, touched, moves, tasks>>

\* The second wait_for_inactive succeeds: a read has filled the buffer.
Answered ==
  /\ at # 0
  /\ got' = LET t == Head(todo)
            IN  IF IsWrite(t) THEN got
                ELSE [r \in DOMAIN got \cup Touched(t) |->
                        IF r \in Touched(t) THEN history[at][r] ELSE got[r]]
  /\ todo' = Tail(todo)
  /\ at' = 0
  /\ UNCHANGED <<history, late, task, param, failed, reply, asked, touched, moves, tasks>>

\* Handlers that go on to the next access whatever became of this one.
GoesOn == task \in {"root", "lxi_identification", "modbus_qps"}

\* The call fails: not connected, not sent, or no answer within `timeout'.
\* A write that was sent and not answered may be carried out later (only
\* writes to watched registers are followed).
GiveUp ==
  /\ todo # <<>>
  /\ late' \in {late} \cup IF Connected /\ at = 0 /\ late = <<>> /\ IsWrite(Head(todo))
                                /\ Touched(Head(todo)) # {}
                             THEN {<<Head(todo)>>} ELSE {}
  /\ todo' = IF GoesOn THEN Tail(todo) ELSE <<>>
  /\ failed' = ~GoesOn
  /\ at' = 0
  /\ UNCHANGED <<history, task, param, got, reply, asked, touched, moves, tasks>>

\* The registers change other than by the access the thread waits for; with no
\* handler running, nobody needs the moments before.
Becomes(regs) ==
  IF task = "none" THEN history' = <<regs>> /\ reply' = NoReply
                   ELSE history' = Append(history, regs) /\ UNCHANGED reply

\* The write given up on is carried out after all.
PerformLate ==
  /\ late # <<>>
  /\ Becomes(Stored(Head(late), Now))
  /\ late' = <<>>
  /\ UNCHANGED <<task, param, todo, at, got, failed, asked, touched, moves, tasks>>

-----------------------------------------------------------------------------
(* Everybody else: all registers of an item change at one moment.          *)

Flags == {"Output", "Keypad", "Buzzer"}

Move(i) ==
  /\ moves < MaxMoves
  /\ task # "none"
  /\ moves' = moves + 1
  /\ Becomes([r \in Registers |->
                IF r \notin Regs(i) THEN Now[r]
                ELSE IF i \in Flags THEN 1 - Now[r] ELSE (Now[r] + 1) % WORD])
  /\ Touch({j \in Followed : Regs(i) \cap Regs(j) # {}})
  /\ touched' = touched \cup {j \in Followed : Regs(i) \cap Regs(j) # {}}
  /\ UNCHANGED <<late, task, param, todo, at, got, failed, tasks>>

Access == Perform \/ Answered \/ GiveUp \/ PerformLate \/ \E i \in Moving : Move(i)
=============================================================================
