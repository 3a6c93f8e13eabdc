------------------------------- MODULE SysProofs -------------------------------
(***************************************************************************)
(* Theorems about Sys, for any sizes of the two queues, any timeout of the *)
(* watchdog and any number of messages.                                    *)
(***************************************************************************)
EXTENDS Sys, TLAPS

USE SizesAssumption, CountersAssumption, TimeoutAssumption

-----------------------------------------------------------------------------
(***************************************************************************)
(* The inductive invariant.                                                *)
(***************************************************************************)
Shape ==
  /\ queue \in Seq(Messages) /\ todo \in [Contexts -> Seq(Calls)]
  /\ list \in [Slots -> Nat] /\ head \in Slots /\ tail \in Slots
  /\ logged \in Nat /\ shown \in Nat
  /\ counter \in Nat /\ timer \in Nat /\ age \in Nat /\ late \in Nat
  /\ refused \in BOOLEAN /\ rested \in BOOLEAN /\ reboot \in BOOLEAN

\* The calls s: the error is reported next or not at all, or is being reported.
Reports(s) == s # <<>> /\ Head(s) = "report"
Within(s) == \E i \in 1 .. Len(s) : s[i] = "return"
Framed(s) ==
  /\ \A i \in 1 .. Len(s) : s[i] = "report" => i = 1
  /\ \A i, j \in 1 .. Len(s) : s[i] = "return" /\ s[j] \in {"return", "report"} => i = j

Pending(c) == IF Reports(todo[c]) THEN 1 ELSE 0

\* Each context reports the error at most once, and only before the first report:
\* the counter stays below its limit and is never 0 again.
Reported ==
  /\ \A c \in Contexts : Framed(todo[c]) /\ (Within(todo[c]) => counter > 0)
  /\ counter + Pending("main") + Pending("irq") + Pending("core1") <= 3

Holds(s, S) == \E i \in 1 .. Len(s) : s[i] \in S

\* The message of this second is on its way to the watchdog.
Underway == \/ Holds(todo["irq"], {"TICK"})
            \/ Holds(todo["main"], {"WATCHDOG"})
            \/ Holds(queue, {"TICK", "WATCHDOG"})

\* A second that the watchdog has counted but was not troubled still brings its
\* message, until the loop is done with its work.
Watched == ~reboot => /\ age <= late + 1
                      /\ age = late + 1 => refused \/ (Underway /\ ~rested)

\* The log holds the newest messages, behind those written out or behind a mark.
Newest ==
  IF Fill = 0 THEN shown = logged
  ELSE /\ IF Entry(0) = Mark THEN Fill > 1 /\ logged > shown + Fill
                             ELSE Entry(0) = shown + 1 /\ logged = shown + Fill
       /\ \A k \in 1 .. Fill - 1 : Entry(k) = logged - (Fill - 1 - k)

IInv == Shape /\ Reported /\ Watched /\ Newest

-----------------------------------------------------------------------------
(***************************************************************************)
(* The calls of a context.                                                 *)
(***************************************************************************)
\* Then: the calls p come before the rest of the calls s.
LEMMA ThenIs ==
  ASSUME NEW s \in Seq(Calls), s # <<>>, NEW p \in Seq(Calls)
  PROVE  /\ p \o Tail(s) \in Seq(Calls)
         /\ Len(p \o Tail(s)) = Len(p) + Len(s) - 1
         /\ \A i \in 1 .. Len(p) : (p \o Tail(s))[i] = p[i]
         /\ \A i \in Len(p) + 1 .. Len(p) + Len(s) - 1 :
              (p \o Tail(s))[i] = s[i - Len(p) + 1]
  OBVIOUS

\* Calls that report nothing and return from nothing.
Plain == Calls \ {"report", "return"}

\* Calls other than of a report leave a report where it was.
LEMMA PlainKept ==
  ASSUME NEW s \in Seq(Calls), s # <<>>, Framed(s), NEW p \in Seq(Plain)
  PROVE  /\ Framed(p \o Tail(s)) /\ ~Reports(p \o Tail(s))
         /\ Within(p \o Tail(s)) => Within(s)
<1>1. p \in Seq(Calls) /\ \A i \in 1 .. Len(p) : p[i] \notin {"report", "return"}
  BY DEF Plain
<1> DEFINE t == p \o Tail(s)
<1>2. /\ t \in Seq(Calls) /\ Len(t) = Len(p) + Len(s) - 1
      /\ \A i \in 1 .. Len(p) : t[i] = p[i]
      /\ \A i \in Len(p) + 1 .. Len(t) : t[i] = s[i - Len(p) + 1]
  BY <1>1, ThenIs
<1>3. \A i \in 1 .. Len(t) : t[i] \in {"report", "return"} =>
        /\ i - Len(p) + 1 \in 2 .. Len(s) /\ t[i] = s[i - Len(p) + 1]
  BY <1>1, <1>2
<1> HIDE DEF t
<1>4. \A i \in 1 .. Len(t) : t[i] # "report"
  BY <1>1, <1>2, <1>3 DEF Framed
<1>5. ASSUME NEW i \in 1 .. Len(t), NEW j \in 1 .. Len(t), t[i] = "return",
             t[j] \in {"return", "report"}
      PROVE  i = j
  <2>1. /\ i - Len(p) + 1 \in 2 .. Len(s) /\ s[i - Len(p) + 1] = "return"
        /\ j - Len(p) + 1 \in 2 .. Len(s) /\ s[j - Len(p) + 1] \in {"return", "report"}
    BY <1>3, <1>5
  <2>2. i - Len(p) + 1 = j - Len(p) + 1
    BY <2>1 DEF Framed
  <2> QED
    BY <2>2, <1>1
<1>6. Framed(t)
  BY <1>4, <1>5 DEF Framed
<1>7. ~Reports(t)
  BY <1>2, <1>4 DEF Reports
<1>8. Within(t) => Within(s)
  BY <1>1, <1>3 DEF Within
<1> QED
  BY <1>6, <1>7, <1>8 DEF t

\* The report of an error begins.
LEMMA ReportBegins ==
  ASSUME NEW s \in Seq(Calls), s # <<>>, Framed(s), ~Within(s)
  PROVE  Framed(<<"report">> \o Tail(s)) /\ ~Within(<<"report">> \o Tail(s))
<1> DEFINE t == <<"report">> \o Tail(s)
<1>1. /\ t \in Seq(Calls) /\ Len(t) = Len(s) /\ t[1] = "report"
      /\ \A i \in 2 .. Len(t) : t[i] = s[i]
  BY ThenIs, <<"report">> \in Seq(Calls) DEF Calls
<1> HIDE DEF t
<1>2. \A i \in 2 .. Len(t) : t[i] \notin {"report", "return"}
  BY <1>1 DEF Framed, Within
<1> QED
  BY <1>1, <1>2 DEF Framed, Within, t

\* The error is logged, and then the report is over.
LEMMA ReportLogged ==
  ASSUME NEW s \in Seq(Calls), s # <<>>, Framed(s), Head(s) = "report"
  PROVE  /\ Framed(<<"print", "return">> \o Tail(s))
         /\ ~Reports(<<"print", "return">> \o Tail(s))
<1> DEFINE t == <<"print", "return">> \o Tail(s)
<1>1. /\ t \in Seq(Calls) /\ Len(t) = Len(s) + 1 /\ t[1] = "print" /\ t[2] = "return"
      /\ \A i \in 3 .. Len(t) : t[i] = s[i - 1]
  BY ThenIs, <<"print", "return">> \in Seq(Calls) DEF Calls
<1>2. \A i \in 2 .. Len(s) : s[i] \notin {"report", "return"}
  BY DEF Framed
<1> HIDE DEF t
<1>3. \A i \in 3 .. Len(t) : t[i] \notin {"report", "return"}
  BY <1>1, <1>2
<1> QED
  BY <1>1, <1>3 DEF Framed, Reports, t

\* New calls
LEMMA PlainBegins ==
  ASSUME NEW p \in Seq(Plain)
  PROVE  p \in Seq(Calls) /\ Framed(p) /\ ~Reports(p) /\ ~Within(p)
<1>1. p \in Seq(Calls) /\ \A i \in 1 .. Len(p) : p[i] \notin {"report", "return"}
  BY DEF Plain
<1> QED
  BY <1>1 DEF Framed, Reports, Within

-----------------------------------------------------------------------------
(***************************************************************************)
(* Reporting an error ends.                                                *)
(***************************************************************************)
LEMMA PlainCalls ==
  /\ <<>> \in Seq(Plain) /\ <<"print">> \in Seq(Plain) /\ <<"write", "LOG">> \in Seq(Plain)
  /\ <<"LOG">> \in Seq(Plain) /\ <<"emit">> \in Seq(Plain) /\ <<"flush">> \in Seq(Plain)
  /\ <<"TICK", "syserr_tick">> \in Seq(Plain) /\ <<"OTHER">> \in Seq(Plain)
  /\ <<"TTY">> \in Seq(Plain) /\ <<"print", "connect">> \in Seq(Plain)
  /\ <<"WATCHDOG", "LOG">> \in Seq(Plain)
  BY DEF Plain, Calls, Messages

\* A call of another kind takes nothing from, and adds nothing to, the reports.
LEMMA CallReports ==
  ASSUME Shape, Reported, NEW c \in Contexts, ~Idle(c), NEW p \in Seq(Plain),
         Head(todo[c]) # "report", Then(c, p), counter' = counter
  PROVE  Reported'
<1>1. todo[c] \in Seq(Calls) /\ todo[c] # <<>> /\ Framed(todo[c])
  BY DEF Shape, Reported, Idle
<1>2. /\ \A d \in Contexts : d # c => todo'[d] = todo[d]
      /\ todo'[c] = p \o Tail(todo[c])
  BY DEF Then, Shape
<1>3. /\ Framed(todo'[c]) /\ ~Reports(todo'[c]) /\ ~Reports(todo[c])
      /\ Within(todo'[c]) => Within(todo[c])
  BY <1>1, <1>2, PlainKept DEF Reports
<1>4. \A d \in Contexts : Framed(todo'[d]) /\ (Within(todo'[d]) => counter' > 0)
  BY <1>2, <1>3 DEF Reported
<1>5. \A d \in Contexts : Pending(d)' = Pending(d)
  BY <1>2, <1>3 DEF Pending
<1>6. (counter + Pending("main") + Pending("irq") + Pending("core1") <= 3)'
  BY <1>5 DEF Reported, Contexts
<1> QED
  BY <1>4, <1>6 DEF Reported

\* So do the calls that a context begins.
LEMMA BeginReports ==
  ASSUME Shape, Reported, NEW c \in Contexts, NEW p \in Seq(Plain), Begin(c, p),
         counter' = counter
  PROVE  Reported'
<1>1. /\ \A d \in Contexts : d # c => todo'[d] = todo[d]
      /\ todo'[c] = p /\ todo[c] = <<>>
  BY DEF Begin, Idle, Shape
<1>2. Framed(p) /\ ~Reports(p) /\ ~Within(p) /\ ~Reports(todo[c])
  BY <1>1, PlainBegins DEF Reports
<1>3. \A d \in Contexts : Framed(todo'[d]) /\ (Within(todo'[d]) => counter' > 0)
  BY <1>1, <1>2 DEF Reported
<1>4. \A d \in Contexts : Pending(d)' = Pending(d)
  BY <1>1, <1>2 DEF Pending
<1>5. (counter + Pending("main") + Pending("irq") + Pending("core1") <= 3)'
  BY <1>4 DEF Reported, Contexts
<1> QED
  BY <1>3, <1>5 DEF Reported

\* A full queue is reported once.
LEMMA PushReports ==
  ASSUME Shape, Reported, NEW c \in Contexts, push(c)
  PROVE  Reported'
<1>1. PICK m \in Messages :
        /\ Calling(c, m)
        /\ \/ Then(c, <<>>)
           \/ Loggable /\ Then(c, <<"report">>)
        /\ counter' = counter
  BY DEF push, errors
<1>2. /\ todo[c] \in Seq(Calls) /\ todo[c] # <<>> /\ Framed(todo[c]) /\ ~Idle(c)
      /\ Head(todo[c]) # "report"
  BY <1>1 DEF Shape, Reported, Idle, Calling, Messages
<1>3. CASE Then(c, <<>>)
  BY <1>1, <1>2, <1>3, CallReports, <<>> \in Seq(Plain)
<1>4. CASE Loggable /\ Then(c, <<"report">>)
  <2>1. counter = 0 /\ ~Within(todo[c]) /\ \A d \in Contexts : ~Within(todo[d])
    BY <1>4 DEF Loggable, Reported, Shape
  <2>2. /\ \A d \in Contexts : d # c => todo'[d] = todo[d]
        /\ todo'[c] = <<"report">> \o Tail(todo[c])
    BY <1>4 DEF Then, Shape
  <2>3. Framed(todo'[c]) /\ ~Within(todo'[c])
    BY <1>2, <2>1, <2>2, ReportBegins
  <2>4. \A d \in Contexts : Framed(todo'[d]) /\ (Within(todo'[d]) => counter' > 0)
    BY <1>1, <2>1, <2>2, <2>3 DEF Reported
  <2>5. counter' = 0 /\ \A d \in Contexts : Pending(d)' \in {0, 1}
    BY <1>1, <2>1 DEF Pending
  <2>6. (counter + Pending("main") + Pending("irq") + Pending("core1") <= 3)'
    BY <2>5 DEF Contexts
  <2> QED
    BY <2>4, <2>6 DEF Reported
<1> QED
  BY <1>1, <1>3, <1>4

\* The counter of the error counts each report.
LEMMA ErrorReports ==
  ASSUME Shape, Reported, NEW c \in Contexts, syserr_set(c)
  PROVE  Reported'
<1>1. /\ todo[c] \in Seq(Calls) /\ todo[c] # <<>> /\ Framed(todo[c])
      /\ Head(todo[c]) = "report" /\ counter' = (counter + 1) % Count
      /\ Then(c, <<"print", "return">>)
  BY DEF Shape, Reported, syserr_set, Calling, Idle
<1>2. /\ \A d \in Contexts : d # c => todo'[d] = todo[d]
      /\ todo'[c] = <<"print", "return">> \o Tail(todo[c])
  BY <1>1 DEF Then, Shape
<1>3. Framed(todo'[c]) /\ ~Reports(todo'[c]) /\ Reports(todo[c])
  BY <1>1, <1>2, ReportLogged DEF Reports
<1>4. Pending(c) = 1 /\ Pending(c)' = 0 /\ \A d \in Contexts \ {c} : Pending(d)' = Pending(d)
  BY <1>2, <1>3 DEF Pending
<1>5. \A d \in Contexts : Pending(d) \in {0, 1}
  BY DEF Pending
<1>6. counter + 1 <= 3
  BY <1>4, <1>5 DEF Reported, Contexts, Shape
<1>7. counter' = counter + 1 /\ counter' > 0
  <2>1. counter \in Nat /\ counter + 1 \in 0 .. Count - 1 /\ Count \in Nat \ {0}
    BY <1>6 DEF Shape
  <2>2. (counter + 1) % Count = counter + 1
    BY <2>1
  <2> QED
    BY <2>1, <2>2, <1>1
<1>8. \A d \in Contexts : Framed(todo'[d]) /\ (Within(todo'[d]) => counter' > 0)
  BY <1>2, <1>3, <1>7 DEF Reported
<1>9. (counter + Pending("main") + Pending("irq") + Pending("core1") <= 3)'
  BY <1>4, <1>5, <1>7 DEF Reported, Contexts, Shape
<1> QED
  BY <1>8, <1>9 DEF Reported

\* After a reset
LEMMA StartReports ==
  ASSUME todo' = Start.todo, counter' = 0
  PROVE  Reported'
<1>1. /\ todo' = [c \in Contexts |-> IF c = "main" THEN <<"print", "OTHER">> ELSE <<>>]
      /\ <<"print", "OTHER">> \in Seq(Plain) /\ <<>> \in Seq(Plain)
  BY DEF Start, Plain, Calls, Messages
<1>2. \A c \in Contexts : Framed(todo'[c]) /\ ~Reports(todo'[c]) /\ ~Within(todo'[c])
  BY <1>1, PlainBegins
<1> QED
  BY <1>2 DEF Reported, Pending, Contexts

LEMMA ReportedKept ==
  ASSUME Shape, Reported, Next
  PROVE  Reported'
<1>1. ASSUME NEW c \in Contexts, Call(c) PROVE Reported'
  <2>1. CASE push(c)
    BY <2>1, PushReports
  <2>2. CASE syserr_set(c)
    BY <2>2, ErrorReports
  <2>3. CASE return(c) \/ syserr_tick(c) \/ write(c) \/ emit(c)
    <3>1. /\ ~Idle(c) /\ Head(todo[c]) # "report" /\ Then(c, <<>>) /\ counter' = counter
      BY <2>3 DEF return, syserr_tick, write, emit, Calling, errors
    <3> QED
      BY <3>1, PlainCalls, CallReports
  <2>4. CASE print(c) \/ flush(c) \/ stdout_connected(c)
    <3>1. /\ ~Idle(c) /\ Head(todo[c]) # "report" /\ counter' = counter
          /\ \E p \in {<<>>, <<"write", "LOG">>, <<"LOG">>, <<"emit">>, <<"print">>} : Then(c, p)
      BY <2>4 DEF print, flush, stdout_connected, Calling, errors
    <3> QED
      BY <3>1, PlainCalls, CallReports
  <2> QED
    BY <1>1, <2>1, <2>2, <2>3, <2>4 DEF Call
<1>2. CASE _tick
  <2>1. Begin("irq", <<"TICK", "syserr_tick">>) /\ counter' = counter
    BY <1>2 DEF _tick, errors
  <2> QED
    BY <2>1, PlainCalls, BeginReports DEF Contexts
<1>3. CASE Activity
  <2>1. /\ counter' = counter
        /\ \E c \in Contexts, p \in {<<"OTHER">>, <<"TTY">>, <<"print", "connect">>, <<"print">>} :
             Begin(c, p)
    BY <1>3 DEF Activity, errors, Contexts
  <2> QED
    BY <2>1, PlainCalls, BeginReports
<1>4. CASE Wait
  BY <1>4 DEF Wait, errors, Reported, Pending
<1>5. CASE dispatch
  <2>1. /\ counter' = counter
        /\ \E p \in {<<>>, <<"print">>, <<"LOG">>, <<"WATCHDOG", "LOG">>, <<"flush">>} :
             Begin("main", p)
    BY <1>5 DEF dispatch, MSG_TICK, TickCalls, MSG_LOG, MSG_WATCHDOG, MSG_OTHER, MSG_TTY,
                sys_reboot, Handle, errors
  <2> QED
    BY <2>1, PlainCalls, BeginReports DEF Contexts
<1>6. CASE Expire
  BY <1>6, StartReports DEF Expire
<1> QED
  BY <1>1, <1>2, <1>3, <1>4, <1>5, <1>6 DEF Next

-----------------------------------------------------------------------------
(***************************************************************************)
(* The watchdog is fed.                                                    *)
(***************************************************************************)
LEMMA HoldsAfter ==
  ASSUME NEW s \in Seq(Calls), s # <<>>, NEW p \in Seq(Calls), NEW S, Head(s) \notin S,
         Holds(s, S)
  PROVE  Holds(p \o Tail(s), S)
<1>1. PICK i \in 1 .. Len(s) : s[i] \in S
  BY DEF Holds
<1>2. i # 1
  BY <1>1
<1>3. Len(p) + i - 1 \in Len(p) + 1 .. Len(p) + Len(s) - 1
  BY <1>2
<1>4. (p \o Tail(s))[Len(p) + i - 1] = s[i]
  BY <1>3, ThenIs
<1>5. Len(p) + i - 1 \in 1 .. Len(p \o Tail(s))
  BY <1>3, ThenIs
<1> QED
  BY <1>1, <1>4, <1>5 DEF Holds

LEMMA HoldsAppended ==
  ASSUME NEW s \in Seq(Messages), NEW m \in Messages, NEW S, Holds(s, S) \/ m \in S
  PROVE  Holds(Append(s, m), S)
<1>1. /\ Len(Append(s, m)) = Len(s) + 1 /\ Append(s, m)[Len(s) + 1] = m
      /\ \A i \in 1 .. Len(s) : Append(s, m)[i] = s[i]
  OBVIOUS
<1>2. CASE Holds(s, S)
  <2>1. PICK i \in 1 .. Len(s) : s[i] \in S
    BY <1>2 DEF Holds
  <2>2. i \in 1 .. Len(Append(s, m)) /\ Append(s, m)[i] \in S
    BY <1>1, <2>1
  <2> QED
    BY <2>2 DEF Holds
<1>3. CASE m \in S
  <2>1. Len(s) + 1 \in 1 .. Len(Append(s, m)) /\ Append(s, m)[Len(s) + 1] \in S
    BY <1>1, <1>3
  <2> QED
    BY <2>1 DEF Holds
<1> QED
  BY <1>2, <1>3

LEMMA HoldsTail ==
  ASSUME NEW s \in Seq(Messages), s # <<>>, NEW S, Head(s) \notin S, Holds(s, S)
  PROVE  Holds(Tail(s), S)
<1>1. PICK i \in 1 .. Len(s) : s[i] \in S
  BY DEF Holds
<1>2. i # 1 /\ i - 1 \in 1 .. Len(Tail(s)) /\ Tail(s)[i - 1] = s[i]
  BY <1>1
<1> QED
  BY <1>1, <1>2 DEF Holds

\* A call that pushes neither message loses none.
LEMMA CallUnderway ==
  ASSUME Shape, NEW c \in Contexts, ~Idle(c), NEW p \in Seq(Calls), Then(c, p),
         Head(todo[c]) \notin {"TICK", "WATCHDOG"}, Underway,
         queue' = queue \/ \E m \in Messages : queue' = Append(queue, m)
  PROVE  Underway'
<1>1. todo[c] \in Seq(Calls) /\ todo[c] # <<>>
  BY DEF Shape, Idle
<1>2. /\ \A d \in Contexts : d # c => todo'[d] = todo[d]
      /\ todo'[c] = p \o Tail(todo[c])
  BY DEF Then, Shape
<1>3. \A d \in Contexts : \A S \in SUBSET {"TICK", "WATCHDOG"} :
        Holds(todo[d], S) => Holds(todo'[d], S)
  BY <1>1, <1>2, HoldsAfter
<1>4. Holds(queue, {"TICK", "WATCHDOG"}) => Holds(queue', {"TICK", "WATCHDOG"})
  <2>1. queue \in Seq(Messages)
    BY DEF Shape
  <2>2. CASE queue' = queue
    BY <2>2
  <2>3. ASSUME NEW m \in Messages, queue' = Append(queue, m), Holds(queue, {"TICK", "WATCHDOG"})
        PROVE  Holds(queue', {"TICK", "WATCHDOG"})
    BY <2>1, <2>3, HoldsAppended
  <2> QED
    BY <2>2, <2>3
<1>5. /\ Holds(todo["irq"], {"TICK"}) => Holds(todo'["irq"], {"TICK"})
      /\ Holds(todo["main"], {"WATCHDOG"}) => Holds(todo'["main"], {"WATCHDOG"})
  BY <1>3 DEF Contexts
<1> QED
  BY <1>4, <1>5 DEF Underway

LEMMA PushWatched ==
  ASSUME Shape, Watched, NEW c \in Contexts, push(c)
  PROVE  Watched'
<1>1. PICK m \in Messages :
        /\ Calling(c, m)
        /\ \/ queue' = Append(queue, m) /\ Then(c, <<>>) /\ refused' = refused
           \/ /\ refused' = (refused \/ m \in {"TICK", "WATCHDOG"}) /\ queue' = queue
              /\ Then(c, <<>>) \/ Then(c, <<"report">>)
        /\ age' = age /\ late' = late /\ rested' = rested /\ reboot' = reboot
  BY DEF push, terminal
<1>2. <<>> \in Seq(Calls) /\ <<"report">> \in Seq(Calls)
  BY DEF Calls
<1>3. ~Idle(c) /\ Head(todo[c]) = m
  BY <1>1 DEF Calling
<1>4. CASE m \notin {"TICK", "WATCHDOG"}
  <2>1. Underway => Underway'
    BY <1>1, <1>2, <1>3, <1>4, CallUnderway
  <2>2. refused' = refused
    BY <1>1, <1>4 DEF Shape
  <2> QED
    BY <2>1, <2>2, <1>1 DEF Watched
<1>5. CASE m \in {"TICK", "WATCHDOG"}
  <2>1. queue' = Append(queue, m) => Underway'
    BY <1>5, HoldsAppended DEF Underway, Shape
  <2>2. refused => refused'
    BY <1>1
  <2>3. refused' \/ Underway'
    BY <2>1, <1>1, <1>5
  <2> QED
    BY <2>2, <2>3, <1>1 DEF Watched
<1> QED
  BY <1>4, <1>5

\* A message other than that of the watchdog is dispatched.
LEMMA HandleWatched ==
  ASSUME Shape, Watched, NEW m \in Messages \ {"WATCHDOG"}, NEW p \in Seq(Calls),
         Handle(m, p), m = "TICK" => p = TickCalls,
         UNCHANGED <<age, late, refused, rested>>, reboot => reboot'
  PROVE  Watched'
<1> SUFFICES ASSUME ~reboot', Underway PROVE Underway'
  BY DEF Watched
<1>1. /\ queue \in Seq(Messages) /\ queue # <<>> /\ Head(queue) = m /\ queue' = Tail(queue)
      /\ todo["main"] = <<>> /\ todo'["main"] = p /\ todo'["irq"] = todo["irq"]
  BY DEF Handle, Begin, Idle, Shape, Contexts
<1>2. CASE m = "TICK"
  <2>1. p = <<"WATCHDOG", "LOG">>
    BY <1>2 DEF TickCalls
  <2>2. Holds(todo'["main"], {"WATCHDOG"})
    BY <1>1, <2>1 DEF Holds
  <2> QED
    BY <2>2 DEF Underway
<1>3. CASE m # "TICK"
  <2>1. Holds(queue, {"TICK", "WATCHDOG"}) => Holds(queue', {"TICK", "WATCHDOG"})
    BY <1>1, <1>3, HoldsTail
  <2>2. ~Holds(todo["main"], {"WATCHDOG"})
    BY <1>1 DEF Holds
  <2> QED
    BY <2>1, <2>2, <1>1 DEF Underway
<1> QED
  BY <1>2, <1>3

LEMMA WatchedKept ==
  ASSUME Shape, Watched, Next
  PROVE  Watched'
<1>1. ASSUME NEW c \in Contexts, Call(c) PROVE Watched'
  <2>1. CASE push(c)
    BY <2>1, PushWatched
  <2>2. CASE ~push(c)
    <3>1. /\ ~Idle(c) /\ Head(todo[c]) \notin {"TICK", "WATCHDOG"} /\ queue' = queue
          /\ \E p \in {<<>>, <<"print", "return">>, <<"write", "LOG">>, <<"LOG">>, <<"emit">>,
                       <<"print">>} : Then(c, p)
          /\ UNCHANGED <<age, late, refused, rested, reboot>>
      BY <1>1, <2>2 DEF Call, syserr_set, return, syserr_tick, print, write, flush, emit,
                        stdout_connected, Calling, watchdog, terminal
    <3>2. /\ <<>> \in Seq(Calls) /\ <<"print", "return">> \in Seq(Calls)
          /\ <<"write", "LOG">> \in Seq(Calls) /\ <<"LOG">> \in Seq(Calls)
          /\ <<"emit">> \in Seq(Calls) /\ <<"print">> \in Seq(Calls)
      BY DEF Calls, Messages
    <3>3. Underway => Underway'
      BY <3>1, <3>2, CallUnderway
    <3> QED
      BY <3>1, <3>3 DEF Watched
  <2> QED
    BY <2>1, <2>2
<1>2. CASE _tick
  <2>1. todo'["irq"] = <<"TICK", "syserr_tick">>
    BY <1>2 DEF _tick, Begin, Shape, Contexts
  <2>2. Underway'
    BY <2>1 DEF Underway, Holds
  <2>3. /\ age' = age + 1 /\ late' = (IF rested /\ ~refused THEN late ELSE late + 1)
        /\ refused' = FALSE /\ rested' = FALSE /\ reboot' = reboot
    BY <1>2 DEF _tick, terminal
  <2> QED
    BY <2>2, <2>3 DEF Watched, Shape
<1>3. CASE Activity
  <2>1. PICK c \in {"irq", "core1"}, p \in {<<"OTHER">>, <<"TTY">>, <<"print", "connect">>,
                                          <<"print">>} : Begin(c, p)
    BY <1>3 DEF Activity
  <2>2. todo["irq"] # todo'["irq"] => todo["irq"] = <<>>
    BY <2>1 DEF Begin, Idle, Shape, Contexts
  <2>3. todo'["main"] = todo["main"]
    BY <2>1 DEF Begin, Shape, Contexts
  <2>4. Underway => Underway'
    BY <1>3, <2>2, <2>3 DEF Activity, Underway, Holds
  <2> QED
    BY <1>3, <2>4 DEF Activity, Watched, watchdog, terminal
<1>4. CASE Wait
  <2>1. ~Underway
    BY <1>4 DEF Wait, Idle, Underway, Holds
  <2> QED
    BY <1>4, <2>1 DEF Wait, Watched, terminal
<1>5. CASE dispatch
  <2>1. CASE MSG_WATCHDOG
    BY <2>1 DEF MSG_WATCHDOG, Watched
  <2>2. CASE ~MSG_WATCHDOG
    <3>1. \E m \in Messages \ {"WATCHDOG"},
             p \in {<<>>, <<"print">>, <<"LOG">>, <<"WATCHDOG", "LOG">>, <<"flush">>} :
            Handle(m, p) /\ (m = "TICK" => p = TickCalls)
      BY <1>5, <2>2 DEF dispatch, MSG_TICK, TickCalls, MSG_LOG, MSG_OTHER, MSG_TTY, sys_reboot,
                        Messages
    <3>2. UNCHANGED <<age, late, refused, rested>> /\ (reboot => reboot')
      BY <1>5, <2>2 DEF dispatch, MSG_TICK, MSG_LOG, MSG_OTHER, MSG_TTY, sys_reboot, watchdog,
                        terminal
    <3>3. /\ <<>> \in Seq(Calls) /\ <<"print">> \in Seq(Calls) /\ <<"LOG">> \in Seq(Calls)
          /\ <<"WATCHDOG", "LOG">> \in Seq(Calls) /\ <<"flush">> \in Seq(Calls)
      BY DEF Calls, Messages
    <3> QED
      BY <3>1, <3>2, <3>3, HandleWatched
  <2> QED
    BY <2>1, <2>2
<1>6. CASE Expire
  BY <1>6 DEF Expire, Watched
<1> QED
  BY <1>1, <1>2, <1>3, <1>4, <1>5, <1>6 DEF Next

-----------------------------------------------------------------------------
(***************************************************************************)
(* The log.                                                                *)
(***************************************************************************)
Place(k) == (tail + k) % RingSize

LEMMA FollowingIs ==
  ASSUME NEW s \in Slots
  PROVE  Following(s) \in Slots /\ Following(s) = IF s = RingSize - 1 THEN 0 ELSE s + 1
<1>1. CASE s = RingSize - 1
  BY <1>1 DEF Following, Slots
<1>2. CASE s # RingSize - 1
  <2>1. s + 1 \in 0 .. RingSize - 1
    BY <1>2 DEF Slots
  <2>2. (s + 1) % RingSize = s + 1
    BY <2>1
  <2> QED
    BY <1>2, <2>1, <2>2 DEF Following, Slots
<1> QED
  BY <1>1, <1>2

LEMMA DistanceIs ==
  ASSUME NEW h \in Slots, NEW t \in Slots
  PROVE  (h - t) % RingSize \in Slots
         /\ (h - t) % RingSize = IF h >= t THEN h - t ELSE h - t + RingSize
<1>1. h \in 0 .. RingSize - 1 /\ t \in 0 .. RingSize - 1 /\ RingSize \in Nat \ {0}
  BY DEF Slots
<1>2. CASE h >= t
  <2>1. h - t \in 0 .. RingSize - 1
    BY <1>1, <1>2
  <2>2. (h - t) % RingSize = h - t
    BY <2>1
  <2> QED
    BY <1>2, <2>1, <2>2 DEF Slots
<1>3. CASE h < t
  <2>1. h - t \in -RingSize .. -1 /\ h - t + RingSize \in 0 .. RingSize - 1
    BY <1>1, <1>3
  <2>2. (h - t) % RingSize = h - t + RingSize
    BY <2>1
  <2> QED
    BY <1>1, <1>3, <2>1, <2>2 DEF Slots
<1> QED
  BY <1>1, <1>2, <1>3

LEMMA SumIs ==
  ASSUME NEW t \in Slots, NEW k \in Slots
  PROVE  (t + k) % RingSize \in Slots
         /\ (t + k) % RingSize = IF t + k < RingSize THEN t + k ELSE t + k - RingSize
<1>1. t \in 0 .. RingSize - 1 /\ k \in 0 .. RingSize - 1 /\ RingSize \in Nat \ {0}
  BY DEF Slots
<1>2. CASE t + k < RingSize
  <2>1. t + k \in 0 .. RingSize - 1
    BY <1>1, <1>2
  <2>2. (t + k) % RingSize = t + k
    BY <2>1
  <2> QED
    BY <1>2, <2>1, <2>2 DEF Slots
<1>3. CASE t + k >= RingSize
  <2>1. t + k \in RingSize .. 2 * RingSize - 1 /\ t + k - RingSize \in 0 .. RingSize - 1
    BY <1>1, <1>3
  <2>2. \A x \in RingSize .. 2 * RingSize - 1 : x % RingSize = x - RingSize
    OBVIOUS
  <2>3. (t + k) % RingSize = t + k - RingSize
    BY <1>1, <2>1, <2>2
  <2> QED
    BY <1>1, <1>3, <2>1, <2>3 DEF Slots
<1> QED
  BY <1>1, <1>2, <1>3

\* The slot before h
LEMMA DistanceMinus ==
  ASSUME NEW h \in Slots
  PROVE  (h - 1) % RingSize = IF h = 0 THEN RingSize - 1 ELSE h - 1
<1>1. 1 \in Slots /\ h \in Nat
  BY DEF Slots
<1>2. (h - 1) % RingSize = IF h >= 1 THEN h - 1 ELSE h - 1 + RingSize
  BY <1>1, DistanceIs
<1> QED
  BY <1>1, <1>2

LEMMA FillIs ==
  ASSUME Shape
  PROVE  Fill \in Slots /\ Fill = IF head >= tail THEN head - tail ELSE head - tail + RingSize
<1>1. head \in Slots /\ tail \in Slots
  BY DEF Shape
<1> QED
  BY <1>1, DistanceIs DEF Fill

LEMMA FillNext ==
  ASSUME Shape'
  PROVE  Fill' \in Slots
         /\ Fill' = IF head' >= tail' THEN head' - tail' ELSE head' - tail' + RingSize
<1>1. head' \in Slots /\ tail' \in Slots
  BY DEF Shape, Slots
<1> QED
  BY <1>1, DistanceIs DEF Fill

LEMMA PlaceIs ==
  ASSUME Shape, NEW k \in Slots
  PROVE  Place(k) \in Slots /\ Place(k) = IF tail + k < RingSize THEN tail + k ELSE tail + k - RingSize
<1>1. tail \in Slots
  BY DEF Shape
<1> QED
  BY <1>1, SumIs DEF Place

LEMMA PlaceNext ==
  ASSUME Shape', NEW k \in Slots
  PROVE  /\ Place(k)' \in Slots
         /\ Place(k)' = IF tail' + k < RingSize THEN tail' + k ELSE tail' + k - RingSize
<1>1. tail' \in Slots
  BY DEF Shape, Slots
<1> QED
  BY <1>1, SumIs DEF Place

\* The log has room: the message is added behind the others.
LEMMA WriteAdds ==
  ASSUME Shape, Shape', Newest, Following(head) # tail, Advance, UNCHANGED <<tail, shown>>,
         list' = [list EXCEPT ![head] = logged + 1]
  PROVE  Newest'
<1>1. /\ head \in Slots /\ tail \in Slots /\ Fill \in Slots
      /\ Fill = IF head >= tail THEN head - tail ELSE head - tail + RingSize
      /\ Fill' = IF head' >= tail' THEN head' - tail' ELSE head' - tail' + RingSize
      /\ head' = IF head = RingSize - 1 THEN 0 ELSE head + 1
  BY FillIs, FillNext, FollowingIs DEF Shape, Advance
<1>2. Fill' = Fill + 1 /\ Fill + 1 \in Slots
  BY <1>1 DEF Advance, Slots
<1>3. \A k \in 0 .. Fill : /\ Place(k)' = Place(k) /\ Place(k) \in Slots
                           /\ Place(k) = head <=> k = Fill
  BY <1>1, PlaceIs DEF Place, Slots
<1>4. \A k \in 0 .. Fill : Entry(k)' = IF k = Fill THEN logged + 1 ELSE Entry(k)
  BY <1>3 DEF Entry, Place, Shape
<1>5. logged' = logged + 1 /\ shown' = shown /\ logged \in Nat /\ shown \in Nat
  BY DEF Advance, Shape
<1>6. CASE Fill = 0
  BY <1>2, <1>4, <1>5, <1>6 DEF Newest, Mark
<1>7. CASE Fill # 0
  <2>1. Fill \in Nat \ {0} /\ Fill' # 0 /\ Entry(0)' = Entry(0)
    BY <1>1, <1>2, <1>4, <1>7 DEF Slots
  <2>2. IF Entry(0)' = Mark THEN Fill' > 1 /\ logged' > shown' + Fill'
                            ELSE Entry(0)' = shown' + 1 /\ logged' = shown' + Fill'
    BY <1>2, <1>5, <2>1 DEF Newest
  <2>3. \A k \in 1 .. Fill' - 1 : Entry(k)' = logged' - (Fill' - 1 - k)
    BY <1>2, <1>4, <1>5, <2>1 DEF Newest
  <2> QED
    BY <2>1, <2>2, <2>3 DEF Newest
<1> QED
  BY <1>6, <1>7

\* The log is full: the mark and the message take the places of the two oldest.
LEMMA WriteReplaces ==
  ASSUME Shape, Shape', Newest, Following(head) = tail, Advance, Overwrite, shown' = shown
  PROVE  Newest'
<1>1. /\ head \in Slots /\ tail \in Slots /\ tail' \in Slots
      /\ Fill = IF head >= tail THEN head - tail ELSE head - tail + RingSize
      /\ Fill' = IF head' >= tail' THEN head' - tail' ELSE head' - tail' + RingSize
      /\ head' = tail /\ tail = IF head = RingSize - 1 THEN 0 ELSE head + 1
      /\ tail' = IF tail = RingSize - 1 THEN 0 ELSE tail + 1
  BY FillIs, FillNext, FollowingIs DEF Shape, Advance, Overwrite
<1>2. Fill = RingSize - 1 /\ Fill' = RingSize - 1 /\ RingSize - 1 >= 2
  BY <1>1 DEF Slots
<1>3. /\ \A k \in Slots : Place(k)' = IF tail' + k < RingSize THEN tail' + k ELSE tail' + k - RingSize
      /\ \A k \in Slots : Place(k) = IF tail + k < RingSize THEN tail + k ELSE tail + k - RingSize
  BY PlaceIs, PlaceNext
<1>4. \A k \in 0 .. RingSize - 2 :
        /\ Place(k)' = Place(k + 1) /\ Place(k + 1) \in Slots
        /\ Place(k + 1) # tail
        /\ Place(k + 1) = Following(tail) <=> k = 0
        /\ Place(k + 1) = head <=> k = RingSize - 2
  BY <1>1, <1>3, FollowingIs DEF Slots
<1>5. \A k \in 0 .. RingSize - 2 :
        Entry(k)' = IF k = RingSize - 2 THEN logged + 1 ELSE IF k = 0 THEN Mark ELSE Entry(k + 1)
  BY <1>2, <1>4, FollowingIs DEF Entry, Place, Shape, Overwrite
<1>6. logged' = logged + 1 /\ shown' = shown /\ logged \in Nat /\ shown \in Nat
  BY DEF Advance, Shape
<1>7. logged >= shown + RingSize - 1
  BY <1>2, <1>6 DEF Newest
<1>8. Entry(0)' = Mark
  BY <1>2, <1>5
<1>9. \A k \in 1 .. RingSize - 2 : Entry(k)' = logged' - (RingSize - 2 - k)
  BY <1>2, <1>5, <1>6 DEF Newest
<1> QED
  BY <1>2, <1>6, <1>7, <1>8, <1>9 DEF Newest

\* The log is written out up to the last message.
LEMMA EmitShows ==
  ASSUME Shape, Shape', Newest, NEW c \in Contexts, emit(c)
  PROVE  Newest'
<1>1. Fill' = 0
  BY FillNext DEF emit, Shape, Slots
<1>2. CASE tail = head
  BY <1>1, <1>2, FillIs DEF emit, Newest, Shape, Slots
<1>3. CASE tail # head
  <2>1. /\ Fill \in 1 .. RingSize - 1 /\ Fill - 1 \in Slots /\ head \in Slots /\ tail \in Slots
        /\ Fill = IF head >= tail THEN head - tail ELSE head - tail + RingSize
    <3>1. /\ Fill \in Slots /\ head \in Slots /\ tail \in Slots
          /\ Fill = IF head >= tail THEN head - tail ELSE head - tail + RingSize
      BY FillIs DEF Shape
    <3>2. Fill # 0
      BY <1>3, <3>1 DEF Slots
    <3> HIDE DEF Fill
    <3> QED
      BY <3>1, <3>2 DEF Slots
  <2>2. Place(Fill - 1) = IF head = 0 THEN RingSize - 1 ELSE head - 1
    <3>1. Place(Fill - 1) = IF tail + (Fill - 1) < RingSize THEN tail + (Fill - 1)
                            ELSE tail + (Fill - 1) - RingSize
      <4>1. \A k \in Slots : Place(k) = IF tail + k < RingSize THEN tail + k
                                        ELSE tail + k - RingSize
        BY PlaceIs
      <4> QED
        BY <2>1, <4>1
    <3>2. head \in 0 .. RingSize - 1 /\ tail \in 0 .. RingSize - 1 /\ Fill \in Nat
      BY <2>1 DEF Slots
    <3>3. CASE head >= tail
      <4>1. Fill = head - tail /\ tail + (Fill - 1) = head - 1 /\ head # 0
        BY <2>1, <3>2, <3>3
      <4> QED
        BY <3>1, <3>2, <4>1
    <3>4. CASE head < tail
      <4>1. Fill = head - tail + RingSize /\ tail + (Fill - 1) = head - 1 + RingSize
        BY <2>1, <3>2, <3>4
      <4>2. head # 0 => tail + (Fill - 1) - RingSize = head - 1
        BY <3>2, <4>1
      <4> QED
        BY <3>1, <3>2, <4>1, <4>2
    <3> QED
      BY <3>2, <3>3, <3>4
  <2>3. (head - 1) % RingSize = IF head = 0 THEN RingSize - 1 ELSE head - 1
    BY <2>1, DistanceMinus DEF Slots
  <2>4. shown' = Entry(Fill - 1)
    BY <1>3, <2>2, <2>3 DEF emit, Entry, Place
  <2>5. logged \in Nat /\ shown \in Nat
    BY DEF Shape
  <2>6. CASE Fill = 1
    <3>1. Entry(0) = shown + 1 /\ logged = shown + 1
      BY <2>6, <2>5 DEF Newest
    <3> QED
      BY <1>1, <2>4, <2>6, <3>1 DEF Newest, emit
  <2>7. CASE Fill > 1
    <3>1. Fill - 1 \in 1 .. Fill - 1
      BY <2>1, <2>7
    <3>2. Entry(Fill - 1) = logged
      BY <2>1, <2>5, <2>7, <3>1 DEF Newest
    <3> QED
      BY <1>1, <2>4, <3>2 DEF Newest, emit
  <2> QED
    BY <2>1, <2>6, <2>7
<1> QED
  BY <1>2, <1>3

LEMMA NewestKept ==
  ASSUME Shape, Shape', Newest, Next
  PROVE  Newest'
<1>1. ASSUME UNCHANGED <<list, head, tail, logged, shown>> PROVE Newest'
  BY <1>1 DEF Newest, Fill, Entry
<1>2. ASSUME NEW c \in Contexts, write(c) PROVE Newest'
  BY <1>2, WriteAdds, WriteReplaces DEF write
<1>3. ASSUME NEW c \in Contexts, emit(c) PROVE Newest'
  BY <1>3, EmitShows
<1>4. CASE Expire
  <2>1. head' = 0 /\ tail' = 0 /\ shown' = logged' /\ Fill' = 0
    BY <1>4, FillNext DEF Expire
  <2> QED
    BY <2>1 DEF Newest
<1>5. CASE _tick \/ Activity \/ Wait \/ dispatch
  BY <1>1, <1>5 DEF _tick, Activity, Wait, dispatch, MSG_TICK, MSG_LOG, MSG_WATCHDOG, MSG_OTHER,
                    MSG_TTY, sys_reboot, Handle, log
<1>6. ASSUME NEW c \in Contexts, Call(c), ~write(c), ~emit(c) PROVE Newest'
  BY <1>1, <1>6 DEF Call, push, syserr_set, return, syserr_tick, print, flush, stdout_connected,
                    log
<1> QED
  BY <1>2, <1>3, <1>4, <1>5, <1>6 DEF Next

-----------------------------------------------------------------------------
(***************************************************************************)
(* Every variable keeps its type.                                          *)
(***************************************************************************)
LEMMA CallShape ==
  ASSUME Shape, NEW c \in Contexts, ~Idle(c), NEW p \in Seq(Calls), Then(c, p)
  PROVE  todo' \in [Contexts -> Seq(Calls)]
<1>1. p \o Tail(todo[c]) \in Seq(Calls)
  BY ThenIs DEF Shape, Idle
<1> QED
  BY <1>1 DEF Then, Shape

LEMMA ShapeKept ==
  ASSUME Shape, Next
  PROVE  Shape'
<1>1. ASSUME NEW c \in Contexts, Call(c) PROVE Shape'
  <2>1. /\ ~Idle(c)
        /\ \E p \in {<<>>, <<"report">>, <<"print", "return">>, <<"write", "LOG">>, <<"LOG">>,
                     <<"emit">>, <<"print">>} : Then(c, p)
    BY <1>1 DEF Call, push, syserr_set, return, syserr_tick, print, write, flush, emit,
                stdout_connected, Calling
  <2>2. /\ <<>> \in Seq(Calls) /\ <<"report">> \in Seq(Calls)
        /\ <<"print", "return">> \in Seq(Calls) /\ <<"write", "LOG">> \in Seq(Calls)
        /\ <<"LOG">> \in Seq(Calls) /\ <<"emit">> \in Seq(Calls) /\ <<"print">> \in Seq(Calls)
    BY DEF Calls, Messages
  <2>3. todo' \in [Contexts -> Seq(Calls)]
    BY <2>1, <2>2, CallShape
  <2>4. CASE push(c)
    <3>1. queue \in Seq(Messages) /\ refused \in BOOLEAN
      BY DEF Shape
    <3>2. queue' \in Seq(Messages)
      BY <2>4, <3>1 DEF push
    <3>3. refused' \in BOOLEAN
      BY <2>4, <3>1, Zenon DEF push
    <3> QED
      BY <2>3, <2>4, <3>2, <3>3 DEF push, Shape, log, terminal, errors
  <2>5. CASE syserr_set(c) \/ syserr_tick(c)
    <3>1. (counter + 1) % Count \in Nat
      BY DEF Shape
    <3> QED
      BY <2>3, <2>5, <3>1 DEF syserr_set, syserr_tick, Shape, log, terminal, watchdog
  <2>6. CASE write(c)
    <3>1. Following(head) \in Slots /\ Following(tail) \in Slots
      BY FollowingIs DEF Shape
    <3>2. list' \in [Slots -> Nat] /\ logged' \in Nat
      BY <2>6 DEF write, Advance, Overwrite, Shape, Mark
    <3>3. head' \in Slots /\ tail' \in Slots
      BY <2>6, <3>1 DEF write, Advance, Overwrite, Shape
    <3>4. UNCHANGED <<queue, shown, counter, timer, age, late, refused, rested, reboot>>
      BY <2>6 DEF write, terminal, errors, watchdog
    <3> QED
      BY <2>3, <3>2, <3>3, <3>4 DEF Shape
  <2>7. CASE emit(c)
    <3>1. (head - 1) % RingSize \in Slots
      <4>1. 1 \in Slots /\ head \in Slots
        BY DEF Slots, Shape
      <4> QED
        BY <4>1, DistanceIs
    <3> QED
      BY <2>3, <2>7, <3>1 DEF emit, Shape, terminal, errors, watchdog
  <2>8. CASE return(c) \/ print(c) \/ flush(c) \/ stdout_connected(c)
    BY <2>3, <2>8 DEF return, print, flush, stdout_connected, Shape, log, terminal, errors, watchdog
  <2> QED
    BY <1>1, <2>4, <2>5, <2>6, <2>7, <2>8 DEF Call
<1>2. CASE _tick
  <2>1. <<"TICK", "syserr_tick">> \in Seq(Calls)
    BY DEF Calls, Messages
  <2> QED
    <3>1. todo' \in [Contexts -> Seq(Calls)]
      BY <1>2, <2>1 DEF _tick, Begin, Shape
    <3>2. age' \in Nat /\ late' \in Nat
      BY <1>2 DEF _tick, Shape
    <3>3. /\ UNCHANGED <<queue, list, head, tail, logged, shown, counter, timer, reboot>>
          /\ refused' = FALSE /\ rested' = FALSE
      BY <1>2 DEF _tick, log, terminal, errors
    <3> QED
      BY <3>1, <3>2, <3>3 DEF Shape
<1>3. CASE Activity
  <2>1. /\ <<"OTHER">> \in Seq(Calls) /\ <<"TTY">> \in Seq(Calls)
        /\ <<"print", "connect">> \in Seq(Calls) /\ <<"print">> \in Seq(Calls)
    BY DEF Calls, Messages
  <2>2. todo' \in [Contexts -> Seq(Calls)]
    BY <1>3, <2>1 DEF Activity, Begin, Shape
  <2> QED
    BY <1>3, <2>2 DEF Activity, Shape, log, terminal, errors, watchdog
<1>4. CASE Wait
  BY <1>4 DEF Wait, Shape, log, terminal, errors
<1>5. CASE dispatch
  <2>1. /\ queue # <<>> /\ queue' = Tail(queue)
        /\ \E p \in {<<>>, <<"print">>, <<"LOG">>, <<"WATCHDOG", "LOG">>, <<"flush">>} :
             todo' = [todo EXCEPT !["main"] = p]
        /\ UNCHANGED <<log, errors>>
    BY <1>5 DEF dispatch, MSG_TICK, TickCalls, MSG_LOG, MSG_WATCHDOG, MSG_OTHER, MSG_TTY,
                sys_reboot, Handle, Begin
  <2>2. /\ <<>> \in Seq(Calls) /\ <<"print">> \in Seq(Calls) /\ <<"LOG">> \in Seq(Calls)
        /\ <<"WATCHDOG", "LOG">> \in Seq(Calls) /\ <<"flush">> \in Seq(Calls)
    BY DEF Calls, Messages
  <2>3. queue' \in Seq(Messages) /\ todo' \in [Contexts -> Seq(Calls)]
    <3>1. queue \in Seq(Messages) /\ todo \in [Contexts -> Seq(Calls)]
      BY DEF Shape
    <3>2. Tail(queue) \in Seq(Messages)
      BY <2>1, <3>1
    <3> QED
      BY <2>1, <2>2, <3>1, <3>2
  <2>4. /\ age' \in Nat /\ late' \in Nat /\ refused' \in BOOLEAN /\ rested' \in BOOLEAN
        /\ reboot' \in BOOLEAN
    <3>1. /\ age' \in {age, 0} /\ late' \in {late, 0}
          /\ UNCHANGED <<refused, rested>> /\ (reboot' = reboot \/ reboot' = TRUE)
      BY <1>5 DEF dispatch, MSG_TICK, MSG_LOG, MSG_WATCHDOG, MSG_OTHER, MSG_TTY, sys_reboot,
                  terminal, watchdog
    <3>2. age \in Nat /\ late \in Nat /\ refused \in BOOLEAN /\ rested \in BOOLEAN /\ reboot \in BOOLEAN
      BY DEF Shape
    <3>3. reboot' \in BOOLEAN
      BY <3>1, <3>2, Zenon
    <3> QED
      BY <3>1, <3>2, <3>3
  <2> QED
    BY <2>1, <2>3, <2>4 DEF Shape, log, errors
<1>6. CASE Expire
  <2>1. <<"print", "OTHER">> \in Seq(Calls) /\ <<>> \in Seq(Calls) /\ <<>> \in Seq(Messages)
        /\ 0 \in Slots
    BY DEF Calls, Messages, Slots
  <2> QED
    BY <1>6, <2>1 DEF Expire, Start, Shape, Mark
<1> QED
  BY <1>1, <1>2, <1>3, <1>4, <1>5, <1>6 DEF Next

-----------------------------------------------------------------------------
(***************************************************************************)
(* The theorems.                                                           *)
(***************************************************************************)
LEMMA InitIInv == Init => IInv
<1> SUFFICES ASSUME Init PROVE IInv
  OBVIOUS
<1>1. Shape
  <2>1. <<"print", "OTHER">> \in Seq(Calls) /\ <<>> \in Seq(Calls) /\ <<>> \in Seq(Messages)
        /\ 0 \in Slots
    BY DEF Calls, Messages, Slots
  <2> QED
    BY <2>1 DEF Init, Start, Shape, Mark
<1>2. Reported
  <2>1. /\ todo = [c \in Contexts |-> IF c = "main" THEN <<"print", "OTHER">> ELSE <<>>]
        /\ <<"print", "OTHER">> \in Seq(Plain) /\ <<>> \in Seq(Plain) /\ counter = 0
    BY DEF Init, Start, Plain, Calls, Messages
  <2>2. \A c \in Contexts : Framed(todo[c]) /\ ~Reports(todo[c]) /\ ~Within(todo[c])
    BY <2>1, PlainBegins
  <2>3. \A c \in Contexts : Pending(c) = 0
    BY <2>2 DEF Pending
  <2>4. counter + Pending("main") + Pending("irq") + Pending("core1") <= 3
    BY <2>1, <2>3 DEF Contexts
  <2> QED
    BY <2>2, <2>4 DEF Reported
<1>3. Watched
  BY DEF Init, Watched
<1>4. Newest
  BY <1>1, FillIs DEF Init, Newest
<1> QED
  BY <1>1, <1>2, <1>3, <1>4 DEF IInv

\* The run loop keeps the invariant, whatever the interrupts and core 1 do to its
\* queues and whenever the watchdog resets the board.
THEOREM SysInvariance == Spec => []IInv
<1>1. ASSUME IInv, Next PROVE IInv'
  BY <1>1, ShapeKept, ReportedKept, WatchedKept, NewestKept DEF IInv
<1>2. IInv /\ UNCHANGED vars => IInv'
  BY DEF IInv, vars, log, terminal, errors, watchdog, Shape, Reported, Pending, Watched, Underway,
         Newest, Fill, Entry
<1>3. IInv /\ [Next]_vars => IInv'
  BY <1>1, <1>2
<1> QED
  BY <1>3, InitIInv, PTL DEF Spec

\* The log of sys.c loses no message without a mark and mixes up none.
THEOREM LogInOrder == Spec => []InOrder
<1>1. IInv => InOrder
  <2> SUFFICES ASSUME Shape, Newest, Fill # 0 PROVE InOrder
    BY DEF IInv, InOrder, Newest
  <2>1. Fill \in Nat \ {0} /\ logged \in Nat /\ shown \in Nat
    BY FillIs DEF Slots, Shape
  <2>2. ASSUME Entry(0) = Mark PROVE Fill > 1 /\ Entry(1) > shown + 2
    <3>1. Fill > 1 /\ logged > shown + Fill
      BY <2>2 DEF Newest
    <3>2. 1 \in 1 .. Fill - 1
      BY <2>1, <3>1
    <3>3. Entry(1) = logged - (Fill - 2)
      BY <2>1, <3>2 DEF Newest
    <3> QED
      BY <2>1, <3>1, <3>3
  <2> QED
    BY <2>2 DEF InOrder, Newest
<1> QED
  BY <1>1, SysInvariance, PTL

\* syserr_set's counter and timer keep a full queue's error from being reported
\* within its own report.
THEOREM ReportEnds == Spec => []ErrorPathEnds
<1>1. IInv => ErrorPathEnds
  BY DEF IInv, Reported, Framed, ErrorPathEnds
<1> QED
  BY <1>1, SysInvariance, PTL

\* A system that keeps up with its queue feeds the watchdog, for any timeout.
THEOREM WatchdogFed == Spec => []Fed
<1>1. IInv => Fed
  BY DEF IInv, Watched, Fed
<1> QED
  BY <1>1, SysInvariance, PTL
================================================================================
