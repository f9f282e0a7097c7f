-------------------------- MODULE MailboxSafeProofs --------------------------
(***************************************************************************)
(* For any threads, pollers and number of messages: a thread that sleeps   *)
(* on the condition variable misses nothing, who waits for its signaler is *)
(* signalled when there is something to do, and a socket that is gone has  *)
(* nobody inside it.  Liveness (CallsReturn) is left to TLC.               *)
(***************************************************************************)
EXTENDS MailboxSafe, TLAPS

(* The kinds of threads have no member in common. *)
LEMMA Distinct ==
  /\ "peer" \notin Readers /\ "ctx" \notin Readers /\ "reaper" \notin Users
  /\ "nobody" \notin Readers /\ "nobody" \notin Senders
  /\ Users \subseteq Readers /\ Threads \subseteq Users /\ Pollers \subseteq Users
  /\ Senders \cap Readers = {} /\ Threads \cap Pollers = {}
BY MailboxSafeAssumption DEF Users, Readers, Senders

(* What mailbox_safe_t::send does to the places and to the commands. *)
LEMMA PostedOne ==
  ASSUME Shape, NEW s \in Senders, Posted(s)
  PROVE  /\ pc[s] = "sending" /\ sync = Nobody
         /\ passive' = FALSE
         /\ sync' = IF passive THEN s ELSE sync
         /\ pc' \in [Readers \cup Senders -> Places]
         /\ \A x \in Senders : pc'[x] = IF x # s THEN pc[x] ELSE IF passive THEN "signalling" ELSE "idle"
         /\ \A t \in Readers : pc'[t] = IF passive /\ pc[t] = "asleep" THEN "notified" ELSE pc[t]
         /\ cmds' \in Seq(Commands)
         /\ DOMAIN cmds' = DOMAIN cmds \cup {Len(cmds) + 1} /\ Len(cmds) + 1 \notin DOMAIN cmds
         /\ \A i \in DOMAIN cmds : cmds'[i] = cmds[i]
         /\ cmds'[Len(cmds) + 1] = cmd[s]
<1>1. cmds \in Seq(Commands) /\ cmd[s] \in Commands /\ cmds' = Append(cmds, cmd[s])
  BY DEF Shape, Posted, Post
<1>2. /\ cmds' \in Seq(Commands)
      /\ DOMAIN cmds' = DOMAIN cmds \cup {Len(cmds) + 1} /\ Len(cmds) + 1 \notin DOMAIN cmds
      /\ \A i \in DOMAIN cmds : cmds'[i] = cmds[i]
      /\ cmds'[Len(cmds) + 1] = cmd[s]
  BY <1>1
<1>3. /\ pc[s] = "sending" /\ sync = Nobody
      /\ passive' = FALSE
      /\ sync' = IF passive THEN s ELSE sync
      /\ pc' = IF passive THEN [Broadcast(pc) EXCEPT ![s] = "signalling"] ELSE [pc EXCEPT ![s] = "idle"]
  BY DEF Posted, Post
<1>4. Broadcast(pc) \in [Readers \cup Senders -> Places]
  BY DEF Shape, Broadcast, Places
<1>5. pc' \in [Readers \cup Senders -> Places]
  BY <1>3, <1>4 DEF Shape, Places
<1>6. /\ \A x \in Senders : pc'[x] = IF x # s THEN pc[x] ELSE IF passive THEN "signalling" ELSE "idle"
      /\ \A t \in Readers : pc'[t] = IF passive /\ pc[t] = "asleep" THEN "notified" ELSE pc[t]
  BY <1>3, Distinct DEF Broadcast, Shape
<1> QED
  BY <1>2, <1>3, <1>5, <1>6

(* The command that process_commands takes. *)
LEMMA FetchedOne ==
  ASSUME Shape, NEW t \in Readers, Process(t)
  PROVE  /\ cmds' \in Seq(Commands) /\ 1 \in DOMAIN cmds
         /\ DOMAIN cmds' = 1 .. Len(cmds) - 1 /\ DOMAIN cmds = 1 .. Len(cmds) /\ Len(cmds) \in Nat
         /\ \A i \in DOMAIN cmds' : i \in Nat /\ i + 1 \in DOMAIN cmds /\ i + 1 # 1 /\ cmds'[i] = cmds[i + 1]
         /\ \A i \in DOMAIN cmds : i # 1 => i - 1 \in DOMAIN cmds' /\ cmds'[i - 1] = cmds[i]
         /\ Head(cmds) = cmds[1]
<1>1. cmds \in Seq(Commands) /\ cmds # <<>> /\ cmds' = Tail(cmds)
  BY DEF Shape, Process
<1> QED
  BY <1>1
-----------------------------------------------------------------------------
(* The shape of the state is kept. *)
LEMMA ShapeStep == ASSUME IInv, [Next]_vars PROVE Shape'
<1> USE Distinct DEF IInv, Shape, Places, Commands, Senders, Nobody, outside, call, pipe,
        waking, data
<1>1. ASSUME Write \/ End \/ Stop
      PROVE  pc' \in [Readers \cup Senders -> Places]
  BY <1>1 DEF Write, End, Stop
<1>2. ASSUME NEW s \in Senders, Posted(s)
      PROVE  pc' \in [Readers \cup Senders -> Places]
  BY PostedOne, <1>2 DEF Posted
<1>3. ASSUME NEW s \in Senders, Signal(s)
      PROVE  pc' \in [Readers \cup Senders -> Places]
  BY <1>3 DEF Signal
<1>4. ASSUME NEW t \in Readers, Process(t)
      PROVE  pc' \in [Readers \cup Senders -> Places]
  BY <1>4 DEF Process, At
<1>5. ASSUME NEW t \in Readers, Slept(t) \/ Missed(t)
      PROVE  pc' \in [Readers \cup Senders -> Places]
  BY <1>5 DEF Slept, Missed, Wait, Unlock, At
<1>6. ASSUME NEW t \in Readers, Wake(t) \/ Spurious(t) \/ TimeOut(t)
      PROVE  pc' \in [Readers \cup Senders -> Places]
  BY <1>6 DEF Wake, Spurious, TimeOut, At
<1>7. ASSUME NEW t \in Threads, SendCall(t) \/ Sent(t)
      PROVE  pc' \in [Readers \cup Senders -> Places]
  BY <1>7 DEF SendCall, Sent, Return, Unlock, At
<1>8. ASSUME NEW t \in Threads, NEW k \in {"recv", "timed", "dontwait"},
            Recv(t, k)
      PROVE  pc' \in [Readers \cup Senders -> Places]
  BY <1>8 DEF Recv, At
<1>9. ASSUME NEW t \in Threads, Take(t)
      PROVE  pc' \in [Readers \cup Senders -> Places]
  BY <1>9 DEF Take, Available, Return, Unlock, At
<1>10. ASSUME NEW t \in Threads, TakeNothing(t)
      PROVE  pc' \in [Readers \cup Senders -> Places]
  BY <1>10 DEF TakeNothing, Deactivate, Return, Unlock, At
<1>11. ASSUME NEW t \in Threads, Tell(t) \/ Again(t)
      PROVE  pc' \in [Readers \cup Senders -> Places]
  BY <1>11 DEF Tell, Again, Return, Unlock, At
<1>12. ASSUME NEW p \in Pollers, NextPass(p) \/ FirstPass(p) \/ Events(p)
      PROVE  pc' \in [Readers \cup Senders -> Places]
  BY <1>12 DEF NextPass, FirstPass, Polled, Events, At
<1>13. ASSUME NEW p \in Pollers, HasIn(p)
      PROVE  pc' \in [Readers \cup Senders -> Places]
  BY <1>13 DEF HasIn, Deactivate, Unlock, At
<1>14. ASSUME NEW p \in Pollers, add_signaler(p) \/ remove_signaler(p)
      PROVE  pc' \in [Readers \cup Senders -> Places]
  BY <1>14 DEF add_signaler, remove_signaler
<1>15. ASSUME close \/ start_reaping
      PROVE  pc' \in [Readers \cup Senders -> Places]
  BY <1>15 DEF close, start_reaping
<1>16. ASSUME in_event
      PROVE  pc' \in [Readers \cup Senders -> Places]
  BY <1>16 DEF in_event, At, Readers
<1>17. ASSUME Checked \/ check_destroy
      PROVE  pc' \in [Readers \cup Senders -> Places]
  BY <1>17 DEF Checked, check_destroy, Unlock, At, Readers
<1>18. CASE UNCHANGED vars
  BY <1>18 DEF vars
<1>19. pc' \in [Readers \cup Senders -> Places]
  BY ONLY [Next]_vars, <1>1, <1>2, <1>3, <1>4, <1>5, <1>6, <1>7, <1>8,
     <1>9, <1>10, <1>11, <1>12, <1>13, <1>14, <1>15, <1>16, <1>17, <1>18 DEF
     Next, Send, Reading, Calling, Polling, Reaping
<1>20. limit' \in [Readers -> {"zero", "some"}]
  BY SMTT(30) DEF vars, Next, Write, End, Stop, Send, Posted, Signal, Reading,
     Process, Slept, Wait, Wake, Missed, Spurious, TimeOut, Calling, Take,
     TakeNothing, Tell, Again, Sent, SendCall, Recv, Deactivate, Return,
     Unlock, At, Polling, NextPass, FirstPass, Polled, Events, HasIn,
     add_signaler, remove_signaler, close, Reaping, start_reaping, in_event,
     Checked, check_destroy
<1>21. cmd' \in [Senders -> Commands]
  BY SMTT(30) DEF vars, Next, Write, End, Stop, Send, Posted, Signal, Reading,
     Process, Slept, Wait, Wake, Missed, Spurious, TimeOut, Calling, Take,
     TakeNothing, Tell, Again, Sent, SendCall, Recv, Deactivate, Return,
     Unlock, At, Polling, NextPass, FirstPass, Polled, Events, HasIn,
     add_signaler, remove_signaler, close, Reaping, start_reaping, in_event,
     Checked, check_destroy
<1>22. inbox' \in Nat
  BY SMTT(30) DEF vars, Next, Write, End, Stop, Send, Posted, Signal, Reading,
     Process, Slept, Wait, Wake, Missed, Spurious, TimeOut, Calling, Take,
     TakeNothing, Tell, Again, Sent, SendCall, Recv, Deactivate, Return,
     Unlock, At, Polling, NextPass, FirstPass, Polled, Events, HasIn,
     add_signaler, remove_signaler, close, Reaping, start_reaping, in_event,
     Checked, check_destroy, Available
<1>23. cmds' \in Seq(Commands)
  <2>1. CASE \E s \in Senders : Posted(s)
    BY <2>1, PostedOne
  <2>2. CASE \E t \in Readers : Process(t)
    BY <2>2, FetchedOne
  <2>3. CASE ~(\E s \in Senders : Posted(s)) /\ ~(\E t \in Readers : Process(t))
    BY <2>3 DEF vars, Next, Write, End, Stop, Send, Signal, Reading, Slept,
       Wait, Wake, Missed, Spurious, TimeOut, Calling, Take, TakeNothing, Tell,
       Again, Sent, SendCall, Recv, Deactivate, Return, Unlock, At, Polling,
       NextPass, FirstPass, Polled, Events, HasIn, add_signaler,
       remove_signaler, close, Reaping, start_reaping, in_event, Checked,
       check_destroy
  <2> QED
    BY <2>1, <2>2, <2>3
<1> QED
  BY ONLY <1>19, <1>20, <1>21, <1>22, <1>23 DEF Shape
-----------------------------------------------------------------------------
(* A sender that finds the reader asleep keeps the mutex. *)
LEMMA PostedMutex ==
  ASSUME Shape, Mutex, NEW s \in Senders, Posted(s)
  PROVE  Mutex'
<1>1. /\ sync = Nobody /\ sync' = IF passive THEN s ELSE sync
      /\ \A x \in Senders : pc'[x] = IF x # s THEN pc[x] ELSE IF passive THEN "signalling" ELSE "idle"
      /\ \A t \in Readers : pc'[t] = IF passive /\ pc[t] = "asleep" THEN "notified" ELSE pc[t]
  BY PostedOne
<1>2. /\ \A t \in Readers : t # Nobody /\ t # s
      /\ \A x \in Senders : x # Nobody
  BY Distinct DEF Nobody
<1>3. \A t \in Readers : pc[t] \notin Inside /\ pc[t] \notin {"sending", "signalling"}
  BY <1>1, <1>2 DEF Mutex
<1>4. /\ \A t \in Readers : pc'[t] \in Inside <=> sync' = t
      /\ \A t \in Readers : pc'[t] \notin {"sending", "signalling"}
  BY <1>1, <1>2, <1>3 DEF Inside
<1>5. \A x \in Senders : pc'[x] = "signalling" <=> sync' = x
  BY <1>1, <1>2 DEF Mutex
<1>6. \A x \in Senders : pc'[x] \in {"idle", "sending", "signalling"}
  BY <1>1 DEF Mutex
<1>7. ~stopped' => pc'["ctx"] = "idle"
  BY PostedOne DEF Mutex, Posted, outside, Senders
<1> QED
  BY <1>4, <1>5, <1>6, <1>7, Zenon DEF Mutex

(* Who is inside the mutex holds it. *)
LEMMA MutexStep == ASSUME IInv, [Next]_vars PROVE Mutex'
<1> USE Distinct DEF IInv, Shape, Mutex, Inside, Senders, Nobody,
        outside, call, pipe, waking, data
<1>1. ASSUME Write \/ End \/ Stop
      PROVE  Mutex'
  BY <1>1 DEF Write, End, Stop
<1>2. ASSUME NEW s \in Senders, Posted(s)
      PROVE  Mutex'
  BY <1>2, PostedMutex
<1>3. ASSUME NEW s \in Senders, Signal(s)
      PROVE  Mutex'
  BY <1>3 DEF Signal
<1>4. ASSUME NEW t \in Readers, Process(t)
      PROVE  Mutex'
  BY <1>4 DEF Process, At
<1>5. ASSUME NEW t \in Readers, Slept(t) \/ Missed(t)
      PROVE  Mutex'
  BY <1>5 DEF Slept, Missed, Wait, Unlock, At
<1>6. ASSUME NEW t \in Readers, Wake(t) \/ Spurious(t) \/ TimeOut(t)
      PROVE  Mutex'
  BY <1>6 DEF Wake, Spurious, TimeOut, At
<1>7. ASSUME NEW t \in Threads, SendCall(t) \/ Sent(t)
      PROVE  Mutex'
  BY <1>7 DEF SendCall, Sent, Return, Unlock, At
<1>8. ASSUME NEW t \in Threads, NEW k \in {"recv", "timed", "dontwait"},
            Recv(t, k)
      PROVE  Mutex'
  BY <1>8 DEF Recv, At
<1>9. ASSUME NEW t \in Threads, Take(t)
      PROVE  Mutex'
  BY <1>9 DEF Take, Available, Return, Unlock, At
<1>10. ASSUME NEW t \in Threads, TakeNothing(t)
      PROVE  Mutex'
  BY <1>10 DEF TakeNothing, Deactivate, Return, Unlock, At
<1>11. ASSUME NEW t \in Threads, Tell(t) \/ Again(t)
      PROVE  Mutex'
  BY <1>11 DEF Tell, Again, Return, Unlock, At
<1>12. ASSUME NEW p \in Pollers, NextPass(p) \/ FirstPass(p) \/ Events(p)
      PROVE  Mutex'
  BY <1>12 DEF NextPass, FirstPass, Polled, Events, At
<1>13. ASSUME NEW p \in Pollers, HasIn(p)
      PROVE  Mutex'
  BY SMTT(30), <1>13 DEF HasIn, Deactivate, Unlock, At
<1>14. ASSUME NEW p \in Pollers, add_signaler(p) \/ remove_signaler(p)
      PROVE  Mutex'
  BY <1>14 DEF add_signaler, remove_signaler
<1>15. ASSUME close \/ start_reaping
      PROVE  Mutex'
  BY <1>15 DEF close, start_reaping
<1>16. ASSUME in_event
      PROVE  Mutex'
  BY <1>16 DEF in_event, At, Readers
<1>17. ASSUME Checked \/ check_destroy
      PROVE  Mutex'
  BY <1>17 DEF Checked, check_destroy, Unlock, At, Readers
<1>18. CASE UNCHANGED vars
  BY <1>18 DEF vars
<1> QED
  BY ONLY [Next]_vars, <1>1, <1>2, <1>3, <1>4, <1>5, <1>6, <1>7, <1>8,
     <1>9, <1>10, <1>11, <1>12, <1>13, <1>14, <1>15, <1>16, <1>17, <1>18 DEF
     Next, Send, Reading, Calling, Polling, Reaping
-----------------------------------------------------------------------------
(* Nobody goes to sleep, or stays asleep, while a command is unread. *)
LEMMA AsleepStep == ASSUME IInv, [Next]_vars PROVE Asleep'
<1> USE Distinct DEF IInv, Shape, Mutex, Asleep, Senders, Nobody,
        outside, call, pipe, waking, data
<1>1. ASSUME Write \/ End \/ Stop
      PROVE  Asleep'
  BY <1>1 DEF Write, End, Stop
<1>2. ASSUME NEW s \in Senders, Posted(s)
      PROVE  Asleep'
  BY ZenonT(40), <1>2, PostedOne DEF Posted
<1>3. ASSUME NEW s \in Senders, Signal(s)
      PROVE  Asleep'
  BY <1>3 DEF Signal
<1>4. ASSUME NEW t \in Readers, Process(t)
      PROVE  Asleep'
  BY <1>4 DEF Process, At
<1>5. ASSUME NEW t \in Readers, Slept(t) \/ Missed(t)
      PROVE  Asleep'
  BY <1>5 DEF Slept, Missed, Wait, Unlock, At
<1>6. ASSUME NEW t \in Readers, Wake(t) \/ Spurious(t) \/ TimeOut(t)
      PROVE  Asleep'
  BY <1>6 DEF Wake, Spurious, TimeOut, At
<1>7. ASSUME NEW t \in Threads, SendCall(t) \/ Sent(t)
      PROVE  Asleep'
  BY <1>7 DEF SendCall, Sent, Return, Unlock, At
<1>8. ASSUME NEW t \in Threads, NEW k \in {"recv", "timed", "dontwait"},
            Recv(t, k)
      PROVE  Asleep'
  BY <1>8 DEF Recv, At
<1>9. ASSUME NEW t \in Threads, Take(t)
      PROVE  Asleep'
  BY <1>9 DEF Take, Available, Return, Unlock, At
<1>10. ASSUME NEW t \in Threads, TakeNothing(t)
      PROVE  Asleep'
  BY <1>10 DEF TakeNothing, Deactivate, Return, Unlock, At
<1>11. ASSUME NEW t \in Threads, Tell(t) \/ Again(t)
      PROVE  Asleep'
  BY <1>11 DEF Tell, Again, Return, Unlock, At
<1>12. ASSUME NEW p \in Pollers, NextPass(p) \/ FirstPass(p) \/ Events(p)
      PROVE  Asleep'
  BY <1>12 DEF NextPass, FirstPass, Polled, Events, At
<1>13. ASSUME NEW p \in Pollers, HasIn(p)
      PROVE  Asleep'
  BY <1>13 DEF HasIn, Deactivate, Unlock, At
<1>14. ASSUME NEW p \in Pollers, add_signaler(p) \/ remove_signaler(p)
      PROVE  Asleep'
  BY <1>14 DEF add_signaler, remove_signaler
<1>15. ASSUME close \/ start_reaping
      PROVE  Asleep'
  BY <1>15 DEF close, start_reaping
<1>16. ASSUME in_event
      PROVE  Asleep'
  BY <1>16 DEF in_event, At, Readers
<1>17. ASSUME Checked \/ check_destroy
      PROVE  Asleep'
  BY <1>17 DEF Checked, check_destroy, Unlock, At, Readers
<1>18. CASE UNCHANGED vars
  BY <1>18 DEF vars
<1> QED
  BY ONLY [Next]_vars, <1>1, <1>2, <1>3, <1>4, <1>5, <1>6, <1>7, <1>8,
     <1>9, <1>10, <1>11, <1>12, <1>13, <1>14, <1>15, <1>16, <1>17, <1>18 DEF
     Next, Send, Reading, Calling, Polling, Reaping
-----------------------------------------------------------------------------
(* Whoever is woken has been asleep. *)
LEMMA PostedLooked ==
  ASSUME Shape, Looked, NEW s \in Senders, Posted(s)
  PROVE  Looked'
<1>1. UNCHANGED <<limit, terminated, in_active>>
  BY DEF Posted, call, data
<1>2. \A t \in Readers : pc'[t] = IF passive /\ pc[t] = "asleep" THEN "notified" ELSE pc[t]
  BY PostedOne
<1>3. \A t \in Readers : pc'[t] = pc[t] \/ pc'[t] = "notified"
  BY <1>2
<1> QED
  BY <1>1, <1>3 DEF Looked

(* A call that may wait has looked for a message and for the termination. *)
LEMMA LookedStep == ASSUME IInv, [Next]_vars PROVE Looked'
<1> USE Distinct DEF IInv, Shape, Mutex, Inside, Asleep, Looked,
        Senders, Nobody, outside, call, pipe, waking, data
<1>1. ASSUME Write \/ End \/ Stop
      PROVE  Looked'
  BY <1>1 DEF Write, End, Stop
<1>2. ASSUME NEW s \in Senders, Posted(s)
      PROVE  Looked'
  BY <1>2, PostedLooked
<1>3. ASSUME NEW s \in Senders, Signal(s)
      PROVE  Looked'
  BY <1>3 DEF Signal
<1>4. ASSUME NEW t \in Readers, Process(t)
      PROVE  Looked'
  BY <1>4 DEF Process, At
<1>5. ASSUME NEW t \in Readers, Slept(t) \/ Missed(t)
      PROVE  Looked'
  BY <1>5 DEF Slept, Missed, Wait, Unlock, At
<1>6. ASSUME NEW t \in Readers, Wake(t) \/ Spurious(t) \/ TimeOut(t)
      PROVE  Looked'
  BY <1>6 DEF Wake, Spurious, TimeOut, At
<1>7. ASSUME NEW t \in Threads, SendCall(t) \/ Sent(t)
      PROVE  Looked'
  BY <1>7 DEF SendCall, Sent, Return, Unlock, At
<1>8. ASSUME NEW t \in Threads, NEW k \in {"recv", "timed", "dontwait"},
            Recv(t, k)
      PROVE  Looked'
  BY <1>8 DEF Recv, At
<1>9. ASSUME NEW t \in Threads, Take(t)
      PROVE  Looked'
  BY <1>9 DEF Take, Available, Return, Unlock, At
<1>10. ASSUME NEW t \in Threads, TakeNothing(t)
      PROVE  Looked'
  BY <1>10 DEF TakeNothing, Deactivate, Return, Unlock, At
<1>11. ASSUME NEW t \in Threads, Tell(t) \/ Again(t)
      PROVE  Looked'
  BY <1>11 DEF Tell, Again, Return, Unlock, At
<1>12. ASSUME NEW p \in Pollers, NextPass(p) \/ FirstPass(p) \/ Events(p)
      PROVE  Looked'
  BY <1>12 DEF NextPass, FirstPass, Polled, Events, At
<1>13. ASSUME NEW p \in Pollers, HasIn(p)
      PROVE  Looked'
  BY <1>13 DEF HasIn, Deactivate, Unlock, At
<1>14. ASSUME NEW p \in Pollers, add_signaler(p) \/ remove_signaler(p)
      PROVE  Looked'
  BY <1>14 DEF add_signaler, remove_signaler
<1>15. ASSUME close \/ start_reaping
      PROVE  Looked'
  BY <1>15 DEF close, start_reaping
<1>16. ASSUME in_event
      PROVE  Looked'
  BY <1>16 DEF in_event, At, Readers
<1>17. ASSUME Checked \/ check_destroy
      PROVE  Looked'
  BY <1>17 DEF Checked, check_destroy, Unlock, At, Readers
<1>18. CASE UNCHANGED vars
  BY <1>18 DEF vars
<1> QED
  BY ONLY [Next]_vars, <1>1, <1>2, <1>3, <1>4, <1>5, <1>6, <1>7, <1>8,
     <1>9, <1>10, <1>11, <1>12, <1>13, <1>14, <1>15, <1>16, <1>17, <1>18 DEF
     Next, Send, Reading, Calling, Polling, Reaping
-----------------------------------------------------------------------------
(* Neither the pipe nor a command about it is touched. *)
LEMMA SameActivation ==
  ASSUME Activation, UNCHANGED <<data, cmds, cmd>>, pc'["peer"] = pc["peer"]
  PROVE  Activation'
BY DEF Activation, Telling, OnItsWay, data

(* A failed read takes the pipe out of the active ones. *)
LEMMA DeactivateOne ==
  ASSUME Activation, Deactivate, ~Available, inbox \in Nat,
         UNCHANGED <<cmds, cmd>>, pc'["peer"] = pc["peer"]
  PROVE  Activation'
<1>1. (Telling' <=> Telling) /\ (OnItsWay' <=> OnItsWay)
  BY DEF Telling, OnItsWay
<1>2. ~in_active' /\ (rpassive' <=> rpassive \/ in_active) /\ inbox' = inbox
  BY DEF Deactivate
<1>3. in_active => inbox = 0
  BY DEF Available
<1>4. rpassive' \/ Telling' \/ OnItsWay'
  BY <1>1, <1>2 DEF Activation
<1>5. /\ Telling \/ OnItsWay => ~in_active /\ ~rpassive
      /\ rpassive => inbox = 0
      /\ Telling => ~OnItsWay
  BY DEF Activation
<1>6. \A i, j \in DOMAIN cmds' : cmds'[i] = "activate_read" /\ cmds'[j] = "activate_read" => i = j
  BY DEF Activation
<1> QED
  BY <1>1, <1>2, <1>3, <1>4, <1>5, <1>6 DEF Activation

(* The activation leaves its sender for the mailbox. *)
LEMMA PostedActivation ==
  ASSUME Shape, Activation, LastCommand, NEW s \in Senders, Posted(s)
  PROVE  Activation'
<1>0. /\ DOMAIN cmds' = DOMAIN cmds \cup {Len(cmds) + 1} /\ Len(cmds) + 1 \notin DOMAIN cmds
      /\ \A i \in DOMAIN cmds : cmds'[i] = cmds[i]
      /\ cmds'[Len(cmds) + 1] = cmd[s]
      /\ \A x \in Senders : pc'[x] = IF x # s THEN pc[x] ELSE IF passive THEN "signalling" ELSE "idle"
      /\ pc[s] = "sending"
  BY PostedOne
<1>1. UNCHANGED <<rpassive, inbox, in_active>> /\ UNCHANGED cmd
  BY DEF Posted, data
<1>2. CASE cmd[s] = "activate_read"
  <2>1. s = "peer" /\ Telling /\ ~Telling' /\ ~OnItsWay
    BY <1>0, <1>2 DEF Senders, LastCommand, Telling, Activation
  <2>2. OnItsWay' /\ (\A i \in DOMAIN cmds' : cmds'[i] = "activate_read" => i = Len(cmds) + 1)
    BY <1>0, <1>2, <2>1 DEF OnItsWay
  <2> QED
    BY <1>1, <2>1, <2>2 DEF Activation
<1>3. CASE cmd[s] # "activate_read"
  <2>1. OnItsWay' <=> OnItsWay
    BY <1>0, <1>3 DEF OnItsWay
  <2>2. Telling' <=> Telling
    BY <1>0, <1>1, <1>3 DEF Senders, Telling
  <2>3. \A i \in DOMAIN cmds' : cmds'[i] = "activate_read" => i \in DOMAIN cmds /\ cmds[i] = "activate_read"
    BY <1>0, <1>3
  <2> QED
    BY <1>1, <2>1, <2>2, <2>3 DEF Activation
<1> QED
  BY <1>2, <1>3

(* The activation is processed, or another command before it. *)
LEMMA ProcessActivation ==
  ASSUME Shape, Mutex, Activation, NEW t \in Readers, Process(t)
  PROVE  Activation'
<1>1. UNCHANGED <<rpassive, inbox, cmd>> /\ pc'["peer"] = pc["peer"]
  BY Distinct DEF Shape, Senders, Process, At, outside
<1>2. Telling' <=> Telling
  BY <1>1 DEF Telling
<1>3. in_active' = (in_active \/ cmds[1] = "activate_read")
  BY FetchedOne DEF Process
<1>4. CASE cmds[1] = "activate_read"
  <2>1. ~OnItsWay' /\ OnItsWay
    BY <1>4, FetchedOne DEF Activation, OnItsWay
  <2>2. in_active' /\ ~rpassive /\ ~Telling
    BY <1>3, <1>4, <2>1 DEF Activation
  <2>3. \A i, j \in DOMAIN cmds' : cmds'[i] = "activate_read" /\ cmds'[j] = "activate_read" => i = j
    BY <2>1 DEF OnItsWay
  <2> QED
    BY <1>1, <1>2, <2>1, <2>2, <2>3 DEF Activation
<1>5. CASE cmds[1] # "activate_read"
  <2>1. OnItsWay' => OnItsWay
    BY FetchedOne DEF OnItsWay
  <2>2. OnItsWay => OnItsWay'
    BY <1>5, FetchedOne DEF OnItsWay
  <2>3. in_active' <=> in_active
    BY <1>3, <1>5
  <2>4. ASSUME NEW i \in DOMAIN cmds', NEW j \in DOMAIN cmds',
               cmds'[i] = "activate_read", cmds'[j] = "activate_read"
        PROVE  i = j
    <3>1. i + 1 = j + 1 /\ i \in Nat /\ j \in Nat
      BY <2>4, FetchedOne DEF Activation
    <3> QED
      BY <3>1
  <2> QED
    BY <1>1, <1>2, <2>1, <2>2, <2>3, <2>4 DEF Activation
<1> QED
  BY <1>4, <1>5

(* A receiving thread finds nothing. *)
LEMMA TakeNothingActivation ==
  ASSUME Shape, Activation, NEW t \in Threads, TakeNothing(t)
  PROVE  Activation'
<1>1. pc'["peer"] = pc["peer"]
  BY Distinct DEF Shape, TakeNothing, Return, Unlock, At, Senders
<1> QED
  BY <1>1, DeactivateOne DEF Shape, TakeNothing, outside, pipe

(* A poller finds nothing. *)
LEMMA HasInActivation ==
  ASSUME Shape, Activation, NEW p \in Pollers, HasIn(p)
  PROVE  Activation'
<1>1. pc'["peer"] = pc["peer"] /\ UNCHANGED <<cmds, cmd>>
  BY Distinct DEF Shape, HasIn, Unlock, At, Senders, outside, pipe
<1>2. CASE terminated \/ Available
  BY <1>1, <1>2, SameActivation DEF HasIn
<1>3. CASE ~(terminated \/ Available)
  BY <1>1, <1>3, DeactivateOne DEF HasIn, Shape
<1> QED
  BY <1>2, <1>3

(* An inactive pipe is activated by the one command on its way, or empty. *)
LEMMA ActivationStep == ASSUME IInv, [Next]_vars PROVE Activation'
<1> USE Distinct DEF IInv, Shape, Mutex, Inside, Activation, Telling,
        OnItsWay, Senders, Nobody, outside, call, pipe, waking, data
<1>1. ASSUME Write \/ End \/ Stop
      PROVE  Activation'
  BY <1>1 DEF Write, End, Stop
<1>2. ASSUME NEW s \in Senders, Posted(s)
      PROVE  Activation'
  BY <1>2, PostedActivation
<1>3. ASSUME NEW s \in Senders, Signal(s)
      PROVE  Activation'
  BY <1>3 DEF Signal
<1>4. ASSUME NEW t \in Readers, Process(t)
      PROVE  Activation'
  BY <1>4, ProcessActivation
<1>5. ASSUME NEW t \in Readers, Slept(t) \/ Missed(t)
      PROVE  Activation'
  BY <1>5 DEF Slept, Missed, Wait, Unlock, At
<1>6. ASSUME NEW t \in Readers, Wake(t) \/ Spurious(t) \/ TimeOut(t)
      PROVE  Activation'
  BY <1>6 DEF Wake, Spurious, TimeOut, At
<1>7. ASSUME NEW t \in Threads, SendCall(t) \/ Sent(t)
      PROVE  Activation'
  BY <1>7 DEF SendCall, Sent, Return, Unlock, At
<1>8. ASSUME NEW t \in Threads, NEW k \in {"recv", "timed", "dontwait"},
            Recv(t, k)
      PROVE  Activation'
  BY <1>8 DEF Recv, At
<1>9. ASSUME NEW t \in Threads, Take(t)
      PROVE  Activation'
  BY <1>9 DEF Take, Available, Return, Unlock, At
<1>10. ASSUME NEW t \in Threads, TakeNothing(t)
      PROVE  Activation'
  BY <1>10, TakeNothingActivation
<1>11. ASSUME NEW t \in Threads, Tell(t) \/ Again(t)
      PROVE  Activation'
  BY <1>11 DEF Tell, Again, Return, Unlock, At
<1>12. ASSUME NEW p \in Pollers, NextPass(p) \/ FirstPass(p) \/ Events(p)
      PROVE  Activation'
  BY <1>12 DEF NextPass, FirstPass, Polled, Events, At
<1>13. ASSUME NEW p \in Pollers, HasIn(p)
      PROVE  Activation'
  BY <1>13, HasInActivation
<1>14. ASSUME NEW p \in Pollers, add_signaler(p) \/ remove_signaler(p)
      PROVE  Activation'
  BY <1>14 DEF add_signaler, remove_signaler
<1>15. ASSUME close \/ start_reaping
      PROVE  Activation'
  BY <1>15 DEF close, start_reaping
<1>16. ASSUME in_event
      PROVE  Activation'
  BY <1>16 DEF in_event, At, Readers
<1>17. ASSUME Checked \/ check_destroy
      PROVE  Activation'
  BY <1>17 DEF Checked, check_destroy, Unlock, At, Readers
<1>18. CASE UNCHANGED vars
  BY <1>18 DEF vars
<1> QED
  BY ONLY [Next]_vars, <1>1, <1>2, <1>3, <1>4, <1>5, <1>6, <1>7, <1>8,
     <1>9, <1>10, <1>11, <1>12, <1>13, <1>14, <1>15, <1>16, <1>17, <1>18 DEF
     Next, Send, Reading, Calling, Polling, Reaping
-----------------------------------------------------------------------------
(* The last command leaves its sender for the mailbox. *)
LEMMA PostedLastCommand ==
  ASSUME Shape, LastCommand, NEW s \in Senders, Posted(s)
  PROVE  LastCommand'
<1>0. /\ DOMAIN cmds' = DOMAIN cmds \cup {Len(cmds) + 1} /\ Len(cmds) + 1 \notin DOMAIN cmds
      /\ \A i \in DOMAIN cmds : cmds'[i] = cmds[i]
      /\ cmds'[Len(cmds) + 1] = cmd[s]
      /\ \A x \in Senders : pc'[x] = IF x # s THEN pc[x] ELSE IF passive THEN "signalling" ELSE "idle"
      /\ pc[s] = "sending"
  BY PostedOne
<1>1. UNCHANGED <<state, cmd>> /\ cmd["ctx"] = "stop"
  BY DEF Posted, LastCommand
<1>2. /\ \A u \in Users : pc[u] = "idle" => pc'[u] = "idle"
      /\ pc'["peer"] = "sending" => pc["peer"] = "sending" /\ s # "peer"
  BY PostedOne, Distinct DEF Senders
<1>3. CASE cmd[s] = "last"
  <2>1. s = "peer" /\ state = "ended" /\ \A i \in DOMAIN cmds : cmds[i] # "last"
    BY <1>0, <1>1, <1>3 DEF Senders, LastCommand
  <2>2. \A i \in DOMAIN cmds' : cmds'[i] = "last" => i = Len(cmds) + 1
    BY <1>0, <2>1
  <2> QED
    BY <1>1, <1>2, <2>1, <2>2 DEF LastCommand
<1>4. CASE cmd[s] # "last"
  <2>1. \A i \in DOMAIN cmds' : cmds'[i] = "last" => i \in DOMAIN cmds /\ cmds[i] = "last"
    BY <1>0, <1>4
  <2> QED
    BY <1>1, <1>2, <2>1 DEF LastCommand
<1> QED
  BY <1>3, <1>4

(* The peer's last command is its last, and finds the users gone. *)
LEMMA LastCommandStep == ASSUME IInv, [Next]_vars PROVE LastCommand'
<1> USE Distinct DEF IInv, Shape, Mutex, Inside, LastCommand, Senders,
        Nobody, outside, call, pipe, waking, data
<1>1. ASSUME Write \/ End \/ Stop
      PROVE  LastCommand'
  BY <1>1 DEF Write, End, Stop
<1>2. ASSUME NEW s \in Senders, Posted(s)
      PROVE  LastCommand'
  BY <1>2, PostedLastCommand
<1>3. ASSUME NEW s \in Senders, Signal(s)
      PROVE  LastCommand'
  BY <1>3 DEF Signal
<1>4. ASSUME NEW t \in Readers, Process(t)
      PROVE  LastCommand'
  BY <1>4 DEF Process, At
<1>5. ASSUME NEW t \in Readers, Slept(t) \/ Missed(t)
      PROVE  LastCommand'
  BY <1>5 DEF Slept, Missed, Wait, Unlock, At
<1>6. ASSUME NEW t \in Readers, Wake(t) \/ Spurious(t) \/ TimeOut(t)
      PROVE  LastCommand'
  BY <1>6 DEF Wake, Spurious, TimeOut, At
<1>7. ASSUME NEW t \in Threads, SendCall(t) \/ Sent(t)
      PROVE  LastCommand'
  BY <1>7 DEF SendCall, Sent, Return, Unlock, At
<1>8. ASSUME NEW t \in Threads, NEW k \in {"recv", "timed", "dontwait"},
            Recv(t, k)
      PROVE  LastCommand'
  BY <1>8 DEF Recv, At
<1>9. ASSUME NEW t \in Threads, Take(t)
      PROVE  LastCommand'
  BY <1>9 DEF Take, Available, Return, Unlock, At
<1>10. ASSUME NEW t \in Threads, TakeNothing(t)
      PROVE  LastCommand'
  BY <1>10 DEF TakeNothing, Deactivate, Return, Unlock, At
<1>11. ASSUME NEW t \in Threads, Tell(t) \/ Again(t)
      PROVE  LastCommand'
  BY <1>11 DEF Tell, Again, Return, Unlock, At
<1>12. ASSUME NEW p \in Pollers, NextPass(p) \/ FirstPass(p) \/ Events(p)
      PROVE  LastCommand'
  BY <1>12 DEF NextPass, FirstPass, Polled, Events, At
<1>13. ASSUME NEW p \in Pollers, HasIn(p)
      PROVE  LastCommand'
  BY <1>13 DEF HasIn, Deactivate, Unlock, At
<1>14. ASSUME NEW p \in Pollers, add_signaler(p) \/ remove_signaler(p)
      PROVE  LastCommand'
  BY <1>14 DEF add_signaler, remove_signaler
<1>15. ASSUME close \/ start_reaping
      PROVE  LastCommand'
  BY <1>15 DEF close, start_reaping
<1>16. ASSUME in_event
      PROVE  LastCommand'
  BY <1>16 DEF in_event, At, Readers
<1>17. ASSUME Checked \/ check_destroy
      PROVE  LastCommand'
  BY <1>17 DEF Checked, check_destroy, Unlock, At, Readers
<1>18. CASE UNCHANGED vars
  BY <1>18 DEF vars
<1> QED
  BY ONLY [Next]_vars, <1>1, <1>2, <1>3, <1>4, <1>5, <1>6, <1>7, <1>8,
     <1>9, <1>10, <1>11, <1>12, <1>13, <1>14, <1>15, <1>16, <1>17, <1>18 DEF
     Next, Send, Reading, Calling, Polling, Reaping
-----------------------------------------------------------------------------
(* Nobody comes back to a socket that is gone. *)
LEMMA SafeDestructionStep == ASSUME IInv, [Next]_vars PROVE SafeDestruction'
<1> USE Distinct DEF IInv, Shape, Mutex, Inside, LastCommand,
        SafeDestruction, Senders, Nobody, outside, call, pipe, waking, data
<1>1. ASSUME Write \/ End \/ Stop
      PROVE  SafeDestruction'
  BY <1>1 DEF Write, End, Stop
<1>2. ASSUME NEW s \in Senders, Posted(s)
      PROVE  SafeDestruction'
  BY <1>2, PostedOne DEF Posted
<1>3. ASSUME NEW s \in Senders, Signal(s)
      PROVE  SafeDestruction'
  BY <1>3 DEF Signal
<1>4. ASSUME NEW t \in Readers, Process(t)
      PROVE  SafeDestruction'
  BY <1>4 DEF Process, At
<1>5. ASSUME NEW t \in Readers, Slept(t) \/ Missed(t)
      PROVE  SafeDestruction'
  BY <1>5 DEF Slept, Missed, Wait, Unlock, At
<1>6. ASSUME NEW t \in Readers, Wake(t) \/ Spurious(t) \/ TimeOut(t)
      PROVE  SafeDestruction'
  BY <1>6 DEF Wake, Spurious, TimeOut, At
<1>7. ASSUME NEW t \in Threads, SendCall(t) \/ Sent(t)
      PROVE  SafeDestruction'
  BY <1>7 DEF SendCall, Sent, Return, Unlock, At
<1>8. ASSUME NEW t \in Threads, NEW k \in {"recv", "timed", "dontwait"},
            Recv(t, k)
      PROVE  SafeDestruction'
  BY <1>8 DEF Recv, At
<1>9. ASSUME NEW t \in Threads, Take(t)
      PROVE  SafeDestruction'
  BY <1>9 DEF Take, Available, Return, Unlock, At
<1>10. ASSUME NEW t \in Threads, TakeNothing(t)
      PROVE  SafeDestruction'
  BY <1>10 DEF TakeNothing, Deactivate, Return, Unlock, At
<1>11. ASSUME NEW t \in Threads, Tell(t) \/ Again(t)
      PROVE  SafeDestruction'
  BY <1>11 DEF Tell, Again, Return, Unlock, At
<1>12. ASSUME NEW p \in Pollers, NextPass(p) \/ FirstPass(p) \/ Events(p)
      PROVE  SafeDestruction'
  BY <1>12 DEF NextPass, FirstPass, Polled, Events, At
<1>13. ASSUME NEW p \in Pollers, HasIn(p)
      PROVE  SafeDestruction'
  BY <1>13 DEF HasIn, Deactivate, Unlock, At
<1>14. ASSUME NEW p \in Pollers, add_signaler(p) \/ remove_signaler(p)
      PROVE  SafeDestruction'
  BY <1>14 DEF add_signaler, remove_signaler
<1>15. ASSUME close \/ start_reaping
      PROVE  SafeDestruction'
  BY <1>15 DEF close, start_reaping
<1>16. ASSUME in_event
      PROVE  SafeDestruction'
  BY <1>16 DEF in_event, At, Readers
<1>17. ASSUME Checked \/ check_destroy
      PROVE  SafeDestruction'
  BY <1>17 DEF Checked, check_destroy, Unlock, At, Readers
<1>18. CASE UNCHANGED vars
  BY <1>18 DEF vars
<1> QED
  BY ONLY [Next]_vars, <1>1, <1>2, <1>3, <1>4, <1>5, <1>6, <1>7, <1>8,
     <1>9, <1>10, <1>11, <1>12, <1>13, <1>14, <1>15, <1>16, <1>17, <1>18 DEF
     Next, Send, Reading, Calling, Polling, Reaping
-----------------------------------------------------------------------------
(* The values of the rest of the state. *)
Values ==
  /\ crew \in Crews
  /\ sync \in Readers \cup Senders \cup {Nobody}
  /\ peer_sync \in {"peer", Nobody}
  /\ kind \in [Readers -> Kinds]
  /\ signalers \in SUBSET Owners /\ signals \in [Owners -> Nat]
  /\ written \in 0 .. MaxMsgs
  /\ passive \in BOOLEAN /\ rpassive \in BOOLEAN /\ in_active \in BOOLEAN
  /\ stopped \in BOOLEAN /\ terminated \in BOOLEAN
  /\ state \in {"open", "closing", "reaping", "ended", "destroyed", "gone"}

LEMMA ValuesStep == ASSUME IInv, Values, [Next]_vars PROVE Values'
<1> USE Distinct, MailboxSafeAssumption DEF IInv, Shape, Values, Kinds, Owners, Senders, Nobody,
        outside, call, pipe, waking, data
<1>1. ASSUME Write \/ End \/ Stop
      PROVE  Values'
  <2>1. CASE Write
    <3>1. written \in 0 .. MaxMsgs /\ written < MaxMsgs /\ written' = written + 1
      BY <2>1 DEF Write
    <3>2. written' \in 0 .. MaxMsgs
      BY <3>1
    <3> QED
      BY <2>1, <3>2 DEF Write
  <2>2. CASE End
    BY <2>2 DEF End
  <2>3. CASE Stop
    BY <2>3 DEF Stop
  <2> QED
    BY <1>1, <2>1, <2>2, <2>3
<1>2. ASSUME NEW s \in Senders, Posted(s)
      PROVE  Values'
  BY ZenonT(40), <1>2, PostedOne DEF Posted
<1>3. ASSUME NEW s \in Senders, Signal(s)
      PROVE  Values'
  BY <1>3 DEF Signal
<1>4. ASSUME NEW t \in Readers, Process(t)
      PROVE  Values'
  BY <1>4 DEF Process, At
<1>5. ASSUME NEW t \in Readers, Slept(t) \/ Missed(t)
      PROVE  Values'
  <2>1. passive' = TRUE /\ sync' \in {sync, Nobody}
    BY <1>5 DEF Slept, Missed, Wait, Unlock
  <2>2. UNCHANGED <<outside, call, cmds, waking, data, terminated, state>>
    BY <1>5 DEF Slept, Missed
  <2> QED
    BY <2>1, <2>2
<1>6. ASSUME NEW t \in Readers, Wake(t) \/ Spurious(t) \/ TimeOut(t)
      PROVE  Values'
  BY <1>6 DEF Wake, Spurious, TimeOut, At
<1>7. ASSUME NEW t \in Threads, SendCall(t) \/ Sent(t)
      PROVE  Values'
  <2>1. CASE SendCall(t)
    BY <1>7, <2>1 DEF SendCall
  <2>2. CASE Sent(t)
    <3>1. UNCHANGED <<sync, call>> \/ Return(t)
      BY <2>2 DEF Sent
    <3>2. sync' \in {sync, Nobody} /\ kind' \in [Readers -> Kinds]
      BY <3>1 DEF Return, Unlock
    <3> QED
      BY <2>2, <3>2 DEF Sent
  <2> QED
    BY <1>7, <2>1, <2>2
<1>8. ASSUME NEW t \in Threads, NEW k \in {"recv", "timed", "dontwait"}, Recv(t, k)
      PROVE  Values'
  BY <1>8 DEF Recv, At
<1>9. ASSUME NEW t \in Threads, Take(t)
      PROVE  Values'
  BY <1>9 DEF Take, Available, Return, Unlock, At
<1>10. ASSUME NEW t \in Threads, TakeNothing(t)
      PROVE  Values'
  <2>1. UNCHANGED <<sync, call>> \/ Return(t)
    BY <1>10 DEF TakeNothing
  <2>4. sync' \in {sync, Nobody} /\ kind' \in [Readers -> Kinds]
    BY <2>1 DEF Return, Unlock
  <2>2. in_active' = FALSE /\ rpassive' = (rpassive \/ in_active)
    BY <1>10 DEF TakeNothing, Deactivate
  <2>3. in_active' \in BOOLEAN /\ rpassive' \in BOOLEAN
    BY <2>2
  <2> QED
    BY <1>10, <2>4, <2>3 DEF TakeNothing
<1>11. ASSUME NEW t \in Threads, Tell(t) \/ Again(t)
      PROVE  Values'
  <2>1. UNCHANGED <<sync, kind>> \/ Return(t)
    BY <1>11 DEF Tell, Again
  <2>3. sync' \in {sync, Nobody} /\ kind' \in [Readers -> Kinds]
    BY <2>1 DEF Return, Unlock
  <2>2. UNCHANGED <<outside, pipe, waking, data, terminated, state>>
    BY <1>11 DEF Tell, Again
  <2> QED
    BY <2>2, <2>3
<1>12. ASSUME NEW p \in Pollers, NextPass(p) \/ FirstPass(p) \/ Events(p)
      PROVE  Values'
  <2>1. CASE NextPass(p) \/ FirstPass(p)
    <3>1. /\ signals' = [signals EXCEPT ![p] = IF @ > 0 THEN @ - 1 ELSE @]
          /\ UNCHANGED <<sync, outside, call, pipe, signalers, data, terminated, state>>
      BY <2>1 DEF NextPass, FirstPass, Polled
    <3>2. signals' \in [Owners -> Nat]
      BY <3>1
    <3> QED
      BY <3>1, <3>2
  <2>2. CASE Events(p)
    BY <1>12, <2>2 DEF Events
  <2> QED
    BY <1>12, <2>1, <2>2
<1>13. ASSUME NEW p \in Pollers, HasIn(p)
      PROVE  Values'
  BY <1>13 DEF HasIn, Deactivate, Unlock, At
<1>14. ASSUME NEW p \in Pollers, add_signaler(p) \/ remove_signaler(p)
      PROVE  Values'
  BY <1>14 DEF add_signaler, remove_signaler
<1>15. ASSUME close \/ start_reaping
      PROVE  Values'
  BY <1>15 DEF close, start_reaping
<1>16. ASSUME in_event
      PROVE  Values'
  BY <1>16 DEF in_event, At, Readers
<1>17. ASSUME Checked \/ check_destroy
      PROVE  Values'
  BY <1>17 DEF Checked, check_destroy, Unlock, At, Readers
<1>18. CASE UNCHANGED vars
  BY <1>18 DEF vars
<1> QED
  BY ONLY [Next]_vars, <1>1, <1>2, <1>3, <1>4, <1>5, <1>6, <1>7, <1>8,
     <1>9, <1>10, <1>11, <1>12, <1>13, <1>14, <1>15, <1>16, <1>17, <1>18 DEF
     Next, Send, Reading, Calling, Polling, Reaping
-----------------------------------------------------------------------------
(* What is written for those who found nothing is signalled. *)
LEMMA PostedSignalled ==
  ASSUME IInv, Values, Signalled, NEW s \in Senders, Posted(s)
  PROVE  Signalled'
<1>1. /\ sync = Nobody /\ UNCHANGED <<signalers, signals, terminated, in_active>>
      /\ \A x \in Senders : pc'[x] = IF x # s THEN pc[x] ELSE IF passive THEN "signalling" ELSE "idle"
      /\ \A t \in Readers : pc'[t] = IF passive /\ pc[t] = "asleep" THEN "notified" ELSE pc[t]
  BY PostedOne DEF IInv, Posted, waking, data
<1>2. ~Signalling
  BY <1>1, Distinct DEF IInv, Mutex, Signalling, Nobody
<1>3. passive => Signalling'
  BY <1>1 DEF Signalling
<1>4. signalers \subseteq Readers
  BY DEF Values, Owners, Readers, Users
<1>5. ~passive => \A t \in signalers : pc'[t] = pc[t]
  BY <1>1, <1>4
<1> QED
  BY <1>1, <1>2, <1>3, <1>5 DEF Signalled, Settled

LEMMA SignalledStep == ASSUME IInv, Values, Signalled, [Next]_vars PROVE Signalled'
<1> USE Distinct DEF IInv, Shape, Mutex, Inside, Values, Owners, Signalled, Settled, Signalling,
        Senders, Nobody, outside, call, pipe, waking, data
<1>0. /\ \A t \in signalers : t \in Readers
      /\ (\E t \in Readers : sync = t) => ~Signalling
  <2>1. \A t \in signalers : t \in Readers
    BY DEF Readers, Users
  <2>2. (\E t \in Readers : sync = t) => \A x \in Senders : sync # x
    BY Distinct
  <2> QED
    BY <2>1, <2>2
<1>1. ASSUME Write \/ End \/ Stop
      PROVE  Signalled'
  <2>1. /\ \A x \in Readers : pc'[x] = pc[x]
        /\ \A x \in Senders : pc'[x] = "signalling" <=> pc[x] = "signalling"
    BY <1>1 DEF Write, End, Stop
  <2>2. UNCHANGED <<waking, pipe, in_active, terminated>>
    BY <1>1 DEF Write, End, Stop
  <2> QED
    BY <1>0, <2>1, <2>2
<1>2. ASSUME NEW s \in Senders, Posted(s)
      PROVE  Signalled'
  BY <1>2, PostedSignalled
<1>3. ASSUME NEW s \in Senders, Signal(s)
      PROVE  Signalled'
  BY <1>3 DEF Signal
<1>4. ASSUME NEW t \in Readers, Process(t)
      PROVE  Signalled'
  BY <1>4 DEF Process, At
<1>5. ASSUME NEW t \in Readers, Slept(t) \/ Missed(t)
      PROVE  Signalled'
  <2>1. /\ \A x \in Readers : x # t => pc'[x] = pc[x]
        /\ \A x \in Senders : pc'[x] = pc[x]
    BY <1>5 DEF Slept, Missed, Wait, Unlock, At
  <2>2. /\ UNCHANGED <<waking, in_active, terminated>>
        /\ passive' /\ cmds' = <<>> /\ pc'[t] \in {"asleep", "processed"}
    BY <1>5 DEF Slept, Missed, Wait, Unlock, At
  <2> QED
    BY <1>0, <2>1, <2>2
<1>6. ASSUME NEW t \in Readers, Wake(t) \/ Spurious(t) \/ TimeOut(t)
      PROVE  Signalled'
  <2>1. /\ \A x \in Readers : x # t => pc'[x] = pc[x]
        /\ \A x \in Senders : pc'[x] = pc[x]
    BY <1>6 DEF Wake, Spurious, TimeOut, At
  <2>2. /\ UNCHANGED <<waking, pipe, in_active, terminated>>
        /\ pc[t] \in {"asleep", "notified", "expired"}
        /\ pc'[t] \in {"notified", "expired", "reread", "processed"}
    BY <1>6 DEF Wake, Spurious, TimeOut, At
  <2> QED
    BY <1>0, <2>1, <2>2
<1>7. ASSUME NEW t \in Threads, SendCall(t) \/ Sent(t)
      PROVE  Signalled'
  <2>1. t \notin signalers
    BY MailboxSafeAssumption DEF Users
  <2>2. /\ \A x \in Readers : x # t => pc'[x] = pc[x]
        /\ \A x \in Senders : pc'[x] = pc[x]
    BY <1>7 DEF SendCall, Sent, Return, Unlock, At
  <2>3. UNCHANGED <<waking, pipe, in_active, terminated>>
    BY <1>7 DEF SendCall, Sent
  <2> QED
    BY <1>0, <2>1, <2>2, <2>3
<1>8. ASSUME NEW t \in Threads, NEW k \in {"recv", "timed", "dontwait"}, Recv(t, k)
      PROVE  Signalled'
  BY <1>8 DEF Recv, At
<1>9. ASSUME NEW t \in Threads, Take(t)
      PROVE  Signalled'
  <2>1. t \notin signalers
    BY MailboxSafeAssumption DEF Users
  <2>2. /\ \A x \in Readers : x # t => pc'[x] = pc[x]
        /\ \A x \in Senders : pc'[x] = pc[x]
    BY <1>9 DEF Take, Return, Unlock, At
  <2>3. UNCHANGED <<waking, pipe, in_active, terminated>>
    BY <1>9 DEF Take
  <2> QED
    BY <1>0, <2>1, <2>2, <2>3
<1>10. ASSUME NEW t \in Threads, TakeNothing(t)
      PROVE  Signalled'
  <2>1. t \notin signalers
    BY MailboxSafeAssumption DEF Users
  <2>2. /\ \A x \in Readers : x # t => pc'[x] = pc[x]
        /\ \A x \in Senders : pc'[x] = pc[x]
    BY <1>10 DEF TakeNothing, Return, Unlock, At
  <2>3. UNCHANGED <<waking, pipe, terminated>> /\ in_active' = FALSE
    BY <1>10 DEF TakeNothing, Deactivate
  <2> QED
    BY <1>0, <2>1, <2>2, <2>3
<1>11. ASSUME NEW t \in Threads, Tell(t) \/ Again(t)
      PROVE  Signalled'
  <2>1. t \notin signalers
    BY MailboxSafeAssumption DEF Users
  <2>2. /\ \A x \in Readers : x # t => pc'[x] = pc[x]
        /\ \A x \in Senders : pc'[x] = pc[x]
    BY <1>11 DEF Tell, Again, Return, Unlock, At
  <2>3. UNCHANGED <<waking, pipe, in_active, terminated>>
    BY <1>11 DEF Tell, Again
  <2> QED
    BY <1>0, <2>1, <2>2, <2>3
<1>12. ASSUME NEW p \in Pollers, NextPass(p) \/ FirstPass(p) \/ Events(p)
      PROVE  Signalled'
  <2>1. /\ \A x \in Readers : x # p => pc'[x] = pc[x]
        /\ \A x \in Senders : pc'[x] = pc[x]
    BY <1>12 DEF NextPass, FirstPass, Polled, Events, At
  <2>2. /\ UNCHANGED <<signalers, pipe, in_active, terminated>>
        /\ pc'[p] \in {"polled", "idle", "commands"} /\ p # "reaper"
        /\ \A x \in Owners : x # p => signals'[x] = signals[x]
    BY <1>12 DEF NextPass, FirstPass, Polled, Events, At
  <2> QED
    BY <1>0, <2>1, <2>2
<1>13. ASSUME NEW p \in Pollers, HasIn(p)
      PROVE  Signalled'
  <2>1. /\ \A x \in Readers : x # p => pc'[x] = pc[x]
        /\ \A x \in Senders : pc'[x] = pc[x]
    BY <1>13 DEF HasIn, Unlock, At
  <2>2. /\ UNCHANGED <<waking, pipe, terminated>> /\ p # "reaper" /\ pc[p] = "processed"
        /\ \/ pc'[p] = "idle" /\ UNCHANGED in_active
           \/ pc'[p] = "polling" /\ in_active' = FALSE /\ ~terminated
    BY <1>13 DEF HasIn, Deactivate, Unlock, At
  <2> QED
    BY <1>0, <2>1, <2>2
<1>14. ASSUME NEW p \in Pollers, add_signaler(p) \/ remove_signaler(p)
      PROVE  Signalled'
  BY <1>14 DEF add_signaler, remove_signaler
<1>15. ASSUME close \/ start_reaping
      PROVE  Signalled'
  BY <1>15 DEF close, start_reaping
<1>16. ASSUME in_event
      PROVE  Signalled'
  BY <1>16 DEF in_event, At, Readers
<1>17. ASSUME Checked \/ check_destroy
      PROVE  Signalled'
  BY <1>17 DEF Checked, check_destroy, Unlock, At, Readers
<1>18. CASE UNCHANGED vars
  BY <1>18 DEF vars
<1> QED
  BY ONLY [Next]_vars, <1>1, <1>2, <1>3, <1>4, <1>5, <1>6, <1>7, <1>8,
     <1>9, <1>10, <1>11, <1>12, <1>13, <1>14, <1>15, <1>16, <1>17, <1>18 DEF
     Next, Send, Reading, Calling, Polling, Reaping
-----------------------------------------------------------------------------
(* The inductive invariant, for any threads, pollers and messages. *)
THEOREM MailboxSafeInvariant == Spec => []IInv
<1>1. Init => IInv
  BY Distinct DEF Init, IInv, Shape, Places, Commands, Mutex, Inside, Asleep, Looked, Activation,
     Telling, OnItsWay, LastCommand, SafeDestruction, Senders, Nobody
<1>2. IInv /\ [Next]_vars => IInv'
  BY ShapeStep, MutexStep, AsleepStep, LookedStep, ActivationStep, LastCommandStep,
     SafeDestructionStep DEF IInv
<1> QED
  BY <1>1, <1>2, PTL DEF Spec

(* A thread that sleeps on the condition variable, though others read the  *)
(* commands it waits for, misses neither a command nor a message nor the   *)
(* termination.                                                            *)
THEOREM MailboxSafeSleepersMissNothing == Spec => []SleepersMissNothing
<1>1. IInv => SleepersMissNothing
  BY DEF IInv, Asleep, Looked, Activation, OnItsWay, SleepersMissNothing
<1> QED
  BY <1>1, MailboxSafeInvariant, PTL

(* When the socket is gone nobody is in its mailbox, not even the sender   *)
(* of the last command.                                                    *)
THEOREM MailboxSafeSafeDestruction == Spec => []SafeDestruction
<1>1. IInv => SafeDestruction
  BY DEF IInv
<1> QED
  BY <1>1, MailboxSafeInvariant, PTL

(* Type correctness: nobody is signalled or counted who is not there.      *)
THEOREM MailboxSafeTyped == Spec => []TypeOK
<1>1. Init => Values
  <2> SUFFICES ASSUME Init PROVE Values
    OBVIOUS
  <2>1. kind \in [Readers -> Kinds]
    BY DEF Init, Kinds, Readers, Users
  <2>2. signals \in [Owners -> Nat] /\ written \in 0 .. MaxMsgs
    BY MailboxSafeAssumption DEF Init
  <2> QED
    BY <2>1, <2>2 DEF Init, Values, Nobody
<1>2. IInv /\ Values /\ [Next]_vars => Values'
  BY ValuesStep
<1>3. IInv /\ Values => TypeOK
  BY DEF IInv, Values, TypeOK
<1> QED
  BY <1>1, <1>2, <1>3, MailboxSafeInvariant, PTL DEF Spec

(* Who waits for its signaler is signalled when there is something to do:  *)
(* a poller for a message or the termination, the reaper for a command.    *)
THEOREM MailboxSafeSignalled == Spec => []SignalledWhenNeeded
<1>1. Init => Signalled
  BY DEF Init, Signalled
<1>2. IInv /\ Values /\ Signalled /\ [Next]_vars => Signalled'
  BY SignalledStep
<1>3. TypeOK => Values
  BY DEF TypeOK, Values
<1>4. IInv /\ TypeOK /\ Signalled => SignalledWhenNeeded
  BY DEF IInv, TypeOK, Signalled, Settled, Activation, OnItsWay, Available, SignalledWhenNeeded
<1> QED
  BY <1>1, <1>2, <1>3, <1>4, MailboxSafeInvariant, MailboxSafeTyped, PTL DEF Spec
=============================================================================
