--------------------------- MODULE PipePairProofs ---------------------------
(***************************************************************************)
(* Proofs about PipePair for every setting.                                *)
(***************************************************************************)
EXTENDS PipePair, SequenceTheorems, FiniteSetTheorems, NaturalsInduction, TLAPS

(* A set of numbers that is not empty has a least one, and a greatest one  *)
(* when it has a bound.                                                    *)
LEMMA MinIsLeast ==
  ASSUME NEW I \in SUBSET Nat, I # {}
  PROVE  Min(I) \in I /\ \A i \in I : Min(I) <= i
<1> DEFINE R == OpToRel(<, Nat)
<1>1. \A x, y \in Nat : <<x, y>> \in R <=> x < y
  BY DEF OpToRel
<1>2. IsWellFoundedOn(R, Nat)
  BY NatLessThanWellFounded
<1> HIDE DEF R
<1>3. PICK k \in I : \A j \in I : ~ (<<j, k>> \in R)
  BY <1>2, WFMin
<1>4. \A i \in I : i \in Nat /\ ~ (i < k)
  BY <1>1, <1>3
<1>5. \A i \in I : k <= i
  BY <1>4
<1> QED
  BY <1>5 DEF Min

LEMMA MaxIsGreatest ==
  ASSUME NEW n \in Nat, NEW I \in SUBSET (0 .. n), I # {}
  PROVE  Max(I) \in I /\ \A i \in I : i <= Max(I)
<1> DEFINE D == {n - i : i \in I}
<1>1. \A i \in I : i \in 0 .. n /\ n - i \in D /\ n - i \in Nat
  OBVIOUS
<1>2. D \subseteq Nat /\ D # {}
  BY <1>1
<1>3. Min(D) \in D /\ \A d \in D : Min(D) <= d
  <2> HIDE DEF D
  <2> QED
    BY <1>2, MinIsLeast
<1>4. PICK m \in I : \A i \in I : n - m <= n - i
  BY <1>1, <1>3
<1>5. \A i \in I : i <= m
  BY <1>1, <1>4
<1> QED
  BY <1>5 DEF Max

(* Where the last whole message among the frames ends. *)
LEMMA LastComplete ==
  ASSUME NEW s \in Seq(Frame)
  PROVE  /\ LastWhole(s) \in 0 .. Len(s)
         /\ LastWhole(s) # 0 => Complete(s[LastWhole(s)])
         /\ \A i \in LastWhole(s) + 1 .. Len(s) : ~Complete(s[i])
<1> DEFINE I == {i \in 1 .. Len(s) : Complete(s[i])}
           n == LastWhole(s)
<1>1. n = IF I # {} THEN Max(I) ELSE 0
  BY DEF LastWhole, SelectLastInSeq
<1>2. Len(s) \in Nat /\ I \in SUBSET (0 .. Len(s))
  OBVIOUS
<1>3. \A i \in 1 .. Len(s) : i \in I <=> Complete(s[i])
  OBVIOUS
<1>4. \A i \in I : i \in 1 .. Len(s) /\ Complete(s[i])
  OBVIOUS
<1> SUFFICES /\ n \in 0 .. Len(s)
             /\ n # 0 => Complete(s[n])
             /\ \A i \in n + 1 .. Len(s) : ~Complete(s[i])
  OBVIOUS
<1> HIDE DEF I, n
<1>5. CASE I = {}
  BY <1>1, <1>2, <1>3, <1>5
<1>6. CASE I # {}
  <2>1. Max(I) \in I /\ \A i \in I : i <= Max(I)
    BY <1>2, <1>6, MaxIsGreatest
  <2>2. n \in 1 .. Len(s) /\ Complete(s[n])
    BY <1>1, <1>4, <1>6, <2>1
  <2>3. \A i \in n + 1 .. Len(s) : i \in 1 .. Len(s) /\ i \notin I
    BY <1>1, <1>2, <1>6, <2>1, <2>2
  <2> QED
    BY <1>3, <2>2, <2>3
<1> QED
  BY <1>5, <1>6

(* The first frame that is not a credential. *)
LEMMA FirstItem ==
  ASSUME NEW s \in Seq(Frame)
  PROVE  /\ NextItem(s) \in 0 .. Len(s)
         /\ NextItem(s) # 0 => ~IsCredential(s[NextItem(s)])
         /\ \A i \in 1 .. NextItem(s) - 1 : IsCredential(s[i])
<1> DEFINE I == {i \in 1 .. Len(s) : ~IsCredential(s[i])}
           n == NextItem(s)
<1>1. n = IF I # {} THEN Min(I) ELSE 0
  BY DEF NextItem, SelectInSeq
<1>2. Len(s) \in Nat /\ I \in SUBSET Nat
  OBVIOUS
<1>3. \A i \in 1 .. Len(s) : i \in I <=> ~IsCredential(s[i])
  OBVIOUS
<1>4. \A i \in I : i \in 1 .. Len(s) /\ ~IsCredential(s[i])
  OBVIOUS
<1> SUFFICES /\ n \in 0 .. Len(s)
             /\ n # 0 => ~IsCredential(s[n])
             /\ \A i \in 1 .. n - 1 : IsCredential(s[i])
  OBVIOUS
<1> HIDE DEF I, n
<1>5. CASE I = {}
  BY <1>1, <1>2, <1>5
<1>6. CASE I # {}
  <2>1. Min(I) \in I /\ \A i \in I : Min(I) <= i
    BY <1>2, <1>6, MinIsLeast
  <2>2. n \in 1 .. Len(s) /\ ~IsCredential(s[n])
    BY <1>1, <1>4, <1>6, <2>1
  <2>3. \A i \in 1 .. n - 1 : i \in 1 .. Len(s) /\ i \notin I
    BY <1>1, <1>2, <1>6, <2>1, <2>2
  <2> QED
    BY <1>3, <2>2, <2>3
<1> QED
  BY <1>5, <1>6
-----------------------------------------------------------------------------
(* Queues of commands. *)

LEMMA CommandFacts ==
  ASSUME NEW c \in Command
  PROVE  /\ c[1] \in {"activate_read", "pipe_term", "pipe_term_ack", "activate_write",
                      "hiccup", "pipe_hwm"}
         /\ c[1] = "activate_write" => c[2] \in Nat
         /\ c[1] = "hiccup" => c[2] \in Ypipe
         /\ c[1] = "pipe_hwm" => c[2] \in Int /\ c[3] \in Int
<1>1. c \in {<<"activate_read">>, <<"pipe_term">>, <<"pipe_term_ack">>}
      \/ c \in {"activate_write"} \X Nat \/ c \in {"hiccup"} \X Ypipe
      \/ c \in {"pipe_hwm"} \X Int \X Int
  BY DEF Command
<1>2. CASE c \in {<<"activate_read">>, <<"pipe_term">>, <<"pipe_term_ack">>}
  <2>1. c[1] \in {"activate_read", "pipe_term", "pipe_term_ack"}
    BY <1>2
  <2> QED
    BY <2>1
<1>3. CASE c \in {"activate_write"} \X Nat
  <2>1. c[1] = "activate_write" /\ c[2] \in Nat
    BY <1>3
  <2> QED
    BY <2>1
<1>4. CASE c \in {"hiccup"} \X Ypipe
  <2>1. c[1] = "hiccup" /\ c[2] \in Ypipe
    BY <1>4
  <2> QED
    BY <2>1
<1>5. CASE c \in {"pipe_hwm"} \X Int \X Int
  <2>1. c[1] = "pipe_hwm" /\ c[2] \in Int /\ c[3] \in Int
    BY <1>5
  <2> QED
    BY <2>1
<1> QED
  BY <1>1, <1>2, <1>3, <1>4, <1>5

(* A command is put at the end of a queue, or taken from its beginning.    *)
LEMMA Told ==
  ASSUME NEW S, NEW q \in Seq(S), NEW c \in S
  PROVE  /\ q \o <<c>> \in Seq(S)
         /\ DOMAIN (q \o <<c>>) = 1 .. Len(q) + 1
         /\ DOMAIN q = 1 .. Len(q) /\ Len(q) \in Nat
         /\ \A i \in 1 .. Len(q) : (q \o <<c>>)[i] = q[i]
         /\ (q \o <<c>>)[Len(q) + 1] = c
<1>1. Append(q, c) = q \o <<c>>
  BY AppendIsConcat
<1>2. q \o <<c>> \in Seq(S) /\ Len(q \o <<c>>) = Len(q) + 1
  BY <1>1, AppendProperties
<1> QED
  BY <1>1, <1>2, AppendProperties, LenProperties

LEMMA Taken ==
  ASSUME NEW S, NEW q \in Seq(S), q # <<>>
  PROVE  /\ Tail(q) \in Seq(S)
         /\ Head(q) = q[1] /\ Head(q) \in S
         /\ DOMAIN q = 1 .. Len(q) /\ Len(q) \in Nat /\ Len(q) >= 1
         /\ DOMAIN Tail(q) = 1 .. Len(q) - 1
         /\ \A i \in 1 .. Len(q) - 1 : Tail(q)[i] = q[i + 1]
BY HeadTailProperties, LenProperties, EmptySeq

LEMMA HasTold ==
  ASSUME NEW S, NEW q \in Seq(S), NEW c \in S, NEW type
  PROVE  Has(q \o <<c>>, type) <=> Has(q, type) \/ c[1] = type
BY Told DEF Has

LEMMA HasTaken ==
  ASSUME NEW S, NEW q \in Seq(S), q # <<>>, NEW type
  PROVE  Has(q, type) <=> Head(q)[1] = type \/ Has(Tail(q), type)
<1>1. \A i \in DOMAIN q : i = 1 \/ (i - 1 \in DOMAIN Tail(q) /\ q[i] = Tail(q)[i - 1])
  BY Taken
<1>2. \A i \in DOMAIN Tail(q) : i + 1 \in DOMAIN q /\ Tail(q)[i] = q[i + 1]
  BY Taken
<1>3. 1 \in DOMAIN q /\ Head(q) = q[1]
  BY Taken
<1> QED
  BY <1>1, <1>2, <1>3 DEF Has

LEMMA OrderedTold ==
  ASSUME NEW S, NEW q \in Seq(S), NEW c \in S, Ordered(q),
         Has(q, "pipe_term_ack") => c[1] = "pipe_hwm",
         Has(q, "pipe_term") => c[1] \notin {"pipe_term", "hiccup"}
  PROVE  Ordered(q \o <<c>>)
<1> DEFINE r == q \o <<c>>
<1> SUFFICES ASSUME NEW i \in DOMAIN r, NEW j \in DOMAIN r, i < j
             PROVE  /\ r[i][1] = "pipe_term_ack" => r[j][1] = "pipe_hwm"
                    /\ r[i][1] = "pipe_term" => r[j][1] \notin {"pipe_term", "hiccup"}
  BY DEF Ordered
<1>1. i \in DOMAIN q /\ r[i] = q[i] /\ (j \in DOMAIN q \/ j = Len(q) + 1)
  BY Told
<1>2. CASE j \in DOMAIN q
  BY <1>1, <1>2, Told DEF Ordered
<1>3. CASE j = Len(q) + 1
  <2>1. r[j] = c
    BY <1>3, Told
  <2> QED
    BY <1>1, <2>1 DEF Has
<1> QED
  BY <1>1, <1>2, <1>3

LEMMA OrderedTaken ==
  ASSUME NEW S, NEW q \in Seq(S), q # <<>>, Ordered(q)
  PROVE  /\ Ordered(Tail(q))
         /\ Head(q)[1] = "pipe_term" => ~Has(Tail(q), "pipe_term") /\ ~Has(Tail(q), "hiccup")
         /\ Head(q)[1] = "pipe_term_ack" => OnlyMarks(Tail(q))
<1>1. \A i \in DOMAIN Tail(q) : i + 1 \in DOMAIN q /\ Tail(q)[i] = q[i + 1] /\ 1 < i + 1
  BY Taken
<1>2. 1 \in DOMAIN q /\ Head(q) = q[1]
  BY Taken
<1>3. Ordered(Tail(q))
  BY <1>1, Taken DEF Ordered
<1> QED
  BY <1>1, <1>2, <1>3 DEF Ordered, Has, OnlyMarks
-----------------------------------------------------------------------------
(* Types. *)

LEMMA SettingFacts ==
  ASSUME Typed
  PROVE  /\ setting \in Settings
         /\ {Hwm, InBoost, OutBoost} \subseteq [End -> Int]
         /\ Kind \in [End -> SUBSET {"identity", "credential"}]
         /\ NewHwm \subseteq Int
         /\ MaxHiccup \in Nat /\ MaxSetHwm \in Nat
         /\ NULL \notin Ypipe /\ Ypipe = 1 .. 2 + MaxHiccup
         /\ used.hiccups \in 0 .. MaxHiccup /\ used.hwms \in 0 .. MaxSetHwm
         /\ MayHiccup \subseteq End
         /\ \A e \in MayHiccup : "identity" \notin Kind[peer(e)]
<1>1. setting \in Settings
  BY DEF Typed, TypeOK, setting
<1>2. used.hiccups \in 0 .. MaxHiccup /\ used.hwms \in 0 .. MaxSetHwm
  BY DEF Typed, TypeOK
<1> QED
  BY <1>1, <1>2, PipePairAssumption
     DEF Hwm, InBoost, OutBoost, Kind, NewHwm, MaxHiccup, MaxSetHwm, MayHiccup, Ypipe

LEMMA Peers ==
  /\ \A e \in End : peer(e) \in End /\ peer(e) # e /\ peer(peer(e)) = e
  /\ \A e, f \in End : f = e \/ f = peer(e)
BY DEF End, peer

LEMMA UpipeTypes ==
  ASSUME NEW q \in Upipe
  PROVE  /\ RolledBack(q) \in Upipe
         /\ Flushed(q) \in Upipe
         /\ FoundEmpty(q) \in Upipe
         /\ \A n \in 0 .. Len(q.avail) : Drained(q, n) \in Upipe
         /\ \A f \in Frame : [q EXCEPT !.held = Append(@, f)] \in Upipe
         /\ [q EXCEPT !.status = "freed"] \in Upipe
<1>1. q.held \in Seq(Frame) /\ q.avail \in Seq(Frame)
  BY DEF Upipe
<1>2. /\ \A i \in 1 .. Len(q.held) : q.held[i] \in Frame
      /\ \A i \in 1 .. Len(q.avail) : q.avail[i] \in Frame
      /\ Len(q.held) \in Nat /\ Len(q.avail) \in Nat
  BY <1>1
<1>3. \A m, n \in 0 .. Len(q.held) : SubSeq(q.held, m + 1, n) \in Seq(Frame)
  BY <1>2, SubSeqProperties
<1>4. \A n \in 0 .. Len(q.avail) : SubSeq(q.avail, n + 1, Len(q.avail)) \in Seq(Frame)
  BY <1>2, SubSeqProperties
<1>5. LastWhole(q.held) \in 0 .. Len(q.held)
  BY <1>1, LastComplete
<1>6. RolledBack(q) \in Upipe
  <2>1. SubSeq(q.held, 1, LastWhole(q.held)) \in Seq(Frame)
    BY <1>2, <1>5, SubSeqProperties
  <2> QED
    BY <2>1 DEF RolledBack, Upipe
<1>7. Flushed(q) \in Upipe
  <2>1. /\ SubSeq(q.held, 1, LastWhole(q.held)) \in Seq(Frame)
        /\ SubSeq(q.held, LastWhole(q.held) + 1, Len(q.held)) \in Seq(Frame)
    BY <1>2, <1>5, SubSeqProperties
  <2>2. q.avail \o SubSeq(q.held, 1, LastWhole(q.held)) \in Seq(Frame)
    BY <1>1, <2>1
  <2> QED
    BY <2>1, <2>2 DEF Flushed, Upipe
<1>8. FoundEmpty(q) \in Upipe
  <2>1. <<>> \in Seq(Frame)
    BY EmptySeq
  <2> QED
    BY <2>1 DEF FoundEmpty, Upipe
<1>9. \A n \in 0 .. Len(q.avail) : Drained(q, n) \in Upipe
  BY <1>4 DEF Drained, Upipe
<1>10. ASSUME NEW f \in Frame PROVE [q EXCEPT !.held = Append(@, f)] \in Upipe
  <2>1. Append(q.held, f) \in Seq(Frame)
    BY <1>1, AppendProperties
  <2> QED
    BY <2>1 DEF Upipe
<1> QED
  BY <1>6, <1>7, <1>8, <1>9, <1>10 DEF Upipe
LEMMA PipeFacts ==
  ASSUME Typed, NEW e \in End
  PROVE  /\ end[e] \in Pipe
         /\ end[e].state \in State /\ end[e].msgs_read \in Nat /\ end[e].msgs_written \in Int
         /\ end[e].peers_msgs_read \in Nat /\ end[e].hwm \in Int /\ end[e].lwm \in Nat
         /\ end[e].inpipe \in Ypipe \cup {NULL} /\ end[e].outpipe \in Ypipe \cup {NULL}
         /\ cmds[e] \in Seq(Command)
         /\ \A y \in Ypipe : ypipe[y] \in Upipe
         /\ user[e] \in User
BY DEF Typed, TypeOK, Pipe

(* The commands that can be sent. *)
LEMMA CommandsSent ==
  /\ <<"activate_read">> \in Command /\ <<"pipe_term">> \in Command
  /\ <<"pipe_term_ack">> \in Command
  /\ \A n \in Nat : <<"activate_write", n>> \in Command
  /\ \A y \in Ypipe : <<"hiccup", y>> \in Command
  /\ \A a, b \in Int : <<"pipe_hwm", a, b>> \in Command
BY DEF Command

LEMMA OneOrNone == ASSUME NEW S, NEW c \in S PROVE <<c>> \in Seq(S) /\ <<>> \in Seq(S)
BY EmptySeq

LEMMA SendTyped ==
  ASSUME Typed, setting' = setting, NEW e \in End, NEW c \in Command, NEW s \in {<<>>, <<c>>},
         Send(e, s)
  PROVE  /\ cmds' \in [End -> Seq(Command)]
         /\ cmds'[e] = cmds[e] \o s /\ \A f \in End : f # e => cmds'[f] = cmds[f]
<1>1. s \in Seq(Command)
  BY OneOrNone
<1>2. cmds[e] \o s \in Seq(Command)
  BY <1>1, PipeFacts
<1> QED
  BY <1>2 DEF Send, Typed

LEMMA AnswerTyped ==
  ASSUME Typed, NEW e \in End, NEW c \in Command, NEW s \in {<<>>, <<c>>},
         cmds[e] # <<>>, Answer(e, s)
  PROVE  /\ cmds' \in [End -> Seq(Command)]
         /\ cmds'[e] = Tail(cmds[e]) /\ cmds'[peer(e)] = cmds[peer(e)] \o s
<1>1. s \in Seq(Command)
  BY OneOrNone
<1>2. cmds[peer(e)] \o s \in Seq(Command) /\ Tail(cmds[e]) \in Seq(Command)
  BY <1>1, PipeFacts, Peers, Taken
<1> QED
  BY <1>2, Peers DEF Answer, Typed

LEMMA SameSetting ==
  ASSUME setting' = setting
  PROVE  Ypipe' = Ypipe /\ Command' = Command /\ Pipe' = Pipe /\ MaxHiccup' = MaxHiccup
         /\ MaxSetHwm' = MaxSetHwm
BY DEF Ypipe, MaxHiccup, MaxSetHwm, Command, Pipe

LEMMA TypedAfter ==
  ASSUME Typed, setting' = setting, ypipe' \in [Ypipe -> Upipe], end' \in [End -> Pipe],
         finishing' \in [End -> BOOLEAN], cmds' \in [End -> Seq(Command)],
         user' \in [End -> User],
         used' \in [hiccups: 0 .. MaxHiccup, hwms: 0 .. MaxSetHwm, setting: Settings]
  PROVE  Typed'
BY SameSetting DEF Typed, TypeOK

LEMMA InitTyped == Init => Typed
<1> SUFFICES ASSUME Init PROVE Typed
  OBVIOUS
<1>1. /\ used \in [hiccups: {0}, hwms: {0}, setting: Settings]
      /\ setting \in Settings /\ used.hiccups = 0 /\ used.hwms = 0
  BY DEF Init, setting
<1>2. MaxHiccup \in Nat /\ MaxSetHwm \in Nat /\ Hwm \in [End -> Int] /\ {1, 2} \subseteq Ypipe
  BY <1>1, PipePairAssumption DEF MaxHiccup, MaxSetHwm, Hwm, Ypipe
<1>3. used \in [hiccups: 0 .. MaxHiccup, hwms: 0 .. MaxSetHwm, setting: Settings]
  BY <1>1, <1>2
<1>4. ypipe \in [Ypipe -> Upipe]
  <2>1. NewYpipe \in Upipe /\ [NewYpipe EXCEPT !.status = "unused"] \in Upipe
    BY EmptySeq DEF NewYpipe, Upipe
  <2> QED
    BY <2>1 DEF Init
<1>5. end \in [End -> Pipe]
  <2>1. \A n \in Int : compute_lwm(n) \in Nat
    BY DEF compute_lwm
  <2>2. \A e \in End : compute_lwm(Hwm[peer(e)]) \in Nat /\ Hwm[e] \in Int
    BY <1>2, <2>1, Peers
  <2>3. PICK delay \in [End -> BOOLEAN] :
          end = [e \in End |->
         [state |-> "active", delay |-> delay[e],
          inpipe |-> IF e = "session" THEN 2 ELSE 1,
          outpipe |-> IF e = "session" THEN 1 ELSE 2,
          in_active |-> TRUE, out_active |-> TRUE,
          hwm |-> Hwm[e], lwm |-> compute_lwm(Hwm[peer(e)]),
          msgs_read |-> 0, msgs_written |-> 0, peers_msgs_read |-> 0]]
    BY Zenon DEF Init
  <2>4. "active" \in State /\ \A e \in End : delay[e] \in BOOLEAN
    BY DEF State
  <2> QED
    BY <1>2, <2>2, <2>3, <2>4 DEF Pipe
<1>6. cmds \in [End -> Seq(Command)]
  BY EmptySeq DEF Init
<1>7. user \in [End -> User] /\ finishing \in [End -> BOOLEAN]
  BY DEF Init, User
<1> QED
  BY <1>3, <1>4, <1>5, <1>6, <1>7 DEF Typed, TypeOK
LEMMA UpipeChanged ==
  ASSUME Typed, NEW y, NEW q, y \in Ypipe => q \in Upipe, ypipe' = [ypipe EXCEPT ![y] = q]
  PROVE  ypipe' \in [Ypipe -> Upipe]
BY DEF Typed, TypeOK

LEMMA PipeChanged ==
  ASSUME Typed, NEW e \in End, NEW p \in Pipe, end' = [end EXCEPT ![e] = p]
  PROVE  end' \in [End -> Pipe]
BY DEF Typed, TypeOK

LEMMA WriteTyped ==
  ASSUME Typed, NEW e \in End, NEW kind \in Kind[e] \cup {"data"}, NEW more \in BOOLEAN,
         Write(e, kind, more)
  PROVE  Typed'
<1> DEFINE frame == [msg |-> user[e].written + 1, part |-> user[e].parts + 1,
                     more |-> more, kind |-> kind]
           y == end[e].outpipe
<1>1. user[e] \in User /\ kind \in {"data", "identity", "credential"}
  BY PipeFacts, SettingFacts
<1>2. frame \in Frame
  BY <1>1 DEF Frame, User
<1>3. ypipe' = [ypipe EXCEPT ![y] = [ypipe[y] EXCEPT !.held = Append(@, frame)]]
  BY DEF Write
<1>4. ypipe' \in [Ypipe -> Upipe]
  BY <1>2, <1>3, UpipeChanged, UpipeTypes, PipeFacts
<1>5. end' \in [End -> Pipe]
  <2>1. [end[e] EXCEPT !.msgs_written = @ + 1] \in Pipe
    BY PipeFacts DEF Pipe
  <2> QED
    BY <2>1 DEF Write, Typed, TypeOK
<1>6. user' \in [End -> User]
  <2> DEFINE w == IF more THEN user[e].written ELSE user[e].written + 1
             n == IF more THEN user[e].parts + 1 ELSE 0
  <2>1. w \in Nat /\ n \in Nat
    BY <1>1 DEF User
  <2>2. user' = [user EXCEPT ![e].written = w, ![e].parts = n]
    BY DEF Write
  <2> HIDE DEF w, n
  <2>3. [user[e] EXCEPT !.written = w, !.parts = n] \in User
    BY <1>1, <2>1 DEF User
  <2> QED
    BY <2>2, <2>3 DEF Typed
<1>7. UNCHANGED <<cmds, finishing, used, setting>>
  BY DEF Write, setting
<1> QED
  BY <1>4, <1>5, <1>6, <1>7, TypedAfter DEF Typed, TypeOK

LEMMA WriteFailsTyped == ASSUME Typed, NEW e \in End, WriteFails(e) PROVE Typed'
<1>1. [end[e] EXCEPT !.out_active = FALSE] \in Pipe
  BY PipeFacts DEF Pipe
<1>2. end' \in [End -> Pipe]
  BY <1>1 DEF WriteFails, Typed, TypeOK
<1>3. UNCHANGED <<ypipe, cmds, finishing, user, used, setting>>
  BY DEF WriteFails, setting
<1> QED
  BY <1>2, <1>3, TypedAfter DEF Typed, TypeOK

LEMMA rollbackTyped == ASSUME Typed, NEW e \in End, rollback(e) PROVE Typed'
<1> DEFINE y == end[e].outpipe
<1>1. ypipe' = ypipe \/ ypipe' = [ypipe EXCEPT ![y] = RolledBack(ypipe[y])]
  BY DEF rollback
<1>2. ypipe' \in [Ypipe -> Upipe]
  BY <1>1, UpipeChanged, UpipeTypes, PipeFacts DEF Typed, TypeOK
<1>3. user' \in [End -> User]
  <2>1. [user[e] EXCEPT !.parts = 0] \in User
    BY PipeFacts DEF User
  <2> QED
    BY <2>1 DEF rollback, Typed
<1>4. UNCHANGED <<end, cmds, finishing, used, setting>>
  BY DEF rollback, setting
<1> QED
  BY <1>2, <1>3, <1>4, TypedAfter DEF Typed, TypeOK

LEMMA flushTyped == ASSUME Typed, NEW e \in End, flush(e) PROVE Typed'
<1> DEFINE y == end[e].outpipe
<1>1. ypipe' = [ypipe EXCEPT ![y] = Flushed(ypipe[y])]
  BY DEF flush
<1>2. ypipe' \in [Ypipe -> Upipe]
  BY <1>1, UpipeChanged, UpipeTypes, PipeFacts
<1>3. UNCHANGED <<end, finishing, user, used, setting>>
  BY DEF flush, setting
<1>4. cmds' \in [End -> Seq(Command)]
  BY <1>3, SendTyped, CommandsSent, Peers DEF flush, ActivateRead
<1> QED
  BY <1>2, <1>3, <1>4, TypedAfter DEF Typed, TypeOK

(* What a reader finds. *)
LEMMA ItemTyped ==
  ASSUME Typed, NEW e \in End, end[e].inpipe # NULL,
         NEW n, n = NextItem(In(e).avail), n # 0
  PROVE  /\ In(e) = ypipe[end[e].inpipe] /\ end[e].inpipe \in Ypipe
         /\ In(e).avail \in Seq(Frame) /\ n \in 1 .. Len(In(e).avail)
         /\ In(e).avail[n] \in Frame /\ Drained(In(e), n) \in Upipe
<1>1. In(e) = ypipe[end[e].inpipe] /\ end[e].inpipe \in Ypipe
  BY PipeFacts DEF In
<1>2. In(e) \in Upipe /\ In(e).avail \in Seq(Frame)
  BY <1>1, PipeFacts DEF Upipe
<1>3. n \in 1 .. Len(In(e).avail)
  BY <1>2, FirstItem
<1>4. Drained(In(e), n) \in Upipe
  <2>1. \A m \in 0 .. Len(In(e).avail) : Drained(In(e), m) \in Upipe
    BY <1>2, UpipeTypes
  <2>2. n \in 0 .. Len(In(e).avail)
    BY <1>3
  <2> QED
    BY <2>1, <2>2
<1> QED
  BY <1>1, <1>2, <1>3, <1>4

LEMMA ReadMessageTyped ==
  ASSUME Typed, NEW e \in End, end[e].inpipe # NULL, ReadMessage(e)
  PROVE  Typed'
<1> DEFINE y == end[e].inpipe
           n == NextItem(In(e).avail)
           frame == In(e).avail[n]
           p == IF frame.more \/ frame.kind = "identity" THEN end[e]
                ELSE [end[e] EXCEPT !.msgs_read = @ + 1]
           s == IF p.lwm > 0 /\ p.msgs_read % p.lwm = 0
                THEN <<<<"activate_write", p.msgs_read>>>> ELSE <<>>
<1>1. /\ n # 0
      /\ ypipe' = [ypipe EXCEPT ![y] = Drained(ypipe[y], n)]
      /\ end' = [end EXCEPT ![e] = p]
      /\ Send(peer(e), s)
      /\ user' = [user EXCEPT ![e].last =
                       [msg |-> frame.msg, part |-> frame.part, more |-> frame.more]]
      /\ UNCHANGED <<finishing, used>>
  BY DEF ReadMessage
<1>2. frame \in Frame /\ In(e) = ypipe[y] /\ Drained(In(e), n) \in Upipe
  BY <1>1, ItemTyped
<1>3. ypipe' \in [Ypipe -> Upipe]
  BY ZenonT(40), <1>1, <1>2, UpipeChanged
<1>4. p \in Pipe
  <2>1. [end[e] EXCEPT !.msgs_read = @ + 1] \in Pipe /\ end[e] \in Pipe
    BY SMTT(30), PipeFacts DEF Pipe
  <2> QED
    BY <2>1
<1>5. end' \in [End -> Pipe]
  BY ZenonT(40), <1>1, <1>4, PipeChanged
<1>6. user' \in [End -> User]
  <2>1. PICK last : last = [msg |-> frame.msg, part |-> frame.part, more |-> frame.more]
    OBVIOUS
  <2>2. last \in [msg: Nat, part: Nat, more: BOOLEAN]
    BY <1>2, <2>1 DEF Frame
  <2>3. user[e] \in User
    BY PipeFacts
  <2>4. [user[e] EXCEPT !.last = last] \in User
    BY <2>2, <2>3 DEF User
  <2> QED
    BY <1>1, <2>1, <2>4 DEF Typed
<1>7. cmds' \in [End -> Seq(Command)]
  <2>1. <<"activate_write", p.msgs_read>> \in Command
    BY <1>4, CommandsSent DEF Pipe
  <2> HIDE DEF p, n
  <2> QED
    BY <1>1, <2>1, SendTyped, Peers DEF setting
<1> QED
  BY <1>1, <1>3, <1>5, <1>6, <1>7, TypedAfter DEF Typed, TypeOK, setting

LEMMA ReadDelimiterTyped ==
  ASSUME Typed, NEW e \in End, end[e].inpipe # NULL, ReadDelimiter(e)
  PROVE  Typed'
<1> DEFINE y == end[e].inpipe
           n == NextItem(In(e).avail)
<1>1. /\ n # 0
      /\ ypipe' = [ypipe EXCEPT ![y] = Drained(ypipe[y], n)]
      /\ UNCHANGED <<finishing, user, used>>
  BY DEF ReadDelimiter
<1>2. In(e) = ypipe[y] /\ Drained(In(e), n) \in Upipe
  BY <1>1, ItemTyped
<1>3. ypipe' \in [Ypipe -> Upipe]
  BY <1>1, <1>2, UpipeChanged
<1>4. end' \in [End -> Pipe]
  <2>1. /\ [end[e] EXCEPT !.state = "delimiter_received"] \in Pipe
        /\ [end[e] EXCEPT !.state = "term_ack_sent", !.outpipe = NULL] \in Pipe
    BY PipeFacts DEF Pipe, State
  <2> QED
    BY <2>1 DEF ReadDelimiter, Typed, TypeOK
<1>5. cmds' \in [End -> Seq(Command)]
  BY <1>1, SendTyped, CommandsSent, Peers DEF ReadDelimiter, Typed, setting
<1> QED
  BY <1>1, <1>3, <1>4, <1>5, TypedAfter DEF Typed, TypeOK, setting

LEMMA ReadEmptyTyped == ASSUME Typed, NEW e \in End, ReadEmpty(e) PROVE Typed'
<1> DEFINE y == end[e].inpipe
<1>1. ypipe' = [ypipe EXCEPT ![y] = FoundEmpty(ypipe[y])]
  BY DEF ReadEmpty
<1>2. ypipe' \in [Ypipe -> Upipe]
  BY <1>1, UpipeChanged, UpipeTypes, PipeFacts
<1>3. [end[e] EXCEPT !.in_active = FALSE] \in Pipe
  BY PipeFacts DEF Pipe
<1>4. end' \in [End -> Pipe]
  BY <1>3 DEF ReadEmpty, Typed, TypeOK
<1>5. UNCHANGED <<cmds, finishing, user, used, setting>>
  BY DEF ReadEmpty, setting
<1> QED
  BY <1>2, <1>4, <1>5, TypedAfter DEF Typed, TypeOK

LEMMA hiccupTyped == ASSUME Typed, NEW e \in End, hiccup(e) PROVE Typed'
<1> DEFINE new == 3 + used.hiccups
<1>1. new \in Ypipe /\ used.hiccups + 1 \in 0 .. MaxHiccup
  BY SMTT(30), SettingFacts DEF hiccup
<1>2. setting' = setting
  BY DEF hiccup, setting, Typed, TypeOK
<1>3. NewYpipe \in Upipe
  BY EmptySeq DEF NewYpipe, Upipe
<1>4. ypipe' \in [Ypipe -> Upipe]
  BY <1>3, UpipeChanged DEF hiccup
<1>5. end' \in [End -> Pipe]
  <2>1. [end[e] EXCEPT !.inpipe = new, !.in_active = TRUE] \in Pipe
    BY <1>1, PipeFacts DEF Pipe
  <2> QED
    BY <2>1 DEF hiccup, Typed, TypeOK
<1>6. cmds' \in [End -> Seq(Command)]
  BY <1>1, <1>2, SendTyped, CommandsSent, Peers DEF hiccup
<1>7. used' \in [hiccups: 0 .. MaxHiccup, hwms: 0 .. MaxSetHwm, setting: Settings]
  BY <1>1 DEF hiccup, Typed, TypeOK
<1> QED
  BY <1>2, <1>4, <1>5, <1>6, <1>7, TypedAfter DEF hiccup, Typed, TypeOK

LEMMA MarksTyped ==
  ASSUME Typed, NEW e \in End, NEW a \in Int, NEW b \in Int
  PROVE  set_hwms(e, end[e], a, b) \in Pipe
<1>1. InBoost[e] \in Int /\ OutBoost[e] \in Int
  BY SettingFacts
<1>2. \A n \in Int : compute_lwm(n) \in Nat
  BY DEF compute_lwm
<1> DEFINE in == IF a <= 0 \/ InBoost[e] = 0 THEN 0
                 ELSE a + (IF InBoost[e] > 0 THEN InBoost[e] ELSE 0)
           out == IF b <= 0 \/ OutBoost[e] = 0 THEN 0
                  ELSE b + (IF OutBoost[e] > 0 THEN OutBoost[e] ELSE 0)
<1>3. in \in Int /\ out \in Int
  BY <1>1
<1>4. set_hwms(e, end[e], a, b) = [end[e] EXCEPT !.lwm = compute_lwm(in), !.hwm = out]
  BY DEF set_hwms
<1> HIDE DEF in, out
<1> QED
  BY <1>2, <1>3, <1>4, PipeFacts DEF Pipe

(* New marks change nothing else. *)
LEMMA MarksOnly ==
  ASSUME Typed, NEW e \in End, NEW a \in Int, NEW b \in Int,
         end' = [end EXCEPT ![e] = set_hwms(e, end[e], a, b)]
  PROVE  /\ \A f \in End : f # e => end'[f] = end[f]
         /\ end'[e].state = end[e].state /\ end'[e].inpipe = end[e].inpipe
         /\ end'[e].outpipe = end[e].outpipe /\ end'[e].in_active = end[e].in_active
         /\ end'[e].msgs_read = end[e].msgs_read /\ end'[e].msgs_written = end[e].msgs_written
         /\ end'[e].peers_msgs_read = end[e].peers_msgs_read
<1> DEFINE in == IF a <= 0 \/ InBoost[e] = 0 THEN 0
                 ELSE a + (IF InBoost[e] > 0 THEN InBoost[e] ELSE 0)
           out == IF b <= 0 \/ OutBoost[e] = 0 THEN 0
                  ELSE b + (IF OutBoost[e] > 0 THEN OutBoost[e] ELSE 0)
           low == compute_lwm(in)
<1>1. set_hwms(e, end[e], a, b) = [end[e] EXCEPT !.lwm = low, !.hwm = out]
  BY DEF set_hwms
<1> HIDE DEF low, out
<1> QED
  BY <1>1 DEF Typed, TypeOK, Pipe

LEMMA ChangeHwmsTyped ==
  ASSUME Typed, NEW e \in End, NEW a \in NewHwm, NEW b \in NewHwm, ChangeHwms(e, a, b)
  PROVE  Typed'
<1>1. a \in Int /\ b \in Int /\ used.hwms + 1 \in 0 .. MaxSetHwm
  BY SMTT(30), SettingFacts DEF ChangeHwms
<1>2. setting' = setting
  BY DEF ChangeHwms, setting, Typed, TypeOK
<1>3. end' \in [End -> Pipe]
  BY <1>1, MarksTyped, PipeChanged DEF ChangeHwms
<1>4. cmds' \in [End -> Seq(Command)]
  BY <1>1, <1>2, SendTyped, CommandsSent, Peers DEF ChangeHwms
<1>5. used' \in [hiccups: 0 .. MaxHiccup, hwms: 0 .. MaxSetHwm, setting: Settings]
  BY <1>1 DEF ChangeHwms, Typed, TypeOK
<1> QED
  BY <1>2, <1>3, <1>4, <1>5, TypedAfter DEF ChangeHwms, Typed, TypeOK

LEMMA terminateTyped == ASSUME Typed, NEW e \in End, terminate(e) PROVE Typed'
<1>1. PICK delay \in BOOLEAN : \/ TerminateIgnored(e, delay)
                               \/ TerminateRequest(e, delay)
                               \/ TerminateWaiting(e, delay)
  BY DEF terminate
<1>2. UNCHANGED <<ypipe, used, setting>>
  BY <1>1 DEF TerminateIgnored, TerminateRequest, TerminateWaiting, Terminates, setting
<1>3. user' \in [End -> User]
  <2>1. [user[e] EXCEPT !.terms = @ + 1] \in User
    BY SMTT(30), PipeFacts DEF User
  <2> QED
    BY <1>1, <2>1 DEF TerminateIgnored, TerminateRequest, TerminateWaiting, Terminates, Typed
<1>4. end' \in [End -> Pipe]
  <2>1. /\ \A d \in BOOLEAN : [end[e] EXCEPT !.delay = d] \in Pipe
        /\ [end[e] EXCEPT !.delay = delay, !.state = "term_req_sent1"] \in Pipe
        /\ [end[e] EXCEPT !.delay = FALSE, !.state = "term_ack_sent",
                          !.outpipe = NULL, !.out_active = FALSE] \in Pipe
    BY PipeFacts DEF Pipe, State
  <2> QED
    BY <1>1, <2>1 DEF TerminateIgnored, TerminateRequest, TerminateWaiting, Typed, TypeOK
<1>5. finishing' \in [End -> BOOLEAN]
  BY <1>1 DEF TerminateIgnored, TerminateRequest, TerminateWaiting, Typed, TypeOK
<1>6. cmds' \in [End -> Seq(Command)]
  BY <1>1, <1>2, SendTyped, CommandsSent, Peers
     DEF TerminateIgnored, TerminateRequest, TerminateWaiting, Typed
<1> QED
  BY <1>2, <1>3, <1>4, <1>5, <1>6, TypedAfter DEF Typed, TypeOK

LEMMA TerminateFinishTyped ==
  ASSUME Typed, NEW e \in End, end[e].outpipe # NULL, TerminateFinish(e)
  PROVE  Typed'
<1> DEFINE y == end[e].outpipe
           q == [RolledBack(Out(e)) EXCEPT !.held = Append(@, Delimiter(e))]
<1>1. y \in Ypipe /\ Out(e) = ypipe[y] /\ ypipe[y] \in Upipe
  BY PipeFacts DEF Out
<1>2. Delimiter(e) \in Frame
  BY PipeFacts DEF Delimiter, Frame, User
<1>3. q \in Upipe /\ Flushed(q) \in Upipe
  BY <1>1, <1>2, UpipeTypes
<1>4. ypipe' \in [Ypipe -> Upipe]
  BY <1>3, UpipeChanged DEF TerminateFinish
<1>5. UNCHANGED <<used, setting>>
  BY DEF TerminateFinish, setting
<1>6. cmds' \in [End -> Seq(Command)]
  BY <1>5, SendTyped, CommandsSent, Peers DEF TerminateFinish, ActivateRead
<1>7. end' \in [End -> Pipe]
  <2>1. [end[e] EXCEPT !.out_active = FALSE] \in Pipe
    BY PipeFacts DEF Pipe
  <2> QED
    BY <2>1 DEF TerminateFinish, Typed, TypeOK
<1>8. user' \in [End -> User]
  <2>1. [user[e] EXCEPT !.parts = 0] \in User
    BY PipeFacts DEF User
  <2> QED
    BY <2>1 DEF TerminateFinish, Typed
<1>9. finishing' \in [End -> BOOLEAN]
  BY DEF TerminateFinish, Typed, TypeOK
<1> QED
  BY <1>4, <1>5, <1>6, <1>7, <1>8, <1>9, TypedAfter DEF Typed, TypeOK
(* The command at the head of the queue. *)
LEMMA ReceivedTyped ==
  ASSUME Typed, NEW e \in End, NEW type, Receives(e, type)
  PROVE  /\ cmds[e] # <<>> /\ Head(cmds[e]) \in Command /\ Head(cmds[e])[1] = type
         /\ type = "activate_write" => Head(cmds[e])[2] \in Nat
         /\ type = "hiccup" => Head(cmds[e])[2] \in Ypipe
         /\ type = "pipe_hwm" => Head(cmds[e])[2] \in Int /\ Head(cmds[e])[3] \in Int
         /\ UNCHANGED <<finishing, used, setting>>
<1>1. cmds[e] # <<>> /\ Head(cmds[e])[1] = type /\ UNCHANGED <<finishing, used, setting>>
  BY DEF Receives, setting
<1>2. Head(cmds[e]) \in Command
  BY <1>1, PipeFacts, Taken
<1> QED
  BY <1>1, <1>2, CommandFacts

LEMMA MessagesTyped == ASSUME NEW s \in Seq(Frame) PROVE Messages(s) \in Nat
<1>1. IsFiniteSet(1 .. Len(s)) /\ DOMAIN s = 1 .. Len(s)
  BY FS_Interval, LenProperties
<1>2. IsFiniteSet({i \in DOMAIN s : Complete(s[i])})
  BY <1>1, FS_Subset
<1> QED
  BY <1>2, FS_CardinalityType DEF Messages

LEMMA ProcessTyped ==
  ASSUME Typed, NEW e \in End,
         Receives(e, "hiccup") => end[e].outpipe # NULL, Process(e)
  PROVE  Typed'
<1>1. CASE process_activate_read(e)
  <2>1. cmds[e] # <<>> /\ UNCHANGED <<ypipe, user, finishing, used, setting>>
    BY <1>1, ReceivedTyped DEF process_activate_read
  <2>2. cmds' \in [End -> Seq(Command)]
    BY <1>1, <2>1, AnswerTyped, CommandsSent DEF process_activate_read
  <2>3. [end[e] EXCEPT !.in_active = TRUE] \in Pipe
    BY PipeFacts DEF Pipe
  <2>4. end' \in [End -> Pipe]
    BY <1>1, <2>3 DEF process_activate_read, Typed, TypeOK
  <2> QED
    BY <2>1, <2>2, <2>4, TypedAfter DEF Typed, TypeOK
<1>2. CASE process_activate_write(e)
  <2>1. /\ cmds[e] # <<>> /\ UNCHANGED <<ypipe, user, finishing, used, setting>>
        /\ Head(cmds[e])[2] \in Nat
    BY <1>2, ReceivedTyped DEF process_activate_write
  <2>2. cmds' \in [End -> Seq(Command)]
    BY <1>2, <2>1, AnswerTyped, CommandsSent DEF process_activate_write
  <2> DEFINE b == end[e].out_active \/ end[e].state = "active"
             n == Head(cmds[e])[2]
  <2>3. [end[e] EXCEPT !.peers_msgs_read = n, !.out_active = b] \in Pipe
    <3>1. b \in BOOLEAN
      BY PipeFacts DEF Pipe
    <3> HIDE DEF b, n
    <3> QED
      BY <2>1, <3>1, PipeFacts DEF Pipe, n
  <2>4. end' = [end EXCEPT ![e] = [end[e] EXCEPT !.peers_msgs_read = n, !.out_active = b]]
    BY <1>2 DEF process_activate_write
  <2>5. end' \in [End -> Pipe]
    BY <2>3, <2>4, PipeChanged
  <2> QED
    BY <2>1, <2>2, <2>5, TypedAfter DEF Typed, TypeOK
<1>3. CASE process_hiccup(e)
  <2>1. /\ cmds[e] # <<>> /\ UNCHANGED <<user, finishing, used, setting>>
        /\ Head(cmds[e])[2] \in Ypipe
    BY <1>3, ReceivedTyped DEF process_hiccup
  <2>2. cmds' \in [End -> Seq(Command)]
    BY <1>3, <2>1, AnswerTyped, CommandsSent DEF process_hiccup
  <2>3. end[e].outpipe \in Ypipe /\ Out(e) = ypipe[end[e].outpipe] /\ Out(e) \in Upipe
    BY <1>3, PipeFacts DEF process_hiccup, Out
  <2> DEFINE drained == Messages(Flushed(Out(e)).avail)
  <2>4. drained \in Nat
    BY <2>3, UpipeTypes, MessagesTyped DEF Upipe
  <2>5. ypipe' = [ypipe EXCEPT ![end[e].outpipe] = [Out(e) EXCEPT !.status = "freed"]]
    BY <1>3, <2>3 DEF process_hiccup
  <2>6. ypipe' \in [Ypipe -> Upipe]
    BY <2>3, <2>5, UpipeChanged, UpipeTypes
  <2> DEFINE new == Head(cmds[e])[2]
             w == end[e].msgs_written - drained
  <2>7. end' = [end EXCEPT ![e].outpipe = new, ![e].out_active = TRUE,
                           ![e].msgs_written = w]
    BY <1>3 DEF process_hiccup
  <2>8. w \in Int /\ new \in Ypipe
    BY <2>1, <2>4, PipeFacts
  <2>9. end' \in [End -> Pipe]
    <3> HIDE DEF new, w
    <3>1. [end[e] EXCEPT !.outpipe = new, !.out_active = TRUE, !.msgs_written = w] \in Pipe
      BY <2>8, PipeFacts DEF Pipe
    <3> QED
      BY <2>7, <3>1 DEF Typed, TypeOK
  <2> QED
    BY <2>1, <2>2, <2>6, <2>9, TypedAfter DEF Typed, TypeOK
<1>4. CASE process_pipe_hwm(e)
  <2>1. /\ cmds[e] # <<>> /\ UNCHANGED <<ypipe, user, finishing, used, setting>>
        /\ Head(cmds[e])[2] \in Int /\ Head(cmds[e])[3] \in Int
    BY <1>4, ReceivedTyped DEF process_pipe_hwm
  <2>2. cmds' \in [End -> Seq(Command)]
    BY <1>4, <2>1, AnswerTyped, CommandsSent DEF process_pipe_hwm
  <2>3. end' \in [End -> Pipe]
    BY <1>4, <2>1, MarksTyped, PipeChanged DEF process_pipe_hwm
  <2> QED
    BY <2>1, <2>2, <2>3, TypedAfter DEF Typed, TypeOK
<1>5. CASE process_pipe_term(e)
  <2>1. cmds[e] # <<>> /\ UNCHANGED <<ypipe, user, finishing, used, setting>>
    BY <1>5, ReceivedTyped DEF process_pipe_term
  <2>2. cmds' \in [End -> Seq(Command)]
    BY <1>5, <2>1, AnswerTyped, CommandsSent DEF process_pipe_term
  <2>3. /\ [end[e] EXCEPT !.state = "waiting_for_delimiter"] \in Pipe
        /\ \A t \in Acked : [end[e] EXCEPT !.outpipe = NULL, !.state = t] \in Pipe
    BY PipeFacts DEF Pipe, State, Acked
  <2>4. end' \in [End -> Pipe]
    BY <1>5, <2>3 DEF process_pipe_term, Typed, TypeOK, Acked
  <2> QED
    BY <2>1, <2>2, <2>4, TypedAfter DEF Typed, TypeOK
<1>6. CASE process_pipe_term_ack(e)
  <2>1. cmds[e] # <<>> /\ UNCHANGED <<user, finishing, used, setting>>
    BY <1>6, ReceivedTyped DEF process_pipe_term_ack
  <2>2. cmds' \in [End -> Seq(Command)]
    BY <1>6, <2>1, AnswerTyped, CommandsSent DEF process_pipe_term_ack
  <2> DEFINE y == end[e].inpipe
  <2>3. ypipe' = [ypipe EXCEPT ![y] = [ypipe[y] EXCEPT !.status = "freed"]]
    BY <1>6 DEF process_pipe_term_ack
  <2>4. ypipe' \in [Ypipe -> Upipe]
    BY <2>3, UpipeChanged, UpipeTypes, PipeFacts
  <2>5. [end[e] EXCEPT !.state = "deleted", !.inpipe = NULL, !.outpipe = NULL] \in Pipe
    BY PipeFacts DEF Pipe, State
  <2>6. end' \in [End -> Pipe]
    BY <1>6, <2>5 DEF process_pipe_term_ack, Typed, TypeOK
  <2> QED
    BY <2>1, <2>2, <2>4, <2>6, TypedAfter DEF Typed, TypeOK
<1> QED
  BY <1>1, <1>2, <1>3, <1>4, <1>5, <1>6 DEF Process
-----------------------------------------------------------------------------
(* The handshake, by what a step does to it: an end tells its peer         *)
(* something, takes a command, or moves to another state.                  *)

SameShape(e) == /\ end'[e].state = end[e].state
                /\ end'[e].outpipe = NULL <=> end[e].outpipe = NULL
                /\ end'[e].inpipe = NULL <=> end[e].inpipe = NULL

LEMMA EndsMeet ==
  ASSUME HandshakeInv, NEW e \in End
  PROVE  /\ Typed /\ Handshake(e) /\ Handshake(peer(e))
         /\ peer(e) \in End /\ peer(e) # e /\ peer(peer(e)) = e
         /\ cmds[e] \in Seq(Command) /\ cmds[peer(e)] \in Seq(Command)
         /\ end[e].state \in State /\ end[peer(e)].state \in State
BY Peers, PipeFacts DEF HandshakeInv

LEMMA HandshakeAfter ==
  ASSUME Typed', NEW e \in End, Handshake(e)', Handshake(peer(e))'
  PROVE  HandshakeInv'
BY Peers DEF HandshakeInv

(* Nothing is told, or a command that is no part of the handshake. *)
LEMMA ToldKeeps ==
  ASSUME HandshakeInv, Typed', NEW e \in End, NEW c \in Command, NEW s \in {<<>>, <<c>>},
         SameShape(e), SameShape(peer(e)),
         cmds'[e] = cmds[e], cmds'[peer(e)] = cmds[peer(e)] \o s,
         finishing'[peer(e)] = finishing[peer(e)],
         finishing'[e] => finishing[e] \/ end[e].state = "waiting_for_delimiter",
         \/ s = <<>>
         \/ c[1] \in {"activate_read", "activate_write"}
              /\ end[e].state \notin Acked \cup {"deleted"}
         \/ c[1] = "hiccup" /\ end[e].state = "active"
         \/ c[1] = "pipe_hwm"
  PROVE  HandshakeInv'
<1> DEFINE p == peer(e)
<1>1. /\ Handshake(e) /\ Handshake(p) /\ p \in End /\ p # e /\ peer(p) = e
      /\ cmds[p] \in Seq(Command) /\ end[e].state \in State
  BY EndsMeet
<1>2. Handshake(e)'
  BY <1>1 DEF Handshake, SameShape
<1>3. Handshake(p)'
  <2>1. CASE s = <<>>
    <3>1. cmds'[p] = cmds[p]
      BY <1>1, <2>1, ConcatEmptySeq
    <3> QED
      BY <1>1, <3>1 DEF Handshake, SameShape
  <2>2. CASE s = <<c>>
    <3>1. \A type : Has(cmds'[p], type) <=> Has(cmds[p], type) \/ c[1] = type
      BY <1>1, <2>2, HasTold
    <3>2. CASE c[1] \in {"activate_read", "activate_write"}
                 /\ end[e].state \notin Acked \cup {"deleted"}
      <4>1. ~Has(cmds[p], "pipe_term_ack") /\ end[p].state # "deleted"
        BY <1>1, <3>2 DEF Handshake, Meet, State, Acked, Open, Asked
      <4>2. Ordered(cmds'[p])
        BY <1>1, <2>2, <3>2, <4>1, OrderedTold DEF Handshake
      <4> QED
        BY <1>1, <3>1, <3>2, <4>1, <4>2 DEF Handshake, SameShape
    <3>3. CASE c[1] = "hiccup" /\ end[e].state = "active"
      <4>1. /\ ~Has(cmds[p], "pipe_term_ack") /\ end[p].state \in Open \cup {"term_req_sent1"}
            /\ ~Has(cmds[p], "pipe_term")
        BY <1>1, <3>3 DEF Handshake, Meet, State, Acked, Asked, Open
      <4>2. Ordered(cmds'[p])
        BY <1>1, <2>2, <3>3, <4>1, OrderedTold DEF Handshake
      <4> QED
        BY <1>1, <3>1, <3>3, <4>1, <4>2 DEF Handshake, SameShape, Open
    <3>4. CASE c[1] = "pipe_hwm"
      <4>1. Ordered(cmds'[p])
        BY <1>1, <2>2, <3>4, OrderedTold DEF Handshake
      <4>2. OnlyMarks(cmds[p]) => OnlyMarks(cmds'[p])
        BY <1>1, <2>2, <3>4, Told DEF OnlyMarks
      <4> QED
        BY <1>1, <3>1, <3>4, <4>1, <4>2 DEF Handshake, SameShape
    <3>5. s # <<>>
      BY <2>2
    <3> QED
      BY <3>2, <3>3, <3>4, <3>5
  <2> QED
    BY <2>1, <2>2
<1> QED
  BY <1>2, <1>3, HandshakeAfter

(* A command that is no part of the handshake is taken. *)
LEMMA TakenKeeps ==
  ASSUME HandshakeInv, Typed', NEW e \in End,
         SameShape(e), SameShape(peer(e)), UNCHANGED finishing,
         cmds[e] # <<>>, cmds'[e] = Tail(cmds[e]), cmds'[peer(e)] = cmds[peer(e)],
         Head(cmds[e])[1] \notin {"pipe_term", "pipe_term_ack"}
  PROVE  HandshakeInv'
<1> DEFINE p == peer(e)
<1>1. /\ Handshake(e) /\ Handshake(p) /\ p \in End /\ p # e /\ peer(p) = e
      /\ cmds[e] \in Seq(Command)
  BY EndsMeet
<1>2. Handshake(p)'
  BY <1>1 DEF Handshake, SameShape
<1>3. \A type : Has(cmds[e], type) <=> Head(cmds[e])[1] = type \/ Has(cmds'[e], type)
  BY <1>1, HasTaken
<1>4. Ordered(cmds'[e])
  BY <1>1, OrderedTaken DEF Handshake
<1>5. OnlyMarks(cmds[e]) => OnlyMarks(cmds'[e])
  BY <1>1, Taken DEF OnlyMarks
<1>6. Handshake(e)'
  BY <1>1, <1>3, <1>4, <1>5 DEF Handshake, SameShape
<1> QED
  BY <1>2, <1>6, HandshakeAfter
(* An end is given the delimiter before the peer's request. *)
LEMMA DelimitedKeeps ==
  ASSUME HandshakeInv, Typed', NEW e \in End,
         end[e].state = "active", end'[e].state = "delimiter_received",
         end'[e].outpipe = end[e].outpipe, end'[e].inpipe = end[e].inpipe,
         SameShape(peer(e)), UNCHANGED <<cmds, finishing>>
  PROVE  HandshakeInv'
<1>1. /\ Handshake(e) /\ Handshake(peer(e)) /\ peer(e) \in End /\ peer(e) # e
      /\ peer(peer(e)) = e
  BY EndsMeet
<1>2. Handshake(e)'
  BY <1>1 DEF Handshake, SameShape, Meet, Open, Acked, Asked
<1>3. Handshake(peer(e))'
  BY <1>1 DEF Handshake, SameShape, Meet, Open, Acked, Asked
<1> QED
  BY <1>2, <1>3, HandshakeAfter

(* An end asks for the termination. *)
LEMMA AskedKeeps ==
  ASSUME HandshakeInv, Typed', NEW e \in End,
         end[e].state \in Open, end'[e].state = "term_req_sent1",
         end'[e].outpipe = end[e].outpipe, end'[e].inpipe = end[e].inpipe,
         SameShape(peer(e)), finishing'[peer(e)] = finishing[peer(e)],
         cmds'[e] = cmds[e], cmds'[peer(e)] = cmds[peer(e)] \o <<<<"pipe_term">>>>
  PROVE  HandshakeInv'
<1> DEFINE p == peer(e)
           c == <<"pipe_term">>
<1>1. /\ Handshake(e) /\ Handshake(p) /\ p \in End /\ p # e /\ peer(p) = e
      /\ cmds[p] \in Seq(Command) /\ c \in Command
  BY EndsMeet, CommandsSent
<1>2. \A type : Has(cmds'[p], type) <=> Has(cmds[p], type) \/ "pipe_term" = type
  <2>1. c[1] = "pipe_term"
    OBVIOUS
  <2> QED
    BY <1>1, <2>1, HasTold
<1>3. /\ ~Has(cmds[p], "pipe_term") /\ ~Has(cmds[p], "pipe_term_ack")
      /\ end[p].state \in Open \cup {"term_req_sent1"}
  BY <1>1 DEF Handshake, Meet, Open, Acked, Asked
<1>4. Ordered(cmds'[p])
  BY <1>1, <1>3, OrderedTold DEF Handshake
<1>5. Handshake(e)'
  BY <1>1, <1>3 DEF Handshake, SameShape, Meet, Open, Acked, Asked
<1>6. Handshake(p)'
  BY <1>1, <1>2, <1>3, <1>4 DEF Handshake, SameShape, Meet, Open, Acked, Asked
<1> QED
  BY <1>5, <1>6, HandshakeAfter

(* The peer has asked, and an end that waited for the delimiter gives its ack. *)
LEMMA WaitedKeeps ==
  ASSUME HandshakeInv, Typed', NEW e \in End,
         end[e].state = "waiting_for_delimiter", end'[e].state = "term_ack_sent",
         end'[e].outpipe = NULL, end'[e].inpipe = end[e].inpipe,
         SameShape(peer(e)), UNCHANGED finishing, ~finishing[e],
         cmds'[e] = cmds[e], cmds'[peer(e)] = cmds[peer(e)] \o <<<<"pipe_term_ack">>>>
  PROVE  HandshakeInv'
<1> DEFINE p == peer(e)
           c == <<"pipe_term_ack">>
<1>1. /\ Handshake(e) /\ Handshake(p) /\ p \in End /\ p # e /\ peer(p) = e
      /\ cmds[p] \in Seq(Command) /\ c \in Command /\ c[1] = "pipe_term_ack"
  BY EndsMeet, CommandsSent
<1>2. \A type : Has(cmds'[p], type) <=> Has(cmds[p], type) \/ "pipe_term_ack" = type
  BY <1>1, HasTold
<1>3. /\ ~Has(cmds[p], "pipe_term") /\ ~Has(cmds[p], "pipe_term_ack")
      /\ end[p].state = "term_req_sent1"
      /\ ~Has(cmds[e], "pipe_term") /\ ~Has(cmds[e], "pipe_term_ack")
      /\ ~Has(cmds[e], "hiccup")
  BY <1>1 DEF Handshake, Meet, Open, Acked, Asked
<1>4. Ordered(cmds'[p])
  BY <1>1, <1>3, OrderedTold DEF Handshake
<1>5. Handshake(e)'
  BY <1>1, <1>3 DEF Handshake, SameShape, Meet, Open, Acked, Asked
<1>6. Handshake(p)'
  BY <1>1, <1>2, <1>3, <1>4 DEF Handshake, SameShape, Meet, Open, Acked, Asked
<1> QED
  BY <1>5, <1>6, HandshakeAfter

(* The peer asks, and an end waits for the delimiter ... *)
LEMMA AskedWaitsKeeps ==
  ASSUME HandshakeInv, Typed', NEW e \in End,
         end[e].state = "active", end'[e].state = "waiting_for_delimiter",
         end'[e].outpipe = end[e].outpipe, end'[e].inpipe = end[e].inpipe,
         SameShape(peer(e)), UNCHANGED finishing,
         cmds[e] # <<>>, Head(cmds[e])[1] = "pipe_term",
         cmds'[e] = Tail(cmds[e]), cmds'[peer(e)] = cmds[peer(e)]
  PROVE  HandshakeInv'
<1> DEFINE p == peer(e)
<1>1. /\ Handshake(e) /\ Handshake(p) /\ p \in End /\ p # e /\ peer(p) = e
      /\ cmds[e] \in Seq(Command)
  BY EndsMeet
<1>2. /\ Has(cmds[e], "pipe_term")
      /\ \A type : Has(cmds[e], type) <=> Head(cmds[e])[1] = type \/ Has(cmds'[e], type)
  BY <1>1, HasTaken
<1>3. Ordered(cmds'[e]) /\ ~Has(cmds'[e], "pipe_term") /\ ~Has(cmds'[e], "hiccup")
  BY <1>1, OrderedTaken DEF Handshake
<1>4. end[p].state = "term_req_sent1" /\ ~Has(cmds'[e], "pipe_term_ack")
  BY <1>1, <1>2 DEF Handshake, Meet, Open, Acked, Asked
<1>5. Handshake(e)'
  BY <1>1, <1>3, <1>4 DEF Handshake, SameShape, Meet, Open, Acked, Asked
<1>6. Handshake(p)'
  BY <1>1, <1>4 DEF Handshake, SameShape, Meet, Open, Acked, Asked
<1> QED
  BY <1>5, <1>6, HandshakeAfter

(* ... or gives its ack at once. *)
LEMMA AskedAcksKeeps ==
  ASSUME HandshakeInv, Typed', NEW e \in End,
         end'[e].state = IF end[e].state = "term_req_sent1"
                         THEN "term_req_sent2" ELSE "term_ack_sent",
         end'[e].outpipe = NULL, end'[e].inpipe = end[e].inpipe,
         SameShape(peer(e)), UNCHANGED finishing, ~finishing[e],
         cmds[e] # <<>>, Head(cmds[e])[1] = "pipe_term",
         cmds'[e] = Tail(cmds[e]),
         cmds'[peer(e)] = cmds[peer(e)] \o <<<<"pipe_term_ack">>>>
  PROVE  HandshakeInv'
<1> DEFINE p == peer(e)
           c == <<"pipe_term_ack">>
<1>1. /\ Handshake(e) /\ Handshake(p) /\ p \in End /\ p # e /\ peer(p) = e
      /\ cmds[e] \in Seq(Command) /\ cmds[p] \in Seq(Command)
      /\ c \in Command /\ c[1] = "pipe_term_ack"
  BY EndsMeet, CommandsSent
<1>2. \A type : Has(cmds'[p], type) <=> Has(cmds[p], type) \/ "pipe_term_ack" = type
  BY <1>1, HasTold
<1>3. /\ Has(cmds[e], "pipe_term")
      /\ \A type : Has(cmds[e], type) <=> Head(cmds[e])[1] = type \/ Has(cmds'[e], type)
  BY <1>1, HasTaken
<1>4. Ordered(cmds'[e]) /\ ~Has(cmds'[e], "pipe_term") /\ ~Has(cmds'[e], "hiccup")
  BY <1>1, OrderedTaken DEF Handshake
<1>5. /\ end[e].state \in Open \cup {"term_req_sent1"} /\ end[p].state \in Asked
      /\ end[e].state \in Open => end[p].state = "term_req_sent1"
      /\ ~Has(cmds[p], "pipe_term_ack")
      /\ Has(cmds'[e], "pipe_term_ack") <=> Has(cmds[e], "pipe_term_ack")
  BY <1>1, <1>3 DEF Handshake, Meet, Open, Acked, Asked
<1>6. Ordered(cmds'[p])
  <2>1. c[1] \notin {"pipe_term", "hiccup"}
    BY <1>1
  <2>2. Ordered(cmds[p]) /\ cmds'[p] = cmds[p] \o <<c>>
    BY <1>1 DEF Handshake
  <2> HIDE DEF c
  <2> QED
    BY <1>1, <1>5, <2>1, <2>2, OrderedTold
<1>7. Handshake(e)'
  BY <1>1, <1>4, <1>5 DEF Handshake, SameShape, Meet, Open, Acked, Asked
<1>8. Handshake(p)'
  BY <1>1, <1>2, <1>5, <1>6 DEF Handshake, SameShape, Meet, Open, Acked, Asked
<1> QED
  BY <1>7, <1>8, HandshakeAfter

(* The peer's ack is the end of an end; its own ack may still be due.      *)
LEMMA AckedKeeps ==
  ASSUME HandshakeInv, Typed', NEW e \in End,
         NEW s, s = IF end[e].state = "term_req_sent1" THEN <<<<"pipe_term_ack">>>> ELSE <<>>,
         end'[e].state = "deleted", end'[e].outpipe = NULL, end'[e].inpipe = NULL,
         SameShape(peer(e)), UNCHANGED finishing, ~finishing[e],
         cmds[e] # <<>>, Head(cmds[e])[1] = "pipe_term_ack",
         cmds'[e] = Tail(cmds[e]), cmds'[peer(e)] = cmds[peer(e)] \o s
  PROVE  HandshakeInv'
<1> DEFINE p == peer(e)
           c == <<"pipe_term_ack">>
<1>1. /\ Handshake(e) /\ Handshake(p) /\ p \in End /\ p # e /\ peer(p) = e
      /\ cmds[e] \in Seq(Command) /\ cmds[p] \in Seq(Command)
      /\ c \in Command /\ c[1] = "pipe_term_ack"
  BY EndsMeet, CommandsSent
<1>2. /\ Has(cmds[e], "pipe_term_ack")
      /\ \A type : Has(cmds[e], type) <=> Head(cmds[e])[1] = type \/ Has(cmds'[e], type)
  BY <1>1, HasTaken
<1>3. Ordered(cmds'[e]) /\ OnlyMarks(cmds'[e])
  BY <1>1, OrderedTaken DEF Handshake
<1>4. \A type : Has(cmds'[e], type) => type = "pipe_hwm"
  BY <1>3 DEF Has, OnlyMarks
<1>5. /\ end[p].state \in Acked \cup {"deleted"} /\ end[e].state # "deleted"
      /\ ~Has(cmds[e], "pipe_term")
  BY <1>1, <1>2, <1>4 DEF Handshake, Meet, Open, Acked, Asked
<1>6. Handshake(e)'
  BY <1>1, <1>3, <1>4, <1>5 DEF Handshake, SameShape, Meet, Open, Acked, Asked
<1>7. Handshake(p)'
  <2>1. CASE end[e].state = "term_req_sent1"
    <3>1. \A type : Has(cmds'[p], type) <=> Has(cmds[p], type) \/ "pipe_term_ack" = type
      BY <1>1, <2>1, HasTold
    <3>2. end[p].state = "term_ack_sent" /\ ~Has(cmds[p], "pipe_term_ack")
          /\ ~Has(cmds[p], "pipe_term")
      BY <1>1, <1>5, <2>1 DEF Handshake, Meet, Open, Acked, Asked
    <3>3. Ordered(cmds'[p])
      BY <1>1, <2>1, <3>2, OrderedTold DEF Handshake
    <3> QED
      BY <1>1, <2>1, <3>1, <3>2, <3>3 DEF Handshake, SameShape, Meet, Open, Acked, Asked
  <2>2. CASE end[e].state # "term_req_sent1"
    <3>1. cmds'[p] = cmds[p]
      BY <1>1, <2>2, ConcatEmptySeq
    <3>2. end[e].state \in Acked
      BY <1>1, <1>5, <2>2 DEF Handshake, Meet, Open, Acked, Asked
    <3> QED
      BY <1>1, <1>5, <3>1, <3>2 DEF Handshake, SameShape, Meet, Open, Acked, Asked
  <2> QED
    BY <2>1, <2>2
<1> QED
  BY <1>6, <1>7, HandshakeAfter
-----------------------------------------------------------------------------
(* Which step is which. *)

LEMMA RunsFacts ==
  ASSUME HandshakeInv, NEW e \in End, end[e].state # "deleted"
  PROVE  end[e].inpipe # NULL /\ end[e].inpipe \in Ypipe
BY PipeFacts DEF HandshakeInv, Handshake

LEMMA QuietKeeps ==
  ASSUME HandshakeInv, Typed', NEW e \in End,
         SameShape(e), SameShape(peer(e)), UNCHANGED <<cmds, finishing>>
  PROVE  HandshakeInv'
<1>1. cmds'[peer(e)] = cmds[peer(e)] \o <<>> /\ cmds[peer(e)] \in Seq(Command)
  BY EndsMeet, ConcatEmptySeq
<1> QED
  BY <1>1, ToldKeeps, CommandsSent

LEMMA UserKeepsHandshake ==
  ASSUME HandshakeInv, NEW e \in End,
         \/ \E kind \in Kind[e] \cup {"data"}, more \in BOOLEAN : Write(e, kind, more)
         \/ WriteFails(e) \/ rollback(e) \/ flush(e)
         \/ ReadMessage(e) \/ ReadEmpty(e)
         \/ hiccup(e)
         \/ \E in, out \in NewHwm : ChangeHwms(e, in, out)
  PROVE  HandshakeInv'
<1>0. Typed /\ Handshake(e) /\ peer(e) # e /\ peer(e) \in End
  BY EndsMeet
<1>1. ASSUME NEW kind \in Kind[e] \cup {"data"}, NEW more \in BOOLEAN, Write(e, kind, more)
      PROVE  HandshakeInv'
  <2>1. SameShape(e) /\ SameShape(peer(e)) /\ UNCHANGED <<cmds, finishing>>
    BY <1>0, <1>1 DEF Write, SameShape, Typed, TypeOK, Pipe
  <2> QED
    BY <1>0, <1>1, <2>1, WriteTyped, QuietKeeps
<1>2. CASE WriteFails(e)
  <2>1. SameShape(e) /\ SameShape(peer(e)) /\ UNCHANGED <<cmds, finishing>>
    BY <1>0, <1>2 DEF WriteFails, SameShape, Typed, TypeOK, Pipe
  <2> QED
    BY <1>0, <1>2, <2>1, WriteFailsTyped, QuietKeeps
<1>3. CASE rollback(e)
  <2>1. SameShape(e) /\ SameShape(peer(e)) /\ UNCHANGED <<cmds, finishing>>
    BY <1>3 DEF rollback, SameShape
  <2> QED
    BY <1>0, <1>3, <2>1, rollbackTyped, QuietKeeps
<1>4. CASE flush(e)
  <2> DEFINE s == ActivateRead(Out(e))
  <2>1. SameShape(e) /\ SameShape(peer(e)) /\ UNCHANGED <<finishing, setting>>
    BY <1>4 DEF flush, SameShape, setting
  <2>2. s \in {<<>>, <<<<"activate_read">>>>} /\ Send(peer(e), s)
    BY <1>4 DEF flush, ActivateRead
  <2>3. cmds'[e] = cmds[e] /\ cmds'[peer(e)] = cmds[peer(e)] \o s
    BY <1>0, <2>1, <2>2, SendTyped, CommandsSent
  <2>4. end[e].state \notin Acked \cup {"deleted"}
    BY <1>0, <1>4 DEF flush, Handshake, Acked, Runs
  <2> HIDE DEF s
  <2> QED
    BY <1>0, <1>4, <2>1, <2>2, <2>3, <2>4, flushTyped, ToldKeeps, CommandsSent
<1>5. CASE ReadMessage(e)
  <2> DEFINE frame == In(e).avail[NextItem(In(e).avail)]
             p == IF frame.more \/ frame.kind = "identity" THEN end[e]
                  ELSE [end[e] EXCEPT !.msgs_read = @ + 1]
             c == <<"activate_write", p.msgs_read>>
             s == IF p.lwm > 0 /\ p.msgs_read % p.lwm = 0 THEN <<c>> ELSE <<>>
  <2>1. /\ end' = [end EXCEPT ![e] = p] /\ Send(peer(e), s) /\ Readable(e)
        /\ UNCHANGED <<finishing, setting>>
    BY <1>5 DEF ReadMessage, setting
  <2>2. p.state = end[e].state /\ p.outpipe = end[e].outpipe /\ p.inpipe = end[e].inpipe
        /\ p.msgs_read \in Nat
    BY <1>0, PipeFacts DEF Pipe
  <2>3. SameShape(e) /\ SameShape(peer(e))
    <3> HIDE DEF p
    <3> QED
      BY <1>0, <2>1, <2>2 DEF SameShape, Typed, TypeOK
  <2>4. c \in Command /\ s \in {<<>>, <<c>>}
    BY <2>2, CommandsSent
  <2>5. c[1] = "activate_write"
    OBVIOUS
  <2>6. end[e].state \notin Acked \cup {"deleted"}
    BY <2>1 DEF Readable, Acked, Runs
  <2>7. end[e].inpipe # NULL
    BY <2>6, RunsFacts
  <2> HIDE DEF p, c, s
  <2>8. cmds'[e] = cmds[e] /\ cmds'[peer(e)] = cmds[peer(e)] \o s
    BY <1>0, <2>1, <2>4, SendTyped
  <2> QED
    BY <1>0, <1>5, <2>1, <2>3, <2>4, <2>5, <2>6, <2>7, <2>8, ReadMessageTyped, ToldKeeps
<1>6. CASE ReadEmpty(e)
  <2>1. SameShape(e) /\ SameShape(peer(e)) /\ UNCHANGED <<cmds, finishing>>
    BY <1>0, <1>6 DEF ReadEmpty, SameShape, Typed, TypeOK, Pipe
  <2> QED
    BY <1>0, <1>6, <2>1, ReadEmptyTyped, QuietKeeps
<1>7. CASE hiccup(e)
  <2> DEFINE c == <<"hiccup", 3 + used.hiccups>>
  <2>1. /\ end' = [end EXCEPT ![e].inpipe = 3 + used.hiccups, ![e].in_active = TRUE]
        /\ Send(peer(e), <<c>>) /\ UNCHANGED finishing
        /\ end[e].state = "active" /\ used.hiccups < MaxHiccup
    BY <1>7 DEF hiccup
  <2>2. 3 + used.hiccups \in Ypipe /\ 3 + used.hiccups # NULL /\ end[e].inpipe # NULL
    <3>1. /\ MaxHiccup \in Nat /\ used.hiccups \in 0 .. MaxHiccup
          /\ NULL \notin Ypipe /\ Ypipe = 1 .. 2 + MaxHiccup
      BY <1>0, SettingFacts
    <3>2. end[e].inpipe # NULL
      BY <2>1, RunsFacts
    <3> QED
      BY <2>1, <3>1, <3>2
  <2>3. SameShape(e) /\ SameShape(peer(e))
    BY SMTT(30), <1>0, <2>1, <2>2 DEF SameShape, Typed, TypeOK, Pipe
  <2>4. c \in Command /\ c[1] = "hiccup"
    BY <2>2, CommandsSent
  <2>5. setting' = setting
    BY <1>0, <1>7 DEF hiccup, setting, Typed, TypeOK
  <2> HIDE DEF c
  <2>6. cmds'[e] = cmds[e] /\ cmds'[peer(e)] = cmds[peer(e)] \o <<c>>
    BY <1>0, <2>1, <2>4, <2>5, SendTyped
  <2> QED
    BY <1>0, <1>7, <2>1, <2>3, <2>4, <2>6, hiccupTyped, ToldKeeps
<1>8. ASSUME NEW in \in NewHwm, NEW out \in NewHwm, ChangeHwms(e, in, out)
      PROVE  HandshakeInv'
  <2> DEFINE c == <<"pipe_hwm", out, in>>
  <2>1. /\ end' = [end EXCEPT ![e] = set_hwms(e, end[e], in, out)]
        /\ Send(peer(e), <<c>>) /\ UNCHANGED finishing
    BY <1>8 DEF ChangeHwms
  <2>2. in \in Int /\ out \in Int
    BY <1>0, SettingFacts
  <2>3. SameShape(e) /\ SameShape(peer(e))
    BY <1>0, <2>1 DEF SameShape, Typed, TypeOK, Pipe, set_hwms
  <2>4. c \in Command /\ c[1] = "pipe_hwm"
    BY <2>2, CommandsSent
  <2>5. setting' = setting
    BY <1>0, <1>8 DEF ChangeHwms, setting, Typed, TypeOK
  <2> HIDE DEF c
  <2>6. cmds'[e] = cmds[e] /\ cmds'[peer(e)] = cmds[peer(e)] \o <<c>>
    BY <1>0, <2>1, <2>4, <2>5, SendTyped
  <2> QED
    BY <1>0, <1>8, <2>1, <2>3, <2>4, <2>6, ChangeHwmsTyped, ToldKeeps
<1> QED
  BY <1>1, <1>2, <1>3, <1>4, <1>5, <1>6, <1>7, <1>8
LEMMA TerminationKeepsHandshake ==
  ASSUME HandshakeInv, NEW e \in End,
         ReadDelimiter(e) \/ terminate(e) \/ TerminateFinish(e)
  PROVE  HandshakeInv'
<1>0. Typed /\ Handshake(e) /\ peer(e) # e /\ peer(e) \in End /\ end[e] \in Pipe
  BY EndsMeet, PipeFacts
<1>1. CASE ReadDelimiter(e)
  <2>1. /\ Readable(e) /\ UNCHANGED <<finishing, setting>> /\ ~finishing[e]
        /\ end[e].state \in {"active", "waiting_for_delimiter"}
    BY <1>1 DEF ReadDelimiter, Readable, Runs, setting
  <2>2. Typed'
    BY <1>0, <1>1, <2>1, RunsFacts, ReadDelimiterTyped
  <2>3. CASE end[e].state = "active"
    <3>1. /\ end'[e].state = "delimiter_received" /\ end'[e].outpipe = end[e].outpipe
          /\ end'[e].inpipe = end[e].inpipe /\ SameShape(peer(e)) /\ UNCHANGED cmds
      BY <1>0, <1>1, <2>3 DEF ReadDelimiter, Typed, TypeOK, Pipe, SameShape
    <3> QED
      BY <2>1, <2>2, <2>3, <3>1, DelimitedKeeps
  <2>4. CASE end[e].state = "waiting_for_delimiter"
    <3>1. /\ end'[e].state = "term_ack_sent" /\ end'[e].outpipe = NULL
          /\ end'[e].inpipe = end[e].inpipe /\ SameShape(peer(e))
      BY <1>0, <1>1, <2>4 DEF ReadDelimiter, Typed, TypeOK, Pipe, SameShape
    <3>2. Send(peer(e), <<<<"pipe_term_ack">>>>)
      BY <1>1, <2>4 DEF ReadDelimiter
    <3>3. cmds'[e] = cmds[e] /\ cmds'[peer(e)] = cmds[peer(e)] \o <<<<"pipe_term_ack">>>>
      BY <1>0, <2>1, <3>2, SendTyped, CommandsSent
    <3> QED
      BY <2>1, <2>2, <2>4, <3>1, <3>3, WaitedKeeps
  <2> QED
    BY <2>1, <2>3, <2>4
<1>2. CASE terminate(e)
  <2>0. Typed'
    BY <1>0, <1>2, terminateTyped
  <2>1. PICK delay \in BOOLEAN : \/ TerminateIgnored(e, delay)
                                 \/ TerminateRequest(e, delay)
                                 \/ TerminateWaiting(e, delay)
    BY <1>2 DEF terminate
  <2>2. UNCHANGED setting /\ ~finishing[e]
    BY <2>1 DEF TerminateIgnored, TerminateRequest, TerminateWaiting, Terminates, Runs, setting
  <2>3. CASE TerminateIgnored(e, delay)
    <3>1. SameShape(e) /\ SameShape(peer(e)) /\ UNCHANGED <<cmds, finishing>>
      BY <1>0, <2>3 DEF TerminateIgnored, SameShape, Typed, TypeOK, Pipe
    <3> QED
      BY <2>0, <3>1, QuietKeeps
  <2>4. CASE TerminateRequest(e, delay)
    <3>1. /\ end[e].state \in Open /\ end'[e].state = "term_req_sent1"
          /\ end'[e].outpipe = end[e].outpipe /\ end'[e].inpipe = end[e].inpipe
          /\ SameShape(peer(e)) /\ finishing'[peer(e)] = finishing[peer(e)]
      BY <1>0, <2>4 DEF TerminateRequest, Typed, TypeOK, Pipe, SameShape, Open
    <3>2. Send(peer(e), <<<<"pipe_term">>>>)
      BY <2>4 DEF TerminateRequest
    <3>3. cmds'[e] = cmds[e] /\ cmds'[peer(e)] = cmds[peer(e)] \o <<<<"pipe_term">>>>
      BY <1>0, <2>2, <3>2, SendTyped, CommandsSent
    <3> QED
      BY <2>0, <3>1, <3>3, AskedKeeps
  <2>5. CASE TerminateWaiting(e, delay) /\ delay
    <3>1. /\ SameShape(e) /\ SameShape(peer(e)) /\ UNCHANGED cmds
          /\ end[e].state = "waiting_for_delimiter"
          /\ finishing'[peer(e)] = finishing[peer(e)]
      BY <1>0, <2>5 DEF TerminateWaiting, SameShape, Typed, TypeOK, Pipe
    <3>2. cmds'[peer(e)] = cmds[peer(e)] \o <<>>
      BY <1>0, <3>1, EndsMeet, ConcatEmptySeq
    <3> QED
      BY <2>0, <3>1, <3>2, ToldKeeps, CommandsSent
  <2>6. CASE TerminateWaiting(e, delay) /\ ~delay
    <3>1. /\ end[e].state = "waiting_for_delimiter"
          /\ end'[e].state = "term_ack_sent" /\ end'[e].outpipe = NULL
          /\ end'[e].inpipe = end[e].inpipe /\ SameShape(peer(e)) /\ UNCHANGED finishing
      BY <1>0, <2>6 DEF TerminateWaiting, Typed, TypeOK, Pipe, SameShape
    <3>2. Send(peer(e), <<<<"pipe_term_ack">>>>)
      BY <2>6 DEF TerminateWaiting
    <3>3. cmds'[e] = cmds[e] /\ cmds'[peer(e)] = cmds[peer(e)] \o <<<<"pipe_term_ack">>>>
      BY <1>0, <2>2, <3>2, SendTyped, CommandsSent
    <3> QED
      BY <2>0, <2>2, <3>1, <3>3, WaitedKeeps
  <2> QED
    BY <2>1, <2>3, <2>4, <2>5, <2>6
<1>3. CASE TerminateFinish(e)
  <2> DEFINE q == [RolledBack(Out(e)) EXCEPT !.held = Append(@, Delimiter(e))]
             s == ActivateRead(q)
  <2>1. /\ finishing[e] /\ finishing' = [finishing EXCEPT ![e] = FALSE]
        /\ Send(peer(e), s) /\ UNCHANGED setting
    BY <1>3 DEF TerminateFinish, setting
  <2>2. SameShape(e) /\ SameShape(peer(e))
    BY <1>0, <1>3 DEF TerminateFinish, SameShape, Typed, TypeOK, Pipe
  <2>3. end[e].state \notin Acked \cup {"deleted"} /\ end[e].outpipe # NULL
    BY <1>0, <2>1 DEF Handshake, Acked
  <2>4. s \in {<<>>, <<<<"activate_read">>>>}
    BY DEF ActivateRead
  <2> HIDE DEF s
  <2>5. cmds'[e] = cmds[e] /\ cmds'[peer(e)] = cmds[peer(e)] \o s
    BY <1>0, <2>1, <2>4, SendTyped, CommandsSent
  <2>6. finishing'[peer(e)] = finishing[peer(e)] /\ ~finishing'[e]
    BY <1>0, <2>1 DEF Typed, TypeOK
  <2> QED
    BY <1>0, <1>3, <2>2, <2>3, <2>4, <2>5, <2>6, TerminateFinishTyped, ToldKeeps, CommandsSent
<1> QED
  BY <1>1, <1>2, <1>3

LEMMA ProcessKeepsHandshake ==
  ASSUME HandshakeInv, NEW e \in End, Process(e)
  PROVE  HandshakeInv'
<1>0. Typed /\ Handshake(e) /\ peer(e) # e /\ peer(e) \in End /\ end[e] \in Pipe
      /\ cmds[e] \in Seq(Command) /\ cmds[peer(e)] \in Seq(Command)
  BY EndsMeet, PipeFacts
<1>1. /\ cmds[e] # <<>> /\ UNCHANGED <<finishing, setting>> /\ ~finishing[e]
      /\ end[e].state # "deleted"
  BY DEF Process, process_activate_read, process_activate_write, process_hiccup,
         process_pipe_hwm, process_pipe_term, process_pipe_term_ack, Receives, Runs, setting
<1>2. \A type : Has(cmds[e], type) <=> Head(cmds[e])[1] = type \/ Has(Tail(cmds[e]), type)
  BY <1>0, <1>1, HasTaken
<1>3. Typed'
  <2>1. Receives(e, "hiccup") => end[e].outpipe # NULL
    BY <1>0, <1>2 DEF Receives, Handshake, Open, Acked
  <2> QED
    BY <1>0, <2>1, ProcessTyped
<1>4. \A s \in {<<>>, <<<<"pipe_term_ack">>>>} :
        Answer(e, s) => /\ cmds'[e] = Tail(cmds[e])
                        /\ cmds'[peer(e)] = cmds[peer(e)] \o s
  BY <1>0, <1>1, AnswerTyped, CommandsSent
<1>5. cmds[peer(e)] \o <<>> = cmds[peer(e)]
  BY <1>0, ConcatEmptySeq
<1>6. CASE process_activate_read(e) \/ process_activate_write(e) \/ process_hiccup(e)
             \/ process_pipe_hwm(e)
  <2>1. /\ Head(cmds[e])[1] \notin {"pipe_term", "pipe_term_ack"} /\ Answer(e, <<>>)
    BY <1>6 DEF process_activate_read, process_activate_write, process_hiccup,
                process_pipe_hwm, Receives
  <2>2. /\ SameShape(peer(e)) /\ end'[e].state = end[e].state /\ end'[e].inpipe = end[e].inpipe
        /\ process_hiccup(e) \/ end'[e].outpipe = end[e].outpipe
    <3>1. CASE process_activate_read(e)
      BY <1>0, <3>1 DEF process_activate_read, Typed, TypeOK, Pipe, SameShape
    <3>2. CASE process_activate_write(e)
      BY <1>0, <3>2 DEF process_activate_write, Typed, TypeOK, Pipe, SameShape
    <3>3. CASE process_hiccup(e)
      BY <1>0, <3>3 DEF process_hiccup, Typed, TypeOK, Pipe, SameShape
    <3>4. CASE process_pipe_hwm(e)
      <4>1. Head(cmds[e])[2] \in Int /\ Head(cmds[e])[3] \in Int
        BY <1>0, <3>4, ReceivedTyped DEF process_pipe_hwm
      <4> QED
        BY <1>0, <3>4, <4>1, MarksOnly DEF process_pipe_hwm, SameShape
    <3> QED
      BY <1>6, <3>1, <3>2, <3>3, <3>4
  <2>3. end'[e].outpipe = NULL <=> end[e].outpipe = NULL
    <3>1. CASE process_hiccup(e)
      <4>1. Has(cmds[e], "hiccup")
        BY <1>2, <3>1 DEF process_hiccup, Receives
      <4>2. end[e].outpipe # NULL
        BY <1>0, <4>1 DEF Handshake, Open, Acked
      <4>3. Head(cmds[e])[2] \in Ypipe /\ NULL \notin Ypipe
        BY <1>0, <3>1, ReceivedTyped, SettingFacts DEF process_hiccup
      <4>4. end'[e].outpipe = Head(cmds[e])[2]
        BY <1>0, <3>1 DEF process_hiccup, Typed, TypeOK, Pipe
      <4> QED
        BY <4>2, <4>3, <4>4
    <3>2. CASE ~process_hiccup(e)
      BY <2>2, <3>2
    <3> QED
      BY <3>1, <3>2
  <2> QED
    <3>1. SameShape(e) /\ SameShape(peer(e))
      BY <2>2, <2>3 DEF SameShape
    <3> QED
      BY <1>1, <1>3, <1>4, <1>5, <2>1, <3>1, TakenKeeps
<1>7. CASE process_pipe_term(e)
  <2>1. Head(cmds[e])[1] = "pipe_term"
    BY <1>7 DEF process_pipe_term, Receives
  <2>2. CASE end[e].state = "active" /\ end[e].delay
    <3>1. /\ end'[e].state = "waiting_for_delimiter" /\ end'[e].outpipe = end[e].outpipe
          /\ end'[e].inpipe = end[e].inpipe /\ SameShape(peer(e)) /\ Answer(e, <<>>)
      BY <1>0, <1>7, <2>2 DEF process_pipe_term, Typed, TypeOK, Pipe, SameShape
    <3> QED
      BY <1>1, <1>3, <1>4, <1>5, <2>1, <2>2, <3>1, AskedWaitsKeeps
  <2>3. CASE ~(end[e].state = "active" /\ end[e].delay)
    <3>1. /\ end'[e].state = IF end[e].state = "term_req_sent1"
                             THEN "term_req_sent2" ELSE "term_ack_sent"
          /\ end'[e].outpipe = NULL
          /\ end'[e].inpipe = end[e].inpipe /\ SameShape(peer(e))
          /\ Answer(e, <<<<"pipe_term_ack">>>>)
      BY <1>0, <1>7, <2>3 DEF process_pipe_term, Typed, TypeOK, Pipe, SameShape
    <3> QED
      BY <1>1, <1>3, <1>4, <2>1, <3>1, AskedAcksKeeps
  <2> QED
    BY <2>2, <2>3
<1>8. CASE process_pipe_term_ack(e)
  <2> DEFINE s == IF end[e].state = "term_req_sent1" THEN <<<<"pipe_term_ack">>>> ELSE <<>>
  <2>1. /\ Head(cmds[e])[1] = "pipe_term_ack" /\ Answer(e, s)
        /\ end'[e].state = "deleted" /\ end'[e].outpipe = NULL /\ end'[e].inpipe = NULL
        /\ SameShape(peer(e))
    BY <1>0, <1>8 DEF process_pipe_term_ack, Receives, Typed, TypeOK, Pipe, SameShape
  <2>2. cmds'[e] = Tail(cmds[e]) /\ cmds'[peer(e)] = cmds[peer(e)] \o s
    BY <1>4, <2>1
  <2> QED
    BY <1>1, <1>3, <2>1, <2>2, AckedKeeps
<1> QED
  BY <1>6, <1>7, <1>8 DEF Process
LEMMA InitHandshake == Init => HandshakeInv
<1> SUFFICES ASSUME Init PROVE HandshakeInv
  OBVIOUS
<1>1. Typed
  BY InitTyped
<1>2. NULL \notin Ypipe /\ {1, 2} \subseteq Ypipe
  BY <1>1, SettingFacts
<1>3. \A e \in End : /\ end[e].state = "active" /\ cmds[e] = <<>> /\ ~finishing[e]
                     /\ end[e].inpipe # NULL /\ end[e].outpipe # NULL
  BY <1>2 DEF Init, End
<1>4. \A type : ~Has(<<>>, type)
  BY DEF Has
<1>5. Ordered(<<>>)
  BY DEF Ordered
<1>6. ASSUME NEW e \in End PROVE Handshake(e)
  <2>1. peer(e) \in End
    BY Peers
  <2> QED
    BY <1>3, <1>4, <1>5, <2>1 DEF Handshake, Meet, Open, Acked, Asked
<1> QED
  BY <1>1, <1>6 DEF HandshakeInv

LEMMA NextHandshake == HandshakeInv /\ [Next]_vars => HandshakeInv'
<1> SUFFICES ASSUME HandshakeInv, [Next]_vars PROVE HandshakeInv'
  OBVIOUS
<1>1. CASE Next
  BY <1>1, UserKeepsHandshake, TerminationKeepsHandshake, ProcessKeepsHandshake
     DEF Next, Step, Read
<1>2. CASE UNCHANGED vars
  <2>1. setting' = setting
    BY <1>2 DEF vars, setting
  <2>2. Typed'
    BY <1>2, <2>1, TypedAfter DEF vars, HandshakeInv, Typed, TypeOK
  <2>3. ASSUME NEW e \in End PROVE Handshake(e)'
    BY <1>2 DEF vars, HandshakeInv, Handshake
  <2> QED
    BY <2>2, <2>3 DEF HandshakeInv
<1> QED
  BY <1>1, <1>2

(* The types, and what the states of the two ends say about each other and *)
(* about the commands between them, are invariant: whatever both users do  *)
(* and in whichever order the commands of both threads are processed.      *)
THEOREM HandshakeInvariant == Spec => []HandshakeInv
BY InitHandshake, NextHandshake, PTL DEF Spec

(* No end is ever sent a request, an ack or a hiccup in a state in which   *)
(* the assertions of process_pipe_term, process_pipe_term_ack and          *)
(* process_hiccup do not hold.                                             *)
THEOREM AssertionsAlwaysHold == Spec => []AssertionsHold
<1>1. HandshakeInv => AssertionsHold
  <2> SUFFICES ASSUME HandshakeInv, NEW e \in End, cmds[e] # <<>>,
                      NEW type, type = Head(cmds[e])[1]
               PROVE  /\ type = "pipe_term" =>
                           end[e].state \in {"active", "delimiter_received", "term_req_sent1"}
                      /\ type = "pipe_term_ack" =>
                           end[e].state \in {"term_req_sent1", "term_ack_sent", "term_req_sent2"}
                      /\ type = "hiccup" => end[e].outpipe # NULL
    BY DEF AssertionsHold
  <2>1. Handshake(e) /\ cmds[e] \in Seq(Command) /\ Has(cmds[e], type)
    BY EndsMeet, HasTaken
  <2> QED
    BY <2>1 DEF Handshake, Meet, Open, Acked, Asked
<1> QED
  BY <1>1, HandshakeInvariant, PTL
-----------------------------------------------------------------------------
(* What a step of e does to the commands: it takes one when it processes   *)
(* it, and tells the peer at most one.                                     *)

Tells(e, c, s) ==
  /\ c \in Command /\ s \in {<<>>, <<c>>}
  /\ cmds'[peer(e)] = cmds[peer(e)] \o s
  /\ s # <<>> =>
       /\ \/ end[e].state \notin Acked \cup {"deleted"}
          \/ \E in, out \in NewHwm : ChangeHwms(e, in, out)
       /\ c[1] = "hiccup" => c[2] = 3 + used.hiccups /\ used'.hiccups = used.hiccups + 1
       /\ c[1] = "activate_write" => c[2] = end'[e].msgs_read
       /\ c[1] = "pipe_hwm" => \E in, out \in NewHwm : ChangeHwms(e, in, out)

TellsSomething(e) == \E c \in Command : \E s \in {<<>>, <<c>>} : Tells(e, c, s)

LEMMA TellsNothing ==
  ASSUME HandshakeInv, NEW e \in End, UNCHANGED cmds
  PROVE  cmds'[e] = cmds[e] /\ TellsSomething(e)
<1>1. cmds'[peer(e)] = cmds[peer(e)] \o <<>>
  BY EndsMeet, ConcatEmptySeq
<1>2. <<"pipe_term">> \in Command
  BY CommandsSent
<1> QED
  BY <1>1, <1>2 DEF TellsSomething, Tells

LEMMA TellsOne ==
  ASSUME HandshakeInv, NEW e \in End, setting' = setting, NEW c \in Command,
         NEW s \in {<<>>, <<c>>}, Send(peer(e), s),
         \/ c[1] \in {"activate_read", "pipe_term", "pipe_term_ack"}
         \/ c[1] = "activate_write" /\ c[2] = end'[e].msgs_read,
         end[e].state \notin Acked \cup {"deleted"}
  PROVE  cmds'[e] = cmds[e] /\ TellsSomething(e)
<1>0. Typed /\ peer(e) \in End /\ peer(e) # e
  BY EndsMeet
<1>1. /\ cmds'[peer(e)] = cmds[peer(e)] \o s /\ cmds'[e] = cmds[e]
  BY <1>0, SendTyped
<1>2. Tells(e, c, s)
  BY <1>1 DEF Tells
<1> QED
  BY <1>1, <1>2 DEF TellsSomething

LEMMA TellsWord ==
  ASSUME HandshakeInv, NEW e \in End, setting' = setting,
         NEW type \in {"activate_read", "pipe_term", "pipe_term_ack"},
         NEW s \in {<<>>, <<<<type>>>>}, Send(peer(e), s),
         end[e].state \notin Acked \cup {"deleted"}
  PROVE  cmds'[e] = cmds[e] /\ TellsSomething(e)
<1> DEFINE c == <<type>>
<1>1. c \in Command /\ c[1] \in {"activate_read", "pipe_term", "pipe_term_ack"}
  BY CommandsSent
<1>2. s \in {<<>>, <<c>>}
  OBVIOUS
<1> HIDE DEF c
<1>3. Typed /\ peer(e) \in End /\ peer(e) # e
  BY EndsMeet
<1>4. /\ cmds'[peer(e)] = cmds[peer(e)] \o s /\ cmds'[e] = cmds[e]
  BY ZenonT(40), <1>1, <1>2, <1>3, SendTyped
<1>5. Tells(e, c, s)
  BY <1>1, <1>2, <1>4 DEF Tells
<1> QED
  BY <1>1, <1>2, <1>4, <1>5 DEF TellsSomething

LEMMA UserTells ==
  ASSUME HandshakeInv, NEW e \in End, Step(e), ~Process(e)
  PROVE  cmds'[e] = cmds[e] /\ TellsSomething(e)
<1>0. Typed /\ Handshake(e) /\ peer(e) # e /\ peer(e) \in End /\ end[e] \in Pipe
  BY EndsMeet, PipeFacts
<1>1. ASSUME NEW kind \in Kind[e] \cup {"data"}, NEW more \in BOOLEAN, Write(e, kind, more)
      PROVE  cmds'[e] = cmds[e] /\ TellsSomething(e)
  BY <1>1, TellsNothing DEF Write
<1>2. CASE WriteFails(e) \/ rollback(e) \/ ReadEmpty(e)
  BY <1>2, TellsNothing DEF WriteFails, rollback, ReadEmpty
<1>3. CASE flush(e)
  <2>1. /\ Send(peer(e), ActivateRead(Out(e))) /\ setting' = setting
        /\ ActivateRead(Out(e)) \in {<<>>, <<<<"activate_read">>>>}
    BY <1>3 DEF flush, ActivateRead, setting
  <2>2. end[e].state \notin Acked \cup {"deleted"}
    BY <1>0, <1>3 DEF flush, Handshake, Acked, Runs
  <2> QED
    BY <2>1, <2>2, TellsWord
<1>4. CASE ReadMessage(e)
  <2> DEFINE frame == In(e).avail[NextItem(In(e).avail)]
             p == IF frame.more \/ frame.kind = "identity" THEN end[e]
                  ELSE [end[e] EXCEPT !.msgs_read = @ + 1]
             c == <<"activate_write", p.msgs_read>>
             s == IF p.lwm > 0 /\ p.msgs_read % p.lwm = 0 THEN <<c>> ELSE <<>>
  <2>1. /\ end' = [end EXCEPT ![e] = p] /\ Send(peer(e), s) /\ Readable(e)
        /\ setting' = setting
    BY <1>4 DEF ReadMessage, setting
  <2>2. p.msgs_read \in Nat
    BY <1>0, PipeFacts DEF Pipe
  <2>3. c \in Command /\ s \in {<<>>, <<c>>} /\ c[1] = "activate_write"
    BY <2>2, CommandsSent
  <2>4. end[e].state \notin Acked \cup {"deleted"}
    BY <2>1 DEF Readable, Acked, Runs
  <2>5. end'[e] = p /\ c[2] = p.msgs_read
    BY <1>0, <2>1 DEF Typed, TypeOK
  <2> HIDE DEF p, c, s
  <2> QED
    BY <2>1, <2>3, <2>4, <2>5, TellsOne
<1>5. CASE ReadDelimiter(e)
  <2>1. CASE end[e].state = "active"
    BY <1>5, <2>1, TellsNothing DEF ReadDelimiter
  <2>2. CASE end[e].state # "active"
    <3>1. Send(peer(e), <<<<"pipe_term_ack">>>>) /\ setting' = setting /\ Readable(e)
      BY <1>5, <2>2 DEF ReadDelimiter, setting
    <3>2. end[e].state \notin Acked \cup {"deleted"}
      BY <3>1 DEF Readable, Acked, Runs
    <3> QED
      BY <3>1, <3>2, TellsWord
  <2> QED
    BY <2>1, <2>2
<1>6. CASE hiccup(e)
  <2> DEFINE c == <<"hiccup", 3 + used.hiccups>>
  <2>1. /\ Send(peer(e), <<c>>) /\ end[e].state = "active" /\ used.hiccups < MaxHiccup
        /\ used' = [used EXCEPT !.hiccups = @ + 1]
    BY <1>6 DEF hiccup
  <2>2. 3 + used.hiccups \in Ypipe
    BY SMTT(30), <1>0, <2>1, SettingFacts
  <2>3. c \in Command /\ c[2] = 3 + used.hiccups /\ c[1] = "hiccup"
    BY <2>2, CommandsSent
  <2>4. setting' = setting /\ used'.hiccups = used.hiccups + 1
    BY <1>0, <2>1 DEF setting, Typed, TypeOK
  <2> HIDE DEF c
  <2>5. cmds'[e] = cmds[e] /\ cmds'[peer(e)] = cmds[peer(e)] \o <<c>>
    BY <1>0, <2>1, <2>3, <2>4, SendTyped
  <2>6. Tells(e, c, <<c>>)
    BY <2>1, <2>3, <2>4, <2>5 DEF Tells, Acked
  <2> QED
    BY <2>3, <2>5, <2>6 DEF TellsSomething
<1>7. ASSUME NEW in \in NewHwm, NEW out \in NewHwm, ChangeHwms(e, in, out)
      PROVE  cmds'[e] = cmds[e] /\ TellsSomething(e)
  <2> DEFINE c == <<"pipe_hwm", out, in>>
  <2>1. /\ Send(peer(e), <<c>>)
    BY <1>7 DEF ChangeHwms
  <2>2. in \in Int /\ out \in Int
    BY <1>0, SettingFacts
  <2>3. c \in Command /\ c[1] = "pipe_hwm"
    BY <2>2, CommandsSent
  <2>4. setting' = setting
    BY <1>0, <1>7 DEF ChangeHwms, setting, Typed, TypeOK
  <2> HIDE DEF c
  <2>5. cmds'[e] = cmds[e] /\ cmds'[peer(e)] = cmds[peer(e)] \o <<c>>
    BY <1>0, <2>1, <2>3, <2>4, SendTyped
  <2>6. Tells(e, c, <<c>>)
    BY <1>7, <2>3, <2>5 DEF Tells
  <2> QED
    BY <2>3, <2>5, <2>6 DEF TellsSomething
<1>8. CASE terminate(e)
  <2>1. PICK delay \in BOOLEAN : \/ TerminateIgnored(e, delay)
                                 \/ TerminateRequest(e, delay)
                                 \/ TerminateWaiting(e, delay)
    BY <1>8 DEF terminate
  <2>2. setting' = setting
    BY <2>1 DEF TerminateIgnored, TerminateRequest, TerminateWaiting, Terminates, setting
  <2>3. CASE UNCHANGED cmds
    BY <2>3, TellsNothing
  <2>4. CASE cmds' # cmds
    <3>1. /\ end[e].state \notin Acked \cup {"deleted"}
          /\ \E type \in {"pipe_term", "pipe_term_ack"} : Send(peer(e), <<<<type>>>>)
      BY <2>1, <2>4 DEF TerminateIgnored, TerminateRequest, TerminateWaiting, Acked
    <3> QED
      BY <2>2, <3>1, TellsWord
  <2> QED
    BY <2>3, <2>4
<1>9. CASE TerminateFinish(e)
  <2> DEFINE q == [RolledBack(Out(e)) EXCEPT !.held = Append(@, Delimiter(e))]
             s == ActivateRead(q)
  <2>1. /\ finishing[e] /\ Send(peer(e), s) /\ UNCHANGED setting
    BY <1>9 DEF TerminateFinish, setting
  <2>2. end[e].state \notin Acked \cup {"deleted"} /\ s \in {<<>>, <<<<"activate_read">>>>}
    BY <1>0, <2>1 DEF Handshake, Acked, ActivateRead
  <2> HIDE DEF s
  <2> QED
    BY <2>1, <2>2, TellsWord
<1> QED
  BY <1>1, <1>2, <1>3, <1>4, <1>5, <1>6, <1>7, <1>8, <1>9 DEF Step, Read

LEMMA ProcessTells ==
  ASSUME HandshakeInv, NEW e \in End, Process(e)
  PROVE  /\ cmds[e] # <<>> /\ cmds'[e] = Tail(cmds[e]) /\ TellsSomething(e)
         /\ UNCHANGED <<used, finishing, setting>> /\ end[e].state # "deleted"
<1>0. Typed /\ Handshake(e) /\ cmds[e] \in Seq(Command)
  BY EndsMeet
<1>1. /\ cmds[e] # <<>> /\ UNCHANGED <<finishing, used, setting>> /\ end[e].state # "deleted"
  BY DEF Process, process_activate_read, process_activate_write, process_hiccup,
         process_pipe_hwm, process_pipe_term, process_pipe_term_ack, Receives, Runs, setting
<1>2. PICK s \in {<<>>, <<<<"pipe_term_ack">>>>} :
        /\ Answer(e, s)
        /\ s # <<>> => end[e].state \notin Acked \cup {"deleted"}
  <2>1. CASE ~process_pipe_term(e) /\ ~process_pipe_term_ack(e)
    BY <2>1 DEF Process, process_activate_read, process_activate_write, process_hiccup,
                process_pipe_hwm
  <2>2. CASE process_pipe_term(e)
    <3>1. Has(cmds[e], "pipe_term")
      BY <1>0, <1>1, <2>2, HasTaken DEF process_pipe_term, Receives
    <3>2. end[e].state \notin Acked \cup {"deleted"}
      BY <1>0, <3>1 DEF Handshake, Open, Acked
    <3> QED
      BY <2>2, <3>2 DEF process_pipe_term
  <2>3. CASE process_pipe_term_ack(e)
    BY <2>3 DEF process_pipe_term_ack, Acked
  <2> QED
    BY <2>1, <2>2, <2>3
<1>3. <<"pipe_term_ack">> \in Command
  BY CommandsSent
<1>4. cmds'[e] = Tail(cmds[e]) /\ cmds'[peer(e)] = cmds[peer(e)] \o s
  BY <1>0, <1>1, <1>2, <1>3, AnswerTyped
<1>5. Tells(e, <<"pipe_term_ack">>, s)
  BY <1>2, <1>3, <1>4 DEF Tells
<1> QED
  BY <1>1, <1>3, <1>4, <1>5 DEF TellsSomething

(* A step of e changes nothing in its peer, and only the ack deletes e. *)
LEMMA StepShape ==
  ASSUME HandshakeInv, NEW e \in End, Step(e)
  PROVE  /\ end'[peer(e)] = end[peer(e)] /\ end[e].state # "deleted"
         /\ end'[e].state = "deleted" => process_pipe_term_ack(e)
<1>0. Typed /\ Handshake(e) /\ peer(e) # e /\ peer(e) \in End /\ end[e] \in Pipe
  BY EndsMeet, PipeFacts
<1>1. CASE Process(e)
  <2>0. cmds[e] # <<>> /\ end[e].state # "deleted"
    BY <1>1, ProcessTells
  <2>1. CASE process_pipe_hwm(e)
    <3>1. Head(cmds[e])[2] \in Int /\ Head(cmds[e])[3] \in Int
      BY <1>0, <2>0, <2>1, ReceivedTyped DEF process_pipe_hwm
    <3>2. end'[e].state = end[e].state /\ end'[peer(e)] = end[peer(e)]
      BY <1>0, <2>1, <3>1, MarksOnly DEF process_pipe_hwm
    <3> QED
      BY <2>0, <3>2
  <2>2. CASE process_pipe_term(e)
    BY <1>0, <2>0, <2>2 DEF process_pipe_term, Typed, TypeOK, Pipe
  <2>3. CASE ~process_pipe_hwm(e) /\ ~process_pipe_term(e)
    BY SMTT(30), <1>0, <1>1, <2>0, <2>3 DEF Process, process_activate_read, process_activate_write,
         process_hiccup, process_pipe_term_ack, Typed, TypeOK, Pipe
  <2> QED
    BY <2>1, <2>2, <2>3
<1>2. CASE ~Process(e)
  <2>1. end[e].state # "deleted"
    BY <1>0, <1>2 DEF Step, Read, Write, WriteFails, rollback, flush, ReadMessage, ReadDelimiter,
         ReadEmpty, hiccup, ChangeHwms, terminate, TerminateIgnored, TerminateRequest,
         TerminateWaiting, TerminateFinish, Terminates, CanWrite, Readable, Runs, Handshake
  <2>2. \A a, b \in Int : /\ [end EXCEPT ![e] = set_hwms(e, @, a, b)][peer(e)] = end[peer(e)]
                          /\ [end EXCEPT ![e] = set_hwms(e, @, a, b)][e].state = end[e].state
    BY <1>0 DEF Typed, TypeOK, Pipe, set_hwms
  <2>3. CASE \E in, out \in NewHwm : ChangeHwms(e, in, out)
    <3>1. NewHwm \subseteq Int
      BY <1>0, SettingFacts
    <3> QED
      BY <2>1, <2>2, <2>3, <3>1 DEF ChangeHwms
  <2>4. CASE terminate(e)
    BY <1>0, <2>1, <2>4 DEF terminate, TerminateIgnored, TerminateRequest, TerminateWaiting,
         Typed, TypeOK, Pipe
  <2>5. CASE ReadMessage(e)
    BY <1>0, <2>1, <2>5 DEF ReadMessage, Typed, TypeOK, Pipe
  <2>6. CASE ReadDelimiter(e)
    BY SMTT(30), <1>0, <2>1, <2>6 DEF ReadDelimiter, Typed, TypeOK, Pipe
  <2>7. CASE ReadEmpty(e) \/ TerminateFinish(e) \/ hiccup(e)
    BY SMTT(30), <1>0, <2>1, <2>7 DEF ReadEmpty, TerminateFinish, hiccup, Typed, TypeOK, Pipe
  <2>8. CASE WriteFails(e) \/ rollback(e) \/ flush(e)
    BY <1>0, <2>1, <2>8 DEF WriteFails, rollback, flush, Typed, TypeOK, Pipe
  <2>9. ASSUME NEW kind \in Kind[e] \cup {"data"}, NEW more \in BOOLEAN, Write(e, kind, more)
        PROVE  end'[peer(e)] = end[peer(e)] /\ end'[e].state = end[e].state
    BY <1>0, <2>9 DEF Write, Typed, TypeOK, Pipe
  <2> QED
    BY <1>2, <2>1, <2>3, <2>4, <2>5, <2>6, <2>7, <2>8, <2>9 DEF Step, Read
<1> QED
  BY <1>1, <1>2
-----------------------------------------------------------------------------
(* Commands to an end that is deleted. *)

(* Marks are not changed between the ack an end gives and its own end.     *)
MarksInTime == \A e \in End : \A in, out \in NewHwm :
                 ChangeHwms(e, in, out) => end[e].state \notin Acked

Final(queue) == \A i, j \in DOMAIN queue : i < j => queue[i][1] # "pipe_term_ack"

LastWord == \A e \in End : /\ Final(cmds[e])
                           /\ end[e].state = "deleted" => cmds[e] = <<>>

LEMMA FinalTold ==
  ASSUME NEW S, NEW q \in Seq(S), NEW c \in S, Final(q), ~Has(q, "pipe_term_ack")
  PROVE  Final(q \o <<c>>)
<1> SUFFICES ASSUME NEW i \in DOMAIN (q \o <<c>>), NEW j \in DOMAIN (q \o <<c>>), i < j
             PROVE  (q \o <<c>>)[i][1] # "pipe_term_ack"
  BY DEF Final
<1>1. i \in DOMAIN q /\ (q \o <<c>>)[i] = q[i]
  BY Told
<1> QED
  BY <1>1 DEF Has

LEMMA FinalTaken ==
  ASSUME NEW S, NEW q \in Seq(S), q # <<>>, Final(q)
  PROVE  Final(Tail(q)) /\ (Head(q)[1] = "pipe_term_ack" => Tail(q) = <<>>)
<1>1. \A i \in DOMAIN Tail(q) : i + 1 \in DOMAIN q /\ Tail(q)[i] = q[i + 1] /\ 1 < i + 1
  BY Taken
<1>2. 1 \in DOMAIN q /\ Head(q) = q[1] /\ Tail(q) \in Seq(S)
  BY Taken
<1>3. Final(Tail(q))
  BY <1>1, Taken DEF Final
<1>4. ASSUME Head(q)[1] = "pipe_term_ack", Tail(q) # <<>> PROVE FALSE
  <2>1. 1 \in DOMAIN Tail(q)
    BY <1>2, <1>4, Taken
  <2> QED
    BY <1>1, <1>2, <1>4, <2>1 DEF Final
<1> QED
  BY <1>3, <1>4

LEMMA NextLastWord ==
  HandshakeInv /\ LastWord /\ [Next /\ MarksInTime]_vars => LastWord'
<1> SUFFICES ASSUME HandshakeInv, LastWord, [Next /\ MarksInTime]_vars PROVE LastWord'
  OBVIOUS
<1>1. CASE UNCHANGED vars
  BY <1>1 DEF vars, LastWord, Final
<1>2. ASSUME NEW e \in End, Step(e), MarksInTime PROVE LastWord'
  <2> DEFINE p == peer(e)
  <2>1. /\ Handshake(e) /\ Handshake(p) /\ p \in End /\ p # e /\ peer(p) = e
        /\ cmds[e] \in Seq(Command) /\ cmds[p] \in Seq(Command)
    BY EndsMeet
  <2>a. PICK c \in Command : \E s \in {<<>>, <<c>>} : Tells(e, c, s)
    BY <1>2, UserTells, ProcessTells DEF TellsSomething
  <2>2. PICK s \in {<<>>, <<c>>} : Tells(e, c, s)
    BY <2>a
  <2>3. s # <<>> => end[e].state \notin Acked \cup {"deleted"}
    BY <1>2, <2>2 DEF Tells, MarksInTime, ChangeHwms, Runs
  <2>4. end'[p] = end[p] /\ (end'[e].state = "deleted" => process_pipe_term_ack(e))
    BY <1>2, StepShape
  <2>5. Final(cmds'[p]) /\ (end'[p].state = "deleted" => cmds'[p] = <<>>)
    <3>1. CASE s = <<>>
      <4>1. cmds'[p] = cmds[p]
        BY <2>1, <2>2, <3>1, ConcatEmptySeq DEF Tells
      <4> QED
        BY <2>1, <2>4, <4>1 DEF LastWord
    <3>2. CASE s # <<>>
      <4>1. ~Has(cmds[p], "pipe_term_ack") /\ end[p].state # "deleted"
        BY <2>1, <2>3, <3>2 DEF Handshake, Meet, Open, Acked, Asked
      <4>2. cmds'[p] = cmds[p] \o <<c>> /\ Final(cmds[p])
        BY <2>1, <2>2, <3>2 DEF Tells, LastWord
      <4>3. Final(cmds'[p])
        BY <2>1, <2>2, <4>1, <4>2, FinalTold
      <4> QED
        BY <2>4, <4>1, <4>3
    <3> QED
      BY <3>1, <3>2
  <2>6. Final(cmds'[e]) /\ (end'[e].state = "deleted" => cmds'[e] = <<>>)
    <3>1. CASE Process(e)
      <4>1. cmds[e] # <<>> /\ cmds'[e] = Tail(cmds[e]) /\ Final(cmds[e])
        BY <2>1, <3>1, ProcessTells DEF LastWord
      <4>2. process_pipe_term_ack(e) => Head(cmds[e])[1] = "pipe_term_ack"
        BY DEF process_pipe_term_ack, Receives
      <4> QED
        BY <2>1, <2>4, <4>1, <4>2, FinalTaken
    <3>2. CASE ~Process(e)
      <4>1. cmds'[e] = cmds[e]
        BY <1>2, <3>2, UserTells
      <4> QED
        BY <2>1, <2>4, <3>2, <4>1 DEF LastWord, Process
    <3> QED
      BY <3>1, <3>2
  <2> QED
    BY <2>1, <2>5, <2>6, Peers DEF LastWord
<1> QED
  BY <1>1, <1>2 DEF Next

LEMMA InitLastWord == Init => LastWord
BY DEF Init, LastWord, Final, End

(* The handshake meets no state it does not expect, and leaves no command  *)
(* to an end that is gone - as long as nobody changes the marks of an end  *)
(* that has given its ack: send_hwms_to_peer has no guard against that.    *)
THEOREM HandshakeIsSound == Spec /\ [][MarksInTime]_vars => []HandshakeSound
<1>1. LastWord => NoCommandToDeleted
  BY DEF LastWord, NoCommandToDeleted
<1>2. [Next]_vars /\ [MarksInTime]_vars => [Next /\ MarksInTime]_vars
  OBVIOUS
<1>3. Spec /\ [][MarksInTime]_vars => []LastWord
  BY <1>2, InitLastWord, NextLastWord, HandshakeInvariant, PTL DEF Spec
<1> QED
  BY <1>1, <1>3, AssertionsAlwaysHold, PTL DEF HandshakeSound
-----------------------------------------------------------------------------
(* Who has which ypipe. *)

LEMMA RenewalsTold ==
  ASSUME NEW q \in Seq(Command), NEW c \in Command
  PROVE  /\ c[1] # "hiccup" => /\ Renewals(q \o <<c>>) = Renewals(q)
                               /\ Ascending(q) => Ascending(q \o <<c>>)
         /\ c[1] = "hiccup" =>
              /\ Renewals(q \o <<c>>) = Renewals(q) \cup {c[2]}
              /\ Ascending(q) /\ (\A y \in Renewals(q) : y < c[2]) => Ascending(q \o <<c>>)
<1> DEFINE r == q \o <<c>>
           n == Len(q) + 1
<1>1. /\ DOMAIN r = 1 .. n /\ DOMAIN q = 1 .. n - 1 /\ n \in Nat /\ n >= 1
      /\ \A i \in 1 .. n - 1 : r[i] = q[i]
      /\ r[n] = c
  BY Told
<1> HIDE DEF r, n
<1>2. \A i \in DOMAIN r : i \in DOMAIN q \/ i = n
  BY <1>1
<1>3. \A i \in DOMAIN q : i \in DOMAIN r /\ r[i] = q[i] /\ i # n /\ ~(n < i)
  BY <1>1
<1>4. n \in DOMAIN r
  BY <1>1
<1>5. \A y : y \in Renewals(r) <=> y \in Renewals(q) \/ (c[1] = "hiccup" /\ y = c[2])
  BY <1>1, <1>2, <1>3, <1>4 DEF Renewals
<1>6. ASSUME Ascending(q), c[1] = "hiccup" => \A y \in Renewals(q) : y < c[2]
      PROVE  Ascending(r)
  <2> SUFFICES ASSUME NEW i \in DOMAIN r, NEW j \in DOMAIN r, i < j, r[i][1] = "hiccup",
                      r[j][1] = "hiccup"
               PROVE  r[i][2] < r[j][2]
    BY DEF Ascending
  <2>1. i \in DOMAIN q /\ r[i] = q[i]
    BY <1>1
  <2>2. CASE j \in DOMAIN q
    BY <1>3, <1>6, <2>1, <2>2 DEF Ascending
  <2>3. CASE j = n
    BY <1>1, <1>6, <2>1, <2>3 DEF Renewals
  <2> QED
    BY <1>2, <2>2, <2>3
<1> QED
  BY <1>5, <1>6 DEF r

LEMMA RenewalsTaken ==
  ASSUME NEW q \in Seq(Command), q # <<>>, Ascending(q)
  PROVE  /\ Ascending(Tail(q))
         /\ Head(q)[1] # "hiccup" => Renewals(q) = Renewals(Tail(q))
         /\ Head(q)[1] = "hiccup" =>
              /\ Renewals(q) = Renewals(Tail(q)) \cup {Head(q)[2]}
              /\ \A y \in Renewals(Tail(q)) : Head(q)[2] < y
<1>1. \A i \in DOMAIN Tail(q) : i + 1 \in DOMAIN q /\ Tail(q)[i] = q[i + 1] /\ 1 < i + 1
  BY Taken
<1>2. 1 \in DOMAIN q /\ Head(q) = q[1]
  BY Taken
<1>3. \A i \in DOMAIN q : i = 1 \/ (i - 1 \in DOMAIN Tail(q) /\ q[i] = Tail(q)[i - 1])
  BY Taken
<1>4. Ascending(Tail(q))
  BY <1>1, Taken DEF Ascending
<1>5. \A y : y \in Renewals(q) <=>
               y \in Renewals(Tail(q)) \/ (Head(q)[1] = "hiccup" /\ y = Head(q)[2])
  <2>1. \A y \in Renewals(Tail(q)) : y \in Renewals(q)
    BY <1>1 DEF Renewals
  <2>2. Head(q)[1] = "hiccup" => Head(q)[2] \in Renewals(q)
    BY <1>2 DEF Renewals
  <2>3. \A y \in Renewals(q) :
          y \in Renewals(Tail(q)) \/ (Head(q)[1] = "hiccup" /\ y = Head(q)[2])
    BY <1>2, <1>3 DEF Renewals
  <2> QED
    BY <2>1, <2>2, <2>3
<1>6. Head(q)[1] = "hiccup" => \A y \in Renewals(Tail(q)) : Head(q)[2] < y
  <2> SUFFICES ASSUME Head(q)[1] = "hiccup", NEW i \in DOMAIN Tail(q),
                      Tail(q)[i][1] = "hiccup"
               PROVE  Head(q)[2] < Tail(q)[i][2]
    BY DEF Renewals
  <2> QED
    BY <1>1, <1>2 DEF Ascending
<1> QED
  BY <1>4, <1>5, <1>6

LEMMA RenewalsHas ==
  ASSUME NEW q \in Seq(Command)
  PROVE  /\ Renewals(q) \subseteq Ypipe
         /\ Renewals(q) # {} => Has(q, "hiccup")
<1>1. \A i \in DOMAIN q : q[i] \in Command
  OBVIOUS
<1>2. \A i \in DOMAIN q : q[i][1] = "hiccup" => q[i][2] \in Ypipe
  BY <1>1, CommandFacts
<1> QED
  BY <1>2 DEF Renewals, Has

LEMMA StatusKept ==
  ASSUME NEW q \in Upipe
  PROVE  /\ RolledBack(q).status = q.status
         /\ Flushed(q).status = q.status
         /\ FoundEmpty(q).status = q.status
         /\ \A n \in Nat : Drained(q, n).status = q.status
         /\ \A f \in Frame : [q EXCEPT !.held = Append(@, f)].status = q.status
BY DEF Upipe, RolledBack, Flushed, FoundEmpty, Drained

(* A step that makes, passes on and deletes no ypipe. *)
KeepsYpipes(e) ==
  /\ setting' = setting /\ used'.hiccups = used.hiccups
  /\ \A y \in Ypipe : ypipe'[y].status = ypipe[y].status
  /\ end'[e].inpipe = end[e].inpipe
  /\ end'[e].outpipe \in {end[e].outpipe, NULL}

LEMMA UpipeUpdated ==
  ASSUME Typed, NEW y \in Ypipe, NEW q \in Upipe, ypipe' = [ypipe EXCEPT ![y] = q]
  PROVE  /\ ypipe'[y] = q
         /\ \A z \in Ypipe : z # y => ypipe'[z] = ypipe[z]
         /\ q.status = ypipe[y].status =>
              \A z \in Ypipe : ypipe'[z].status = ypipe[z].status
BY DEF Typed, TypeOK

LEMMA UserKeepsYpipes ==
  ASSUME HandshakeInv, NEW e \in End, Step(e), ~Process(e), ~hiccup(e)
  PROVE  KeepsYpipes(e)
<1>0. Typed /\ Handshake(e) /\ peer(e) # e /\ peer(e) \in End /\ end[e] \in Pipe
  BY EndsMeet, PipeFacts
<1>1. /\ end[e].outpipe # NULL => end[e].outpipe \in Ypipe /\ Out(e) \in Upipe
      /\ end[e].inpipe # NULL => end[e].inpipe \in Ypipe /\ In(e) \in Upipe
  BY <1>0, PipeFacts DEF Out, In
<1>2. ASSUME NEW kind \in Kind[e] \cup {"data"}, NEW more \in BOOLEAN, Write(e, kind, more)
      PROVE  KeepsYpipes(e)
  <2> DEFINE frame == [msg |-> user[e].written + 1, part |-> user[e].parts + 1,
                       more |-> more, kind |-> kind]
  <2>1. end[e].outpipe # NULL
    BY <1>0, <1>2 DEF Write, CanWrite, Handshake, Acked
  <2>a. user[e] \in User /\ kind \in {"data", "identity", "credential"}
    BY <1>0, PipeFacts, SettingFacts
  <2>2. frame \in Frame
    BY <2>a DEF Frame, User
  <2>3. /\ ypipe' = [ypipe EXCEPT ![end[e].outpipe] = [Out(e) EXCEPT !.held = Append(@, frame)]]
        /\ UNCHANGED <<used, setting>>
    BY <1>0, <1>1, <1>2, <2>1 DEF Write, Out, setting
  <2>4. /\ end'[e].inpipe = end[e].inpipe /\ end'[e].outpipe = end[e].outpipe
    BY <1>0, <1>2 DEF Write, Typed, TypeOK, Pipe
  <2> HIDE DEF frame
  <2>5. \A y \in Ypipe : ypipe'[y].status = ypipe[y].status
    BY SMTT(30), <1>0, <1>1, <2>1, <2>2, <2>3, UpipeTypes, StatusKept, UpipeUpdated DEF Out
  <2> QED
    BY <2>3, <2>4, <2>5 DEF KeepsYpipes
<1>3. CASE WriteFails(e)
  BY <1>0, <1>3 DEF WriteFails, KeepsYpipes, setting, Typed, TypeOK, Pipe
<1>4. CASE rollback(e)
  <2>1. UNCHANGED <<end, used, setting>>
    BY <1>4 DEF rollback, setting
  <2>2. CASE end[e].outpipe = NULL
    BY <1>4, <2>1, <2>2 DEF rollback, KeepsYpipes
  <2>3. CASE end[e].outpipe # NULL
    <3>1. ypipe' = [ypipe EXCEPT ![end[e].outpipe] = RolledBack(Out(e))]
      BY <1>4, <2>3 DEF rollback, Out
    <3>2. \A y \in Ypipe : ypipe'[y].status = ypipe[y].status
      BY <1>0, <1>1, <2>3, <3>1, UpipeTypes, StatusKept, UpipeUpdated DEF Out
    <3> QED
      BY <2>1, <3>2 DEF KeepsYpipes
  <2> QED
    BY <2>2, <2>3
<1>5. CASE flush(e)
  <2>1. /\ UNCHANGED <<end, used, setting>> /\ end[e].outpipe # NULL
        /\ ypipe' = [ypipe EXCEPT ![end[e].outpipe] = Flushed(Out(e))]
    BY <1>5 DEF flush, setting, Out
  <2>2. \A y \in Ypipe : ypipe'[y].status = ypipe[y].status
    BY <1>0, <1>1, <2>1, UpipeTypes, StatusKept, UpipeUpdated DEF Out
  <2> QED
    BY <2>1, <2>2 DEF KeepsYpipes
<1>6. CASE ReadMessage(e) \/ ReadDelimiter(e)
  <2> DEFINE n == NextItem(In(e).avail)
  <2>1. /\ ypipe' = [ypipe EXCEPT ![end[e].inpipe] = Drained(In(e), n)]
        /\ Readable(e) /\ UNCHANGED <<used, setting>>
    BY <1>6 DEF ReadMessage, ReadDelimiter, setting, In
  <2>2. end[e].inpipe # NULL
    BY <2>1, RunsFacts DEF Readable, Runs
  <2>3. n \in 0 .. Len(In(e).avail) /\ n \in Nat
    <3>1. In(e).avail \in Seq(Frame)
      BY <1>1, <2>2 DEF Upipe
    <3> QED
      BY <3>1, FirstItem
  <2>4. end'[e].inpipe = end[e].inpipe /\ end'[e].outpipe \in {end[e].outpipe, NULL}
    <3>1. CASE ReadMessage(e)
      BY <1>0, <3>1 DEF ReadMessage, Typed, TypeOK, Pipe
    <3>2. CASE ReadDelimiter(e)
      BY SMTT(30), <1>0, <3>2 DEF ReadDelimiter, Typed, TypeOK, Pipe
    <3> QED
      BY <1>6, <3>1, <3>2
  <2> HIDE DEF n
  <2>5. \A y \in Ypipe : ypipe'[y].status = ypipe[y].status
    BY <1>0, <1>1, <2>1, <2>2, <2>3, UpipeTypes, StatusKept, UpipeUpdated DEF In
  <2> QED
    BY <2>1, <2>4, <2>5 DEF KeepsYpipes
<1>7. CASE ReadEmpty(e)
  <2>1. /\ ypipe' = [ypipe EXCEPT ![end[e].inpipe] = FoundEmpty(In(e))]
        /\ Readable(e) /\ UNCHANGED <<used, setting>>
    BY <1>7 DEF ReadEmpty, setting, In
  <2>2. end[e].inpipe # NULL
    BY <2>1, RunsFacts DEF Readable, Runs
  <2>3. end'[e].inpipe = end[e].inpipe /\ end'[e].outpipe = end[e].outpipe
    BY <1>0, <1>7 DEF ReadEmpty, Typed, TypeOK, Pipe
  <2>4. \A y \in Ypipe : ypipe'[y].status = ypipe[y].status
    BY <1>0, <1>1, <2>1, <2>2, UpipeTypes, StatusKept, UpipeUpdated DEF In
  <2> QED
    BY <2>1, <2>3, <2>4 DEF KeepsYpipes
<1>8. ASSUME NEW in \in NewHwm, NEW out \in NewHwm, ChangeHwms(e, in, out)
      PROVE  KeepsYpipes(e)
  <2>1. UNCHANGED ypipe /\ setting' = setting /\ used'.hiccups = used.hiccups
    BY <1>0, <1>8 DEF ChangeHwms, setting, Typed, TypeOK
  <2>2. end'[e].inpipe = end[e].inpipe /\ end'[e].outpipe = end[e].outpipe
    BY <1>0, <1>8 DEF ChangeHwms, set_hwms, Typed, TypeOK, Pipe
  <2> QED
    BY <2>1, <2>2 DEF KeepsYpipes
<1>9. CASE terminate(e)
  <2>1. UNCHANGED <<ypipe, used, setting>>
    BY <1>9 DEF terminate, TerminateIgnored, TerminateRequest, TerminateWaiting, Terminates,
                setting
  <2>2. end'[e].inpipe = end[e].inpipe /\ end'[e].outpipe \in {end[e].outpipe, NULL}
    BY <1>0, <1>9 DEF terminate, TerminateIgnored, TerminateRequest, TerminateWaiting,
                      Typed, TypeOK, Pipe
  <2> QED
    BY <2>1, <2>2 DEF KeepsYpipes
<1>10. CASE TerminateFinish(e)
  <2> DEFINE q == [RolledBack(Out(e)) EXCEPT !.held = Append(@, Delimiter(e))]
  <2>1. /\ ypipe' = [ypipe EXCEPT ![end[e].outpipe] = Flushed(q)]
        /\ finishing[e] /\ UNCHANGED <<used, setting>>
    BY <1>10 DEF TerminateFinish, setting
  <2>2. end[e].outpipe # NULL
    BY <1>0, <2>1 DEF Handshake, Acked
  <2>3. q \in Upipe /\ q.status = Out(e).status
    <3>1. Delimiter(e) \in Frame
      BY <1>0, PipeFacts DEF Delimiter, Frame, User
    <3> QED
      BY <1>1, <2>2, <3>1, UpipeTypes, StatusKept
  <2>4. end'[e].inpipe = end[e].inpipe /\ end'[e].outpipe = end[e].outpipe
    BY <1>0, <1>10 DEF TerminateFinish, Typed, TypeOK, Pipe
  <2> HIDE DEF q
  <2>5. \A y \in Ypipe : ypipe'[y].status = ypipe[y].status
    BY <1>0, <1>1, <2>1, <2>2, <2>3, UpipeTypes, StatusKept, UpipeUpdated DEF Out
  <2> QED
    BY <2>1, <2>4, <2>5 DEF KeepsYpipes
<1> QED
  BY <1>2, <1>3, <1>4, <1>5, <1>6, <1>7, <1>8, <1>9, <1>10 DEF Step, Read

LEMMA ProcessKeepsYpipes ==
  ASSUME HandshakeInv, NEW e \in End, Process(e), ~process_hiccup(e), ~process_pipe_term_ack(e)
  PROVE  KeepsYpipes(e) /\ Head(cmds[e])[1] # "hiccup" /\ UNCHANGED ypipe
<1>0. Typed /\ end[e] \in Pipe /\ UNCHANGED <<used, setting>>
  BY EndsMeet, PipeFacts, ProcessTells
<1>1. UNCHANGED ypipe /\ Head(cmds[e])[1] # "hiccup"
  BY DEF Process, process_activate_read, process_activate_write, process_pipe_hwm,
         process_pipe_term, Receives
<1>2. end'[e].inpipe = end[e].inpipe /\ end'[e].outpipe \in {end[e].outpipe, NULL}
  <2>1. CASE process_pipe_term(e)
    BY <1>0, <2>1 DEF process_pipe_term, Typed, TypeOK, Pipe
  <2>2. CASE process_pipe_hwm(e)
    BY <1>0, <2>2 DEF process_pipe_hwm, set_hwms, Typed, TypeOK, Pipe
  <2>3. CASE process_activate_read(e)
    BY <1>0, <2>3 DEF process_activate_read, Typed, TypeOK, Pipe
  <2>4. CASE process_activate_write(e)
    BY <1>0, <2>4 DEF process_activate_write, Typed, TypeOK, Pipe
  <2> QED
    BY <2>1, <2>2, <2>3, <2>4 DEF Process
<1> QED
  BY <1>0, <1>1, <1>2 DEF KeepsYpipes

LEMMA StepTells ==
  ASSUME HandshakeInv, NEW e \in End, Step(e)
  PROVE  /\ \E c \in Command : \E s \in {<<>>, <<c>>} : Tells(e, c, s)
         /\ IF Process(e) THEN cmds[e] # <<>> /\ cmds'[e] = Tail(cmds[e])
            ELSE cmds'[e] = cmds[e]
         /\ cmds'[e] \in Seq(Command) /\ cmds'[peer(e)] \in Seq(Command)
<1>0. cmds[e] \in Seq(Command) /\ cmds[peer(e)] \in Seq(Command)
  BY EndsMeet
<1>1. PICK c \in Command : \E s \in {<<>>, <<c>>} : Tells(e, c, s)
  BY UserTells, ProcessTells DEF TellsSomething
<1>2. PICK s \in {<<>>, <<c>>} : Tells(e, c, s)
  BY <1>1
<1>3. IF Process(e) THEN cmds[e] # <<>> /\ cmds'[e] = Tail(cmds[e]) ELSE cmds'[e] = cmds[e]
  BY UserTells, ProcessTells
<1>4. cmds'[e] \in Seq(Command)
  BY <1>0, <1>3, Taken
<1>5. cmds'[peer(e)] \in Seq(Command)
  <2>1. cmds[peer(e)] \o <<c>> \in Seq(Command) /\ cmds[peer(e)] \o <<>> = cmds[peer(e)]
    BY <1>0, Told, ConcatEmptySeq
  <2> QED
    BY <1>0, <1>2, <2>1 DEF Tells
<1> QED
  BY <1>2, <1>3, <1>4, <1>5

(* The hiccups that are pending for an end. *)
LEMMA RenewalsKept ==
  ASSUME HandshakeInv, NEW e \in End, Step(e), \A f \in End : Ascending(cmds[f])
  PROVE  /\ used'.hiccups = used.hiccups =>
              Renewals(cmds'[peer(e)]) = Renewals(cmds[peer(e)]) /\ Ascending(cmds'[peer(e)])
         /\ (Process(e) => Head(cmds[e])[1] # "hiccup") =>
              Renewals(cmds'[e]) = Renewals(cmds[e]) /\ Ascending(cmds'[e])
<1>0. /\ cmds[e] \in Seq(Command) /\ cmds[peer(e)] \in Seq(Command) /\ peer(e) \in End
      /\ Typed
  BY EndsMeet
<1>1. PICK c \in Command : \E s \in {<<>>, <<c>>} : Tells(e, c, s)
  BY StepTells
<1>2. PICK s \in {<<>>, <<c>>} : Tells(e, c, s)
  BY <1>1
<1>3. used'.hiccups = used.hiccups =>
        Renewals(cmds'[peer(e)]) = Renewals(cmds[peer(e)]) /\ Ascending(cmds'[peer(e)])
  <2>1. CASE s = <<>>
    BY <1>0, <1>2, <2>1, ConcatEmptySeq DEF Tells
  <2>2. CASE s # <<>>
    <3>1. cmds'[peer(e)] = cmds[peer(e)] \o <<c>>
          /\ (c[1] = "hiccup" => used'.hiccups = used.hiccups + 1)
      BY <1>2, <2>2 DEF Tells
    <3>2. used.hiccups \in Int
      BY <1>0, SettingFacts
    <3> QED
      BY <1>0, <3>1, <3>2, RenewalsTold
  <2> QED
    BY <2>1, <2>2
<1>4. (Process(e) => Head(cmds[e])[1] # "hiccup") =>
         Renewals(cmds'[e]) = Renewals(cmds[e]) /\ Ascending(cmds'[e])
  BY <1>0, StepTells, RenewalsTaken
<1> QED
  BY <1>3, <1>4

(* A direction whose writer, reader and pending hiccups are as before, or  *)
(* whose writer has let go of its ypipe.                                   *)
LEMMA ConduitKept ==
  ASSUME HandshakeInv, HandshakeInv', NEW f \in End, Succession(f),
         cmds'[f] \in Seq(Command),
         end'[f].outpipe \in {end[f].outpipe, NULL},
         end'[peer(f)].inpipe = end[peer(f)].inpipe,
         Renewals(cmds'[f]) = Renewals(cmds[f]), Ascending(cmds'[f])
  PROVE  Succession(f)' /\ Conduit(f)' = Conduit(f)
<1>1. CASE end'[f].outpipe = end[f].outpipe
  BY <1>1 DEF Succession, Conduit
<1>2. CASE end'[f].outpipe = NULL
  <2>1. ~Has(cmds'[f], "hiccup")
    BY <1>2 DEF HandshakeInv, Handshake, Open, Acked
  <2>2. Renewals(cmds'[f]) = {}
    BY <2>1, RenewalsHas
  <2>3. end[f].outpipe # NULL => end[peer(f)].inpipe = end[f].outpipe
    BY <2>2 DEF Succession
  <2> QED
    BY <1>2, <2>2, <2>3 DEF Succession, Conduit
<1> QED
  BY <1>1, <1>2

LEMMA ConduitFacts ==
  ASSUME HandshakeInv, Ownership, NEW e \in End
  PROVE  /\ Conduit(e) \subseteq Ypipe /\ Renewals(cmds[e]) \subseteq Conduit(e)
         /\ end[e].outpipe # NULL => end[e].outpipe \in Conduit(e)
         /\ end[peer(e)].inpipe # NULL => end[peer(e)].inpipe \in Conduit(e)
         /\ Conduit(e) \cap Conduit(peer(e)) = {}
         /\ \A y \in Conduit(e) : ypipe[y].status = "live" /\ y <= 2 + used.hiccups
         /\ \A y \in Ypipe : ypipe[y].status = "live" =>
                               y \in Conduit(e) \/ y \in Conduit(peer(e))
<1>0. /\ Typed /\ peer(e) \in End /\ peer(e) # e /\ cmds[e] \in Seq(Command)
      /\ cmds[peer(e)] \in Seq(Command)
  BY EndsMeet
<1>1. NULL \notin Ypipe /\ used.hiccups \in Nat /\ Ypipe \subseteq Int
  BY <1>0, SettingFacts
<1>2. Renewals(cmds[e]) \subseteq Ypipe
  BY <1>0, RenewalsHas
<1>3. /\ end[e].outpipe \in Ypipe \cup {NULL} /\ end[peer(e)].inpipe \in Ypipe \cup {NULL}
  BY <1>0, PipeFacts
<1>4. Conduit(e) \subseteq Ypipe /\ Renewals(cmds[e]) \subseteq Conduit(e)
  BY <1>1, <1>2, <1>3 DEF Conduit
<1>5. /\ Conduit(e) \cap Conduit(peer(e)) = {}
      /\ Conduit("session") \cup Conduit("socket") = Conduit(e) \cup Conduit(peer(e))
  BY DEF Ownership, End, peer
<1>6. ASSUME NEW y \in Conduit(e)
      PROVE  ypipe[y].status = "live" /\ y <= 2 + used.hiccups
  <2>1. ypipe[y].status = "live" /\ y \in Ypipe /\ y \in Int
    BY <1>1, <1>4, <1>5 DEF Ownership
  <2>2. ~ (y > 2 + used.hiccups)
    BY <2>1 DEF Ownership
  <2> QED
    BY <1>1, <2>1, <2>2
<1> QED
  BY <1>4, <1>5, <1>6 DEF Conduit, Ownership

(* Ownership after a step of e, direction by direction. *)
LEMMA OwnershipAfter ==
  ASSUME HandshakeInv, NEW e \in End, setting' = setting,
         Succession(e)', Succession(peer(e))',
         Conduit(e)' \cap Conduit(peer(e))' = {},
         \A y \in Ypipe : /\ ypipe'[y].status = "live" <=>
                                 y \in Conduit(e)' \/ y \in Conduit(peer(e))'
                          /\ ypipe'[y].status = "unused" <=> y > 2 + used'.hiccups
  PROVE  Ownership'
<1>1. Ypipe' = Ypipe
  BY SameSetting
<1>2. CASE e = "session"
  BY <1>1, <1>2 DEF Ownership, End, peer
<1>3. CASE e = "socket"
  BY <1>1, <1>3 DEF Ownership, End, peer
<1> QED
  BY <1>2, <1>3 DEF End

LEMMA StepKeepsOwnership ==
  ASSUME HandshakeInv, HandshakeInv', Ownership, NEW e \in End, Step(e)
  PROVE  Ownership'
<1> DEFINE p == peer(e)
<1>0. /\ Typed /\ Handshake(e) /\ Handshake(p) /\ p \in End /\ p # e /\ peer(p) = e
      /\ cmds[e] \in Seq(Command) /\ cmds[p] \in Seq(Command)
  BY EndsMeet
<1>1. /\ Succession(e) /\ Succession(p) /\ Conduit(e) \cap Conduit(p) = {}
      /\ \A f \in End : Ascending(cmds[f])
      /\ \A y \in Ypipe : /\ ypipe[y].status = "live" <=> y \in Conduit(e) \/ y \in Conduit(p)
                          /\ ypipe[y].status = "unused" <=> y > 2 + used.hiccups
  <2>1. Conduit("session") \cup Conduit("socket") = Conduit(e) \cup Conduit(p)
    BY DEF End, peer
  <2> QED
    BY <1>0, <2>1, ConduitFacts DEF Ownership, Succession
<1>2. cmds'[e] \in Seq(Command) /\ cmds'[p] \in Seq(Command) /\ end'[p] = end[p]
  BY StepTells, StepShape
<1> HIDE DEF p
<1>3. CASE KeepsYpipes(e) /\ (Process(e) => Head(cmds[e])[1] # "hiccup")
  <2>1. /\ Renewals(cmds'[p]) = Renewals(cmds[p]) /\ Ascending(cmds'[p])
        /\ Renewals(cmds'[e]) = Renewals(cmds[e]) /\ Ascending(cmds'[e])
    BY <1>1, <1>3, RenewalsKept DEF KeepsYpipes, p
  <2>2. Succession(e)' /\ Conduit(e)' = Conduit(e)
    BY <1>1, <1>2, <1>3, <2>1, ConduitKept DEF KeepsYpipes, p
  <2>3. Succession(p)' /\ Conduit(p)' = Conduit(p)
    BY <1>0, <1>1, <1>2, <1>3, <2>1, ConduitKept DEF KeepsYpipes
  <2> QED
    BY <1>1, <1>3, <2>2, <2>3, OwnershipAfter DEF KeepsYpipes, p
<1>4. CASE hiccup(e)
  <2> DEFINE new == 3 + used.hiccups
             c == <<"hiccup", new>>
  <2>1. /\ end' = [end EXCEPT ![e].inpipe = new, ![e].in_active = TRUE]
        /\ ypipe' = [ypipe EXCEPT ![new] = NewYpipe]
        /\ Send(p, <<c>>) /\ end[e].state = "active" /\ used.hiccups < MaxHiccup
        /\ used' = [used EXCEPT !.hiccups = @ + 1]
    BY <1>4 DEF hiccup, p
  <2>2. /\ used.hiccups \in Nat /\ used'.hiccups = used.hiccups + 1 /\ setting' = setting
        /\ new \in Ypipe /\ NULL \notin Ypipe /\ new \in Int /\ Ypipe \subseteq Int
    <3>1. /\ MaxHiccup \in Nat /\ used.hiccups \in 0 .. MaxHiccup
          /\ NULL \notin Ypipe /\ Ypipe = 1 .. 2 + MaxHiccup
      BY <1>0, SettingFacts
    <3>2. used'.hiccups = used.hiccups + 1 /\ setting' = setting
      BY <1>0, <2>1 DEF Typed, TypeOK, setting
    <3> QED
      BY <2>1, <3>1, <3>2
  <2>3. ~Process(e)
    BY <2>2, ProcessTells
  <2>4. c \in Command /\ c[1] = "hiccup" /\ c[2] = new
    BY <2>2, CommandsSent
  <2>5. /\ end'[e].inpipe = new /\ end'[e].outpipe = end[e].outpipe
        /\ ypipe'[new].status = "live" /\ \A y \in Ypipe : y # new => ypipe'[y] = ypipe[y]
    BY <1>0, <2>1, <2>2 DEF Typed, TypeOK, Pipe, NewYpipe
  <2> HIDE DEF new, c
  <2>6. cmds'[p] = cmds[p] \o <<c>> /\ cmds'[e] = cmds[e]
    BY <1>0, <2>1, <2>2, <2>4, SendTyped
  <2>7. /\ Conduit(p) \subseteq Ypipe /\ Conduit(e) \subseteq Ypipe
        /\ Renewals(cmds[p]) \subseteq Conduit(p)
        /\ end[p].outpipe # NULL => end[p].outpipe \in Conduit(p)
        /\ end[e].inpipe # NULL => end[e].inpipe \in Conduit(p)
        /\ \A y \in Conduit(e) \cup Conduit(p) : y <= 2 + used.hiccups
    BY <1>0, ConduitFacts
  <2>8. \A y \in Conduit(e) \cup Conduit(p) : y \in Int /\ y < new /\ y # new
    <3>1. \A y \in Conduit(e) \cup Conduit(p) : y \in Int
      BY <2>2, <2>7
    <3> QED
      BY <2>2, <2>7, <3>1 DEF new
  <2>9. Renewals(cmds'[p]) = Renewals(cmds[p]) \cup {new} /\ Ascending(cmds'[p])
    BY <1>0, <1>1, <2>4, <2>6, <2>7, <2>8, RenewalsTold
  <2>10. Succession(e)' /\ Conduit(e)' = Conduit(e)
    BY <1>0, <1>1, <1>2, <2>5, <2>6 DEF Succession, Conduit, p
  <2>11. Succession(p)' /\ Conduit(p)' = Conduit(p) \cup {new}
    <3>0. end[p].state \in Open \cup {"term_req_sent1"}
      BY <1>0, <2>1 DEF Handshake, Meet, Open, Acked, Asked
    <3>1. end[p].outpipe # NULL
      BY <1>0, <3>0 DEF Handshake, Open, Acked
    <3>2. end[e].inpipe \in {end[p].outpipe} \cup Renewals(cmds[p]) /\ new # NULL
      BY <1>0, <1>1, <2>2, <3>1 DEF Succession
    <3>3. Conduit(p)' = Conduit(p) \cup {new}
      BY <1>0, <1>2, <2>5, <2>9, <3>2 DEF Conduit
    <3>4. \A y \in Renewals(cmds[p]) : end[p].outpipe < y /\ y < new
      BY <1>0, <1>1, <2>7, <2>8, <3>1 DEF Succession
    <3>5. end[p].outpipe < new /\ new <= new
      BY <2>2, <2>7, <2>8, <3>1
    <3>6. \A y \in Renewals(cmds[p]) : y <= new
      BY <2>2, <2>7, <2>8, <3>4
    <3> QED
      BY <1>0, <1>2, <2>5, <2>9, <3>3, <3>4, <3>5, <3>6 DEF Succession
  <2>12. \A y \in Ypipe : /\ ypipe'[y].status = "live" <=>
                                 y \in Conduit(e)' \/ y \in Conduit(p)'
                          /\ ypipe'[y].status = "unused" <=> y > 2 + used'.hiccups
    <3>1. \A y \in Ypipe : y # new => (y > 2 + used'.hiccups <=> y > 2 + used.hiccups)
      BY <2>2 DEF new
    <3>2. ~ (new > 2 + used'.hiccups)
      BY <2>2 DEF new
    <3> QED
      BY <1>1, <2>5, <2>10, <2>11, <3>1, <3>2
  <2>13. Conduit(e)' \cap Conduit(p)' = {}
    BY <1>1, <2>8, <2>10, <2>11
  <2> QED
    BY <2>2, <2>10, <2>11, <2>12, <2>13, OwnershipAfter DEF p
<1>5. CASE process_hiccup(e)
  <2> DEFINE old == end[e].outpipe
             new == Head(cmds[e])[2]
  <2>1. /\ Process(e) /\ Head(cmds[e])[1] = "hiccup" /\ cmds[e] # <<>>
        /\ ypipe' = [ypipe EXCEPT ![old].status = "freed"]
    BY <1>5 DEF process_hiccup, Process, Receives
  <2>2. /\ used' = used /\ setting' = setting /\ used'.hiccups = used.hiccups
        /\ cmds'[e] = Tail(cmds[e])
    BY <2>1, ProcessTells
  <2>3. Renewals(cmds'[p]) = Renewals(cmds[p]) /\ Ascending(cmds'[p])
    BY <1>1, <2>2, RenewalsKept DEF p
  <2>4. /\ Ascending(cmds'[e]) /\ Renewals(cmds[e]) = Renewals(cmds'[e]) \cup {new}
        /\ \A y \in Renewals(cmds'[e]) : new < y
    BY <1>0, <1>1, <2>1, <2>2, RenewalsTaken
  <2>5. old # NULL
    <3>1. Has(cmds[e], "hiccup")
      BY <1>0, <2>1, HasTaken
    <3> QED
      BY <1>0, <3>1 DEF Handshake, Open, Acked
  <2>6. /\ Conduit(e) \subseteq Ypipe /\ old \in Conduit(e) /\ NULL \notin Ypipe
        /\ Renewals(cmds[e]) \subseteq Conduit(e) /\ Ypipe \subseteq Int
    BY SMTT(30), <1>0, <2>5, ConduitFacts, SettingFacts
  <2>7. /\ end'[e].outpipe = new /\ end'[e].inpipe = end[e].inpipe
        /\ ypipe'[old].status = "freed" /\ \A y \in Ypipe : y # old => ypipe'[y] = ypipe[y]
    BY <1>0, <1>5, <2>1, <2>6 DEF process_hiccup, Typed, TypeOK, Pipe, Upipe
  <2> HIDE DEF old, new
  <2>8. /\ end[p].inpipe \in {old} \cup Renewals(cmds[e])
        /\ \A y \in Renewals(cmds[e]) : old < y /\ y <= end[p].inpipe
    BY <1>1, <2>5 DEF Succession, p, old
  <2>9. /\ new # NULL /\ \A y \in Renewals(cmds[e]) : y # old /\ y \in Int
        /\ end[p].inpipe # old /\ old < new /\ new <= end[p].inpipe
    BY <2>4, <2>6, <2>8
  <2>10. Succession(e)' /\ Conduit(e)' = Conduit(e) \ {old}
    <3>1. Conduit(e)' = Conduit(e) \ {old}
      BY <1>2, <2>4, <2>7, <2>8, <2>9 DEF Conduit, p, old
    <3>2. \A y \in Renewals(cmds'[e]) : new < y /\ y <= end[p].inpipe
      BY <2>4, <2>8
    <3>3. end[p].inpipe \in {new} \cup Renewals(cmds'[e])
      BY <2>4, <2>8, <2>9
    <3> QED
      BY <1>2, <2>4, <2>7, <3>1, <3>2, <3>3 DEF Succession, p
  <2>11. Succession(p)' /\ Conduit(p)' = Conduit(p)
    BY <1>0, <1>1, <1>2, <2>3, <2>7, ConduitKept
  <2>12. \A y \in Ypipe : /\ ypipe'[y].status = "live" <=>
                                 y \in Conduit(e)' \/ y \in Conduit(p)'
                          /\ ypipe'[y].status = "unused" <=> y > 2 + used'.hiccups
    <3>1. old \notin Conduit(p) /\ ypipe[old].status = "live"
      BY <1>1, <2>6
    <3>2. ~ (old > 2 + used.hiccups)
      BY <1>1, <2>6, <3>1
    <3> QED
      BY <1>1, <2>2, <2>7, <2>10, <2>11, <3>1, <3>2
  <2>13. Conduit(e)' \cap Conduit(p)' = {}
    BY <1>1, <2>10, <2>11
  <2> QED
    BY <2>2, <2>10, <2>11, <2>12, <2>13, OwnershipAfter DEF p
<1>6. CASE process_pipe_term_ack(e)
  <2> DEFINE old == end[e].inpipe
  <2>1. /\ Process(e) /\ Head(cmds[e])[1] = "pipe_term_ack" /\ cmds[e] # <<>>
        /\ ypipe' = [ypipe EXCEPT ![old].status = "freed"]
    BY <1>6 DEF process_pipe_term_ack, Process, Receives
  <2>2. /\ used' = used /\ setting' = setting /\ used'.hiccups = used.hiccups
        /\ end[e].state # "deleted"
    BY <2>1, ProcessTells
  <2>3. /\ Renewals(cmds'[p]) = Renewals(cmds[p]) /\ Ascending(cmds'[p])
        /\ Renewals(cmds'[e]) = Renewals(cmds[e]) /\ Ascending(cmds'[e])
    BY <1>1, <2>1, <2>2, RenewalsKept DEF p
  <2>4. old # NULL /\ old \in Conduit(p) /\ Conduit(p) \subseteq Ypipe
    BY <1>0, <2>2, RunsFacts, ConduitFacts
  <2>5. /\ end'[e].outpipe = NULL /\ end'[e].inpipe = NULL
        /\ ypipe'[old].status = "freed" /\ \A y \in Ypipe : y # old => ypipe'[y] = ypipe[y]
    BY <1>0, <1>6, <2>1, <2>4 DEF process_pipe_term_ack, Typed, TypeOK, Pipe, Upipe
  <2>6. Succession(e)' /\ Conduit(e)' = Conduit(e)
    BY <1>1, <1>2, <2>3, <2>5, ConduitKept DEF p
  <2>7. Conduit(p) = {old} /\ Conduit(p)' = {} /\ Succession(p)'
    <3>1. end[p].state \in Acked \cup {"deleted"}
      <4>1. Has(cmds[e], "pipe_term_ack")
        BY <1>0, <2>1, HasTaken
      <4> QED
        BY <1>0, <4>1 DEF Handshake, p
    <3>2. end[p].outpipe = NULL /\ ~Has(cmds[p], "hiccup")
      BY <1>0, <3>1 DEF Handshake, Open, Acked
    <3>3. Renewals(cmds[p]) = {}
      BY <1>0, <3>2, RenewalsHas
    <3> QED
      BY <1>0, <1>2, <2>3, <2>4, <2>5, <3>2, <3>3 DEF Conduit, Succession
  <2>8. \A y \in Ypipe : /\ ypipe'[y].status = "live" <=>
                                y \in Conduit(e)' \/ y \in Conduit(p)'
                         /\ ypipe'[y].status = "unused" <=> y > 2 + used'.hiccups
    <3>1. old \notin Conduit(e) /\ ypipe[old].status = "live"
      BY <1>1, <2>4
    <3>2. ~ (old > 2 + used.hiccups)
      BY <1>1, <2>4, <3>1
    <3> HIDE DEF old
    <3> QED
      BY <1>1, <2>2, <2>5, <2>6, <2>7, <3>1, <3>2
  <2>9. Conduit(e)' \cap Conduit(p)' = {}
    BY <2>7
  <2> QED
    BY <2>2, <2>6, <2>7, <2>8, <2>9, OwnershipAfter DEF p
<1> QED
  BY <1>3, <1>4, <1>5, <1>6, UserKeepsYpipes, ProcessKeepsYpipes

LEMMA InitOwnership == Init => Ownership
<1> SUFFICES ASSUME Init PROVE Ownership
  OBVIOUS
<1>1. NULL \notin Ypipe /\ {1, 2} \subseteq Ypipe /\ used.hiccups = 0 /\ Ypipe \subseteq Int
  <2>1. NULL \notin Ypipe /\ Ypipe = 1 .. 2 + MaxHiccup /\ MaxHiccup \in Nat
    BY InitTyped, SettingFacts
  <2> QED
    BY <2>1 DEF Init
<1>2. /\ end["session"].inpipe = 2 /\ end["session"].outpipe = 1
      /\ end["socket"].inpipe = 1 /\ end["socket"].outpipe = 2
      /\ cmds["session"] = <<>> /\ cmds["socket"] = <<>>
      /\ peer("session") = "socket" /\ peer("socket") = "session"
      /\ \A y \in Ypipe : ypipe[y].status = IF y <= 2 THEN "live" ELSE "unused"
  BY DEF Init, End, NewYpipe, peer
<1>3. Renewals(<<>>) = {} /\ Ascending(<<>>)
  BY DEF Renewals, Ascending
<1>4. Conduit("session") = {1} /\ Conduit("socket") = {2}
  BY <1>1, <1>2, <1>3 DEF Conduit
<1>5. Succession("session") /\ Succession("socket")
  BY <1>1, <1>2, <1>3 DEF Succession
<1>6. \A y \in Ypipe : (y <= 2 <=> y \in {1, 2}) /\ (y > 2 + used.hiccups <=> ~(y <= 2))
  <2>1. Ypipe = 1 .. 2 + MaxHiccup /\ MaxHiccup \in Nat
    BY InitTyped, SettingFacts
  <2> QED
    BY <1>1, <2>1
<1> QED
  BY <1>2, <1>4, <1>5, <1>6 DEF Ownership, End

(* Whatever is made, passed on and deleted while commands are on their     *)
(* way, each ypipe that exists belongs to one direction, and within it the *)
(* hiccups under way are what its writer has yet to move on to.            *)
THEOREM OwnershipInvariant == Spec => []Ownership
<1>1. HandshakeInv /\ HandshakeInv' /\ Ownership /\ [Next]_vars => Ownership'
  <2> SUFFICES ASSUME HandshakeInv, HandshakeInv', Ownership, [Next]_vars PROVE Ownership'
    OBVIOUS
  <2>1. CASE UNCHANGED vars
    BY <2>1 DEF vars, Ownership, Succession, Conduit, Ypipe, MaxHiccup, setting
  <2>2. CASE Next
    BY <2>2, StepKeepsOwnership DEF Next
  <2> QED
    BY <2>1, <2>2
<1> QED
  BY <1>1, InitOwnership, HandshakeInvariant, PTL DEF Spec

(* An end that still runs reads and writes ypipes that exist, and when     *)
(* both ends are gone, so is every ypipe.                                  *)
THEOREM YpipesSound == Spec => [](NoDangling /\ NoLeak)
<1>1. HandshakeInv /\ Ownership => NoDangling
  <2> SUFFICES ASSUME HandshakeInv, Ownership, NEW e \in End, end[e].state # "deleted"
               PROVE  /\ end[e].inpipe # NULL /\ In(e).status = "live"
                      /\ end[e].outpipe # NULL => Out(e).status = "live"
                      /\ finishing[e] => end[e].outpipe # NULL
    BY DEF NoDangling
  <2>1. Handshake(e) /\ peer(e) \in End /\ peer(peer(e)) = e
    BY EndsMeet
  <2>2. end[e].inpipe # NULL /\ (finishing[e] => end[e].outpipe # NULL)
    BY <2>1 DEF Handshake, Acked
  <2> QED
    BY <2>1, <2>2, ConduitFacts DEF In, Out
<1>2. HandshakeInv /\ Ownership => NoLeak
  <2> SUFFICES ASSUME HandshakeInv, Ownership, \A e \in End : end[e].state = "deleted",
                      NEW y \in Ypipe
               PROVE  ypipe[y].status # "live"
    BY DEF NoLeak
  <2>1. ASSUME NEW e \in End PROVE Conduit(e) = {}
    <3>1. /\ Handshake(e) /\ Handshake(peer(e)) /\ cmds[e] \in Seq(Command)
          /\ peer(e) \in End
      BY EndsMeet
    <3>2. /\ end[e].outpipe = NULL /\ end[peer(e)].inpipe = NULL
          /\ ~Has(cmds[e], "hiccup")
      BY <3>1 DEF Handshake, Open
    <3>3. Renewals(cmds[e]) = {}
      BY <3>1, <3>2, RenewalsHas
    <3> QED
      BY <3>2, <3>3 DEF Conduit
  <2> QED
    BY <2>1 DEF Ownership, End
<1> QED
  BY <1>1, <1>2, HandshakeInvariant, OwnershipInvariant, PTL
-----------------------------------------------------------------------------
(* Readers that found nothing. *)

LEMMA SleepOperations ==
  ASSUME NEW q \in Upipe, q.asleep => q.avail = <<>>
  PROVE  /\ RolledBack(q).asleep = q.asleep /\ RolledBack(q).avail = q.avail
         /\ \A f \in Frame : LET r == [q EXCEPT !.held = Append(@, f)]
                             IN  r.asleep = q.asleep /\ r.avail = q.avail
         /\ Flushed(q).asleep <=> q.asleep /\ ~FindsAsleep(q)
         /\ Flushed(q).asleep => Flushed(q).avail = <<>>
         /\ FoundEmpty(q).asleep /\ FoundEmpty(q).avail = <<>>
         /\ \A n \in Nat : Drained(q, n).asleep = q.asleep
<1>1. q.asleep \in BOOLEAN
  BY DEF Upipe
<1>2. RolledBack(q).asleep = q.asleep /\ RolledBack(q).avail = q.avail
  BY DEF RolledBack, Upipe
<1>3. /\ Flushed(q).asleep <=> q.asleep /\ ~FindsAsleep(q)
      /\ Flushed(q).asleep => Flushed(q).avail = <<>>
  <2>1. CASE LastWhole(q.held) = 0
    BY <1>1, <2>1 DEF Flushed, FindsAsleep
  <2>2. CASE LastWhole(q.held) # 0
    BY <1>1, <2>2 DEF Flushed, FindsAsleep, Upipe
  <2> QED
    BY <2>1, <2>2
<1>4. FoundEmpty(q).asleep /\ FoundEmpty(q).avail = <<>>
  BY DEF FoundEmpty, Upipe
<1> QED
  BY <1>2, <1>3, <1>4 DEF Drained, Upipe

Waits(state) == state \in {"active", "waiting_for_delimiter"}

SleepersSee == \A y \in Ypipe : ypipe[y].asleep => ypipe[y].avail = <<>>

(* What a step of e does to readers that wait for an activate_read. *)
Wakes(e) ==
  /\ \A y \in Ypipe : ypipe'[y].asleep => ypipe'[y].avail = <<>>
  /\ \A y \in Conduit(e) \cup Conduit(peer(e)) :
       ypipe[y].asleep /\ ~ypipe'[y].asleep =>
         y = end[e].outpipe /\ Has(cmds'[peer(e)], "activate_read")
  /\ Waits(end'[e].state) /\ ~end'[e].in_active =>
       /\ Waits(end[e].state)
       /\ \/ ypipe'[end'[e].inpipe].asleep
          \/ /\ ~end[e].in_active
             /\ end'[e].inpipe = end[e].inpipe
             /\ Process(e) => Head(cmds[e])[1] # "activate_read"

(* A step that changes one ypipe, which e does not fall asleep on. *)
LEMMA WakesOne ==
  ASSUME HandshakeInv, Ownership, SleepersSee, NEW e \in End,
         NEW y \in Ypipe, NEW q \in Upipe, ypipe' = [ypipe EXCEPT ![y] = q],
         q.asleep => q.avail = <<>>,
         ypipe[y].asleep /\ ~q.asleep => y = end[e].outpipe /\ Has(cmds'[peer(e)], "activate_read"),
         Waits(end'[e].state) => Waits(end[e].state),
         end'[e].inpipe = end[e].inpipe,
         Process(e) => Head(cmds[e])[1] # "activate_read",
         end'[e].in_active = end[e].in_active
  PROVE  Wakes(e)
<1>1. ypipe'[y] = q /\ \A z \in Ypipe : z # y => ypipe'[z] = ypipe[z]
  BY UpipeUpdated DEF HandshakeInv
<1>2. Conduit(e) \cup Conduit(peer(e)) \subseteq Ypipe
  BY ConduitFacts, Peers
<1> QED
  BY <1>1, <1>2 DEF Wakes, SleepersSee

LEMMA WakesNone ==
  ASSUME SleepersSee, NEW e \in End, UNCHANGED ypipe,
         Waits(end'[e].state) => Waits(end[e].state),
         end'[e].inpipe = end[e].inpipe,
         Process(e) => Head(cmds[e])[1] # "activate_read",
         end'[e].in_active = end[e].in_active
  PROVE  Wakes(e)
BY DEF Wakes, SleepersSee

(* A flush tells the reader it finds asleep. *)
LEMMA WakesFlushed ==
  ASSUME HandshakeInv, Ownership, SleepersSee, NEW e \in End,
         end[e].outpipe # NULL, NEW q \in Upipe, q.asleep = Out(e).asleep, q.avail = Out(e).avail,
         ypipe' = [ypipe EXCEPT ![end[e].outpipe] = Flushed(q)],
         Send(peer(e), ActivateRead(q)), setting' = setting,
         end'[e].state = end[e].state, end'[e].inpipe = end[e].inpipe,
         end'[e].in_active = end[e].in_active, ~Process(e)
  PROVE  Wakes(e)
<1>0. /\ Typed /\ peer(e) \in End /\ peer(e) # e /\ cmds[peer(e)] \in Seq(Command)
      /\ end[e].outpipe \in Ypipe
  BY EndsMeet, PipeFacts
<1>1. Flushed(q) \in Upipe /\ (q.asleep => q.avail = <<>>)
  BY <1>0, UpipeTypes DEF SleepersSee, Out
<1>2. FindsAsleep(q) => Has(cmds'[peer(e)], "activate_read")
  <2> DEFINE c == <<"activate_read">>
  <2> SUFFICES ASSUME FindsAsleep(q) PROVE Has(cmds'[peer(e)], "activate_read")
    OBVIOUS
  <2>1. c \in Command /\ c[1] = "activate_read" /\ Send(peer(e), <<c>>)
    BY CommandsSent DEF ActivateRead
  <2> HIDE DEF c
  <2>2. cmds'[peer(e)] = cmds[peer(e)] \o <<c>>
    BY <1>0, <2>1, SendTyped
  <2> QED
    BY <1>0, <2>1, <2>2, HasTold
<1> QED
  BY <1>0, <1>1, <1>2, SleepOperations, WakesOne DEF Out

LEMMA UserWakes ==
  ASSUME HandshakeInv, Ownership, SleepersSee, NEW e \in End, Step(e), ~Process(e)
  PROVE  Wakes(e)
<1>0. /\ Typed /\ Handshake(e) /\ peer(e) # e /\ peer(e) \in End /\ end[e] \in Pipe
      /\ end[e].outpipe # NULL => end[e].outpipe \in Ypipe /\ Out(e) \in Upipe
      /\ end[e].inpipe # NULL => end[e].inpipe \in Ypipe /\ In(e) \in Upipe
  BY EndsMeet, PipeFacts DEF Out, In
<1>1. /\ end[e].outpipe # NULL => (Out(e).asleep => Out(e).avail = <<>>)
      /\ end[e].inpipe # NULL => (In(e).asleep => In(e).avail = <<>>)
  BY <1>0 DEF SleepersSee, Out, In
<1>2. ASSUME NEW kind \in Kind[e] \cup {"data"}, NEW more \in BOOLEAN, Write(e, kind, more)
      PROVE  Wakes(e)
  <2> DEFINE frame == [msg |-> user[e].written + 1, part |-> user[e].parts + 1,
                       more |-> more, kind |-> kind]
             q == [Out(e) EXCEPT !.held = Append(@, frame)]
  <2>1. end[e].outpipe # NULL
    BY <1>0, <1>2 DEF Write, CanWrite, Handshake, Acked
  <2>2. frame \in Frame
    <3>1. user[e] \in User /\ kind \in {"data", "identity", "credential"}
      BY <1>0, PipeFacts, SettingFacts
    <3> QED
      BY <3>1 DEF Frame, User
  <2>3. ypipe' = [ypipe EXCEPT ![end[e].outpipe] = q]
    BY <1>0, <1>2, <2>1 DEF Write, Out
  <2>4. q \in Upipe /\ q.asleep = Out(e).asleep /\ q.avail = Out(e).avail
    <3> HIDE DEF frame
    <3> QED
      BY <1>0, <1>1, <2>1, <2>2, UpipeTypes, SleepOperations
  <2>5. /\ end'[e].inpipe = end[e].inpipe /\ end'[e].state = end[e].state
        /\ end'[e].in_active = end[e].in_active
    BY <1>0, <1>2 DEF Write, Typed, TypeOK, Pipe
  <2> HIDE DEF q
  <2> QED
    BY <1>0, <1>1, <2>1, <2>3, <2>4, <2>5, WakesOne DEF Out
<1>3. CASE WriteFails(e)
  <2>1. /\ end'[e].inpipe = end[e].inpipe /\ end'[e].state = end[e].state
        /\ end'[e].in_active = end[e].in_active /\ UNCHANGED ypipe
    BY <1>0, <1>3 DEF WriteFails, Typed, TypeOK, Pipe
  <2> QED
    BY <2>1, WakesNone
<1>4. CASE rollback(e)
  <2>1. UNCHANGED end
    BY <1>4 DEF rollback
  <2>2. CASE end[e].outpipe = NULL
    BY <1>4, <2>1, <2>2, WakesNone DEF rollback
  <2>3. CASE end[e].outpipe # NULL
    <3>1. ypipe' = [ypipe EXCEPT ![end[e].outpipe] = RolledBack(Out(e))]
      BY <1>4, <2>3 DEF rollback, Out
    <3>2. RolledBack(Out(e)) \in Upipe /\ RolledBack(Out(e)).asleep = Out(e).asleep
          /\ RolledBack(Out(e)).avail = Out(e).avail
      BY <1>0, <1>1, <2>3, UpipeTypes, SleepOperations
    <3>3. end'[e] = end[e]
      BY <2>1
    <3> QED
      BY <1>0, <1>1, <2>3, <3>1, <3>2, <3>3, WakesOne DEF Out
  <2> QED
    BY <2>2, <2>3
<1>5. CASE flush(e)
  <2>1. /\ UNCHANGED <<end, setting>> /\ end[e].outpipe # NULL
        /\ ypipe' = [ypipe EXCEPT ![end[e].outpipe] = Flushed(Out(e))]
        /\ Send(peer(e), ActivateRead(Out(e)))
    BY <1>5 DEF flush, setting, Out
  <2> QED
    BY <1>0, <2>1, WakesFlushed
<1>6. CASE ReadMessage(e) \/ ReadDelimiter(e)
  <2> DEFINE n == NextItem(In(e).avail)
  <2>1. /\ ypipe' = [ypipe EXCEPT ![end[e].inpipe] = Drained(In(e), n)]
        /\ Readable(e) /\ n # 0 /\ end[e].in_active
    BY <1>6 DEF ReadMessage, ReadDelimiter, In, Readable
  <2>2. end[e].inpipe # NULL
    BY <2>1, RunsFacts DEF Readable, Runs
  <2>3. n \in 0 .. Len(In(e).avail) /\ n \in Nat /\ Len(In(e).avail) # 0
    <3>1. In(e).avail \in Seq(Frame)
      BY <1>0, <2>2 DEF Upipe
    <3> QED
      BY <2>1, <3>1, FirstItem
  <2>4. ~Drained(In(e), n).asleep
    <3>1. ~In(e).asleep
      BY <1>1, <2>2, <2>3
    <3> QED
      BY <1>0, <1>1, <2>2, <2>3, <3>1, SleepOperations
  <2>5. /\ end'[e].inpipe = end[e].inpipe
        /\ Waits(end'[e].state) => Waits(end[e].state)
        /\ end'[e].in_active = end[e].in_active
    <3>1. CASE ReadMessage(e)
      BY <1>0, <3>1 DEF ReadMessage, Typed, TypeOK, Pipe
    <3>2. CASE ReadDelimiter(e)
      <4>1. end'[e].inpipe = end[e].inpipe /\ end'[e].in_active = end[e].in_active
        BY <1>0, <3>2 DEF ReadDelimiter, Typed, TypeOK, Pipe
      <4>2. Waits(end[e].state)
        BY <2>1 DEF Readable, Waits
      <4> QED
        BY <4>1, <4>2
    <3> QED
      BY <1>6, <3>1, <3>2
  <2>6. ~In(e).asleep
    BY <1>1, <2>2, <2>3
  <2> HIDE DEF n
  <2> QED
    BY <1>0, <2>1, <2>2, <2>3, <2>4, <2>5, <2>6, UpipeTypes, WakesOne DEF In
<1>7. CASE ReadEmpty(e)
  <2>1. /\ ypipe' = [ypipe EXCEPT ![end[e].inpipe] = FoundEmpty(In(e))]
        /\ Readable(e) /\ Waits(end[e].state)
    BY <1>7 DEF ReadEmpty, In, Readable, Waits
  <2>2. end[e].inpipe # NULL
    BY <2>1, RunsFacts DEF Readable, Runs
  <2>3. end'[e].inpipe = end[e].inpipe
    BY <1>0, <1>7 DEF ReadEmpty, Typed, TypeOK, Pipe
  <2>4. /\ ypipe'[end[e].inpipe].asleep /\ ypipe'[end[e].inpipe].avail = <<>>
        /\ \A y \in Ypipe : y # end[e].inpipe => ypipe'[y] = ypipe[y]
    <3>1. FoundEmpty(In(e)) \in Upipe /\ FoundEmpty(In(e)).asleep
          /\ FoundEmpty(In(e)).avail = <<>>
      BY <1>0, <1>1, <2>2, UpipeTypes, SleepOperations
    <3> QED
      BY <1>0, <2>1, <2>2, <3>1, UpipeUpdated
  <2>5. Conduit(e) \cup Conduit(peer(e)) \subseteq Ypipe
    BY <1>0, ConduitFacts
  <2> QED
    BY <2>1, <2>3, <2>4, <2>5 DEF Wakes, SleepersSee
<1>8. CASE hiccup(e)
  <2> DEFINE new == 3 + used.hiccups
  <2>1. /\ end' = [end EXCEPT ![e].inpipe = new, ![e].in_active = TRUE]
        /\ ypipe' = [ypipe EXCEPT ![new] = NewYpipe]
    BY <1>8 DEF hiccup
  <2>2. end'[e].in_active
    BY <1>0, <2>1 DEF Typed, TypeOK, Pipe
  <2>3. \A y \in Conduit(e) \cup Conduit(peer(e)) : y # new /\ y \in Ypipe
    <3>1. /\ Conduit(e) \cup Conduit(peer(e)) \subseteq Ypipe
          /\ \A y \in Conduit(e) \cup Conduit(peer(e)) : y <= 2 + used.hiccups
      BY <1>0, ConduitFacts
    <3>2. used.hiccups \in Nat
      BY <1>0, SettingFacts
    <3> QED
      BY <3>1, <3>2
  <2>4. /\ \A y \in Ypipe : y # new => ypipe'[y] = ypipe[y]
        /\ new \in Ypipe => ~ypipe'[new].asleep
    BY <1>0, <2>1 DEF Typed, TypeOK, NewYpipe
  <2> HIDE DEF new
  <2> QED
    BY <2>2, <2>3, <2>4 DEF Wakes, SleepersSee
<1>9. ASSUME NEW in \in NewHwm, NEW out \in NewHwm, ChangeHwms(e, in, out)
      PROVE  Wakes(e)
  <2>1. /\ end'[e].inpipe = end[e].inpipe /\ end'[e].state = end[e].state
        /\ end'[e].in_active = end[e].in_active /\ UNCHANGED ypipe
    BY <1>0, <1>9 DEF ChangeHwms, set_hwms, Typed, TypeOK, Pipe
  <2> QED
    BY <2>1, WakesNone
<1>10. CASE terminate(e)
  <2>1. UNCHANGED ypipe
    BY <1>10 DEF terminate, TerminateIgnored, TerminateRequest, TerminateWaiting
  <2>2. /\ end'[e].inpipe = end[e].inpipe /\ (Waits(end'[e].state) => Waits(end[e].state))
        /\ end'[e].in_active = end[e].in_active
    BY SMTT(30), <1>0, <1>10 DEF terminate, TerminateIgnored, TerminateRequest, TerminateWaiting,
                      Waits, Typed, TypeOK, Pipe
  <2> QED
    BY <2>1, <2>2, WakesNone
<1>11. CASE TerminateFinish(e)
  <2> DEFINE q == [RolledBack(Out(e)) EXCEPT !.held = Append(@, Delimiter(e))]
  <2>1. /\ ypipe' = [ypipe EXCEPT ![end[e].outpipe] = Flushed(q)]
        /\ finishing[e] /\ UNCHANGED setting /\ Send(peer(e), ActivateRead(q))
    BY <1>11 DEF TerminateFinish, setting
  <2>2. end[e].outpipe # NULL
    BY <1>0, <2>1 DEF Handshake, Acked
  <2>3. q \in Upipe /\ q.asleep = Out(e).asleep /\ q.avail = Out(e).avail
    <3>1. Delimiter(e) \in Frame
      BY <1>0, PipeFacts DEF Delimiter, Frame, User
    <3>2. RolledBack(Out(e)) \in Upipe /\ RolledBack(Out(e)).asleep = Out(e).asleep
          /\ RolledBack(Out(e)).avail = Out(e).avail
      BY <1>0, <1>1, <2>2, UpipeTypes, SleepOperations
    <3> QED
      BY <1>1, <2>2, <3>1, <3>2, UpipeTypes, SleepOperations
  <2>4. /\ end'[e].inpipe = end[e].inpipe /\ end'[e].state = end[e].state
        /\ end'[e].in_active = end[e].in_active
    BY <1>0, <1>11 DEF TerminateFinish, Typed, TypeOK, Pipe
  <2> HIDE DEF q
  <2> QED
    BY <2>1, <2>2, <2>3, <2>4, WakesFlushed
<1> QED
  BY <1>2, <1>3, <1>4, <1>5, <1>6, <1>7, <1>8, <1>9, <1>10, <1>11 DEF Step, Read

LEMMA ProcessWakes ==
  ASSUME HandshakeInv, Ownership, SleepersSee, NEW e \in End, Process(e)
  PROVE  Wakes(e)
<1>0. /\ Typed /\ peer(e) # e /\ peer(e) \in End /\ end[e] \in Pipe /\ setting' = setting
      /\ Conduit(e) \cup Conduit(peer(e)) \subseteq Ypipe
  BY EndsMeet, PipeFacts, ProcessTells, ConduitFacts
<1>1. ASSUME NEW y, ypipe' = [ypipe EXCEPT ![y].status = "freed"]
      PROVE  \A z \in Ypipe : ypipe'[z].asleep = ypipe[z].asleep /\ ypipe'[z].avail = ypipe[z].avail
  BY <1>0, <1>1 DEF Typed, TypeOK, Upipe
<1>2. CASE process_activate_read(e)
  <2>1. UNCHANGED ypipe /\ (Waits(end'[e].state) => Waits(end[e].state) /\ end'[e].in_active)
    BY <1>0, <1>2 DEF process_activate_read, Waits, Typed, TypeOK, Pipe
  <2> QED
    BY <2>1 DEF Wakes, SleepersSee
<1>3. CASE process_activate_write(e)
  <2>1. /\ end'[e].inpipe = end[e].inpipe /\ end'[e].state = end[e].state
        /\ end'[e].in_active = end[e].in_active /\ UNCHANGED ypipe
        /\ Head(cmds[e])[1] # "activate_read"
    BY <1>0, <1>3 DEF process_activate_write, Receives, Typed, TypeOK, Pipe
  <2> QED
    BY <2>1, WakesNone
<1>4. CASE process_hiccup(e)
  <2>1. /\ end'[e].inpipe = end[e].inpipe /\ end'[e].state = end[e].state
        /\ end'[e].in_active = end[e].in_active
        /\ ypipe' = [ypipe EXCEPT ![end[e].outpipe].status = "freed"]
        /\ Head(cmds[e])[1] # "activate_read"
    BY <1>0, <1>4 DEF process_hiccup, Receives, Typed, TypeOK, Pipe
  <2> QED
    BY <1>0, <1>1, <2>1 DEF Wakes, SleepersSee
<1>5. CASE process_pipe_hwm(e)
  <2>1. Head(cmds[e])[1] # "activate_read" /\ UNCHANGED ypipe
    BY <1>5 DEF process_pipe_hwm, Receives
  <2>2. /\ end'[e].inpipe = end[e].inpipe /\ end'[e].state = end[e].state
        /\ end'[e].in_active = end[e].in_active
    BY <1>0, <1>5 DEF process_pipe_hwm, set_hwms, Typed, TypeOK, Pipe
  <2> QED
    BY <2>1, <2>2, WakesNone
<1>6. CASE process_pipe_term(e)
  <2>1. Head(cmds[e])[1] # "activate_read" /\ UNCHANGED ypipe
    BY <1>6 DEF process_pipe_term, Receives
  <2>2. /\ end'[e].inpipe = end[e].inpipe /\ end'[e].in_active = end[e].in_active
        /\ Waits(end'[e].state) => Waits(end[e].state)
    BY <1>0, <1>6 DEF process_pipe_term, Waits, Typed, TypeOK, Pipe
  <2> QED
    BY <2>1, <2>2, WakesNone
<1>7. CASE process_pipe_term_ack(e)
  <2>1. /\ ~Waits(end'[e].state)
        /\ ypipe' = [ypipe EXCEPT ![end[e].inpipe].status = "freed"]
    BY <1>0, <1>7 DEF process_pipe_term_ack, Waits, Typed, TypeOK, Pipe
  <2> QED
    BY <1>0, <1>1, <2>1 DEF Wakes, SleepersSee
<1> QED
  BY <1>2, <1>3, <1>4, <1>5, <1>6, <1>7 DEF Process

LEMMA StepKeepsSetting ==
  ASSUME HandshakeInv, NEW e \in End, Step(e)
  PROVE  setting' = setting
<1>0. Typed
  BY EndsMeet
<1>1. CASE Process(e)
  BY <1>1, ProcessTells
<1>2. CASE ~Process(e)
  BY <1>0, <1>2 DEF Step, Read, Write, WriteFails, rollback, flush, ReadMessage, ReadDelimiter,
       ReadEmpty, hiccup, ChangeHwms, terminate, TerminateIgnored, TerminateRequest,
       TerminateWaiting, TerminateFinish, Terminates, setting, Typed, TypeOK
<1> QED
  BY <1>1, <1>2

LEMMA StepKeepsActivation ==
  ASSUME HandshakeInv, Ownership, Activation, NEW e \in End, Step(e)
  PROVE  Activation'
<1> DEFINE p == peer(e)
<1>0. /\ Typed /\ Handshake(e) /\ p \in End /\ p # e /\ peer(p) = e
      /\ cmds[e] \in Seq(Command) /\ cmds[p] \in Seq(Command) /\ SleepersSee
      /\ end'[p] = end[p]
  BY EndsMeet, StepShape DEF Activation, SleepersSee
<1>1. Wakes(e)
  BY <1>0, UserWakes, ProcessWakes
<1>2. setting' = setting
  BY StepKeepsSetting
<1>3. Ypipe' = Ypipe
  BY <1>2, SameSetting
<1>4. ASSUME Waits(end'[e].state), ~end'[e].in_active
      PROVE  ypipe'[end'[e].inpipe].asleep \/ Has(cmds'[e], "activate_read")
  <2>1. CASE ypipe'[end'[e].inpipe].asleep
    BY <2>1
  <2>2. CASE ~ypipe'[end'[e].inpipe].asleep
    <3>1. /\ Waits(end[e].state) /\ ~end[e].in_active /\ end'[e].inpipe = end[e].inpipe
          /\ Process(e) => Head(cmds[e])[1] # "activate_read"
      BY <1>1, <1>4, <2>2 DEF Wakes
    <3>2. In(e).asleep \/ Has(cmds[e], "activate_read")
      BY <3>1 DEF Activation, Waits
    <3>3. Has(cmds[e], "activate_read") => Has(cmds'[e], "activate_read")
      BY <1>0, <3>1, StepTells, HasTaken
    <3>4. end[e].inpipe \in Conduit(p) /\ end[e].inpipe # end[e].outpipe
      <4>1. end[e].inpipe # NULL
        BY <1>0, <3>1 DEF Handshake, Waits
      <4>2. end[e].inpipe \in Conduit(p) /\ Conduit(e) \cap Conduit(p) = {}
        BY <1>0, <4>1, ConduitFacts
      <4>3. end[e].outpipe # NULL => end[e].outpipe \in Conduit(e)
        BY ConduitFacts
      <4> QED
        BY <4>1, <4>2, <4>3
    <3> QED
      BY <1>1, <2>2, <3>1, <3>2, <3>3, <3>4 DEF Wakes, In
  <2> QED
    BY <2>1, <2>2
<1>5. ASSUME Waits(end[p].state), ~end[p].in_active
      PROVE  ypipe'[end[p].inpipe].asleep \/ Has(cmds'[p], "activate_read")
  <2>1. In(p).asleep \/ Has(cmds[p], "activate_read")
    BY <1>0, <1>5 DEF Activation, Waits
  <2>2. Has(cmds[p], "activate_read") => Has(cmds'[p], "activate_read")
    <3>1. PICK c \in Command : \E s \in {<<>>, <<c>>} : Tells(e, c, s)
      BY StepTells
    <3>2. PICK s \in {<<>>, <<c>>} : Tells(e, c, s)
      BY <3>1
    <3>3. CASE s = <<>>
      BY <1>0, <3>2, <3>3, ConcatEmptySeq DEF Tells
    <3>4. CASE s # <<>>
      BY <1>0, <3>2, <3>4, HasTold DEF Tells
    <3> QED
      BY <3>3, <3>4
  <2>3. end[p].inpipe \in Conduit(e)
    <3>1. end[p].inpipe # NULL
      BY <1>0, <1>5, RunsFacts DEF Waits
    <3> QED
      BY <3>1, ConduitFacts
  <2> QED
    BY <1>1, <2>1, <2>2, <2>3 DEF Wakes, In
<1>6. ASSUME NEW f \in End,
             end'[f].state \in {"active", "waiting_for_delimiter"}, ~end'[f].in_active
      PROVE  In(f)'.asleep \/ Has(cmds'[f], "activate_read")
  BY <1>0, <1>4, <1>5, <1>6, Peers DEF In, Waits
<1> QED
  BY <1>1, <1>3, <1>6 DEF Activation, Wakes

LEMMA InitActivation == Init => Activation
<1> SUFFICES ASSUME Init PROVE Activation
  OBVIOUS
<1>1. \A y \in Ypipe : ~ypipe[y].asleep
  BY DEF Init, NewYpipe
<1>2. \A e \in End : end[e].in_active
  BY DEF Init
<1> QED
  BY <1>1, <1>2 DEF Activation

(* A reader that has found its ypipe empty is known to be asleep, so that  *)
(* the next flush tells it, or has been sent the command.                  *)
THEOREM ActivationInvariant == Spec => []Activation
<1>1. HandshakeInv /\ Ownership /\ Activation /\ [Next]_vars => Activation'
  <2> SUFFICES ASSUME HandshakeInv, Ownership, Activation, [Next]_vars PROVE Activation'
    OBVIOUS
  <2>1. CASE UNCHANGED vars
    BY <2>1 DEF vars, Activation, In, Ypipe, MaxHiccup, setting
  <2>2. CASE Next
    BY <2>2, StepKeepsActivation DEF Next
  <2> QED
    BY <2>1, <2>2
<1> QED
  BY <1>1, InitActivation, HandshakeInvariant, OwnershipInvariant, PTL DEF Spec

(* No wake-up is lost: a passive reader with something to read is going to *)
(* be told, also when a hiccup has replaced the ypipe under its writer.    *)
THEOREM ReadersAreTold == Spec => []NoLostActivation
<1>1. HandshakeInv /\ Activation => NoLostActivation
  <2> SUFFICES ASSUME HandshakeInv, Activation, NEW e \in End,
                      end[e].state \in {"active", "waiting_for_delimiter"},
                      ~end[e].in_active, In(e).avail # <<>>
               PROVE  \E i \in DOMAIN cmds[e] : cmds[e][i] = <<"activate_read">>
    BY DEF NoLostActivation
  <2>1. Typed /\ cmds[e] \in Seq(Command)
    BY EndsMeet
  <2>2. end[e].inpipe \in Ypipe
    BY RunsFacts
  <2>3. Has(cmds[e], "activate_read")
    BY <2>2 DEF Activation, In
  <2>4. \A c \in Command : c[1] = "activate_read" => c = <<"activate_read">>
    <3> SUFFICES ASSUME NEW c \in Command, c[1] = "activate_read"
                 PROVE  c = <<"activate_read">>
      OBVIOUS
    <3>1. /\ c \notin {"activate_write"} \X Nat /\ c \notin {"hiccup"} \X Ypipe
          /\ c \notin {"pipe_hwm"} \X Int \X Int
      OBVIOUS
    <3> QED
      BY <3>1 DEF Command
  <2> QED
    BY <2>1, <2>3, <2>4 DEF Has
<1> QED
  BY <1>1, ActivationInvariant, HandshakeInvariant, PTL
-----------------------------------------------------------------------------
(* Counting messages. *)

CountedAt(frames) == {i \in 1 .. Len(frames) : Counted(frames[i])}

LEMMA WeightTyped ==
  ASSUME NEW s \in Seq(Frame)
  PROVE  /\ IsFiniteSet(CountedAt(s)) /\ Weight(s) = Cardinality(CountedAt(s))
         /\ Weight(s) \in Nat
         /\ Weight(s) = 0 => CountedAt(s) = {}
<1>1. IsFiniteSet(1 .. Len(s)) /\ DOMAIN s = 1 .. Len(s)
  BY FS_Interval, LenProperties
<1>2. IsFiniteSet(CountedAt(s))
  BY <1>1, FS_Subset DEF CountedAt
<1>3. Weight(s) = Cardinality(CountedAt(s))
  BY <1>1 DEF Weight, CountedAt
<1> QED
  BY <1>2, <1>3, FS_CardinalityType, FS_EmptySet

LEMMA WeightNone == Weight(<<>>) = 0
<1>1. {i \in DOMAIN <<>> : Counted(<<>>[i])} = {}
  OBVIOUS
<1> QED
  BY <1>1, FS_EmptySet DEF Weight

LEMMA WeightJoined ==
  ASSUME NEW s \in Seq(Frame), NEW t \in Seq(Frame)
  PROVE  Weight(s \o t) = Weight(s) + Weight(t)
<1> DEFINE r == s \o t
           n == Len(s)
           A == CountedAt(s)
           B == CountedAt(t)
           C == {i + n : i \in B}
<1>1. r \in Seq(Frame) /\ Len(r) = n + Len(t) /\ n \in Nat /\ Len(t) \in Nat
      /\ \A i \in 1 .. n + Len(t) : r[i] = IF i <= n THEN s[i] ELSE t[i - n]
  BY ConcatProperties, LenProperties
<1>2. /\ IsFiniteSet(A) /\ IsFiniteSet(B) /\ Weight(s) = Cardinality(A)
      /\ Weight(t) = Cardinality(B) /\ Weight(r) = Cardinality(CountedAt(r))
      /\ Weight(s) \in Nat /\ Weight(t) \in Nat
  BY <1>1, WeightTyped
<1>3. CountedAt(r) = A \cup C
  <2>1. ASSUME NEW i \in CountedAt(r) PROVE i \in A \cup C
    <3>1. i \in 1 .. n + Len(t) /\ Counted(r[i])
      BY <1>1 DEF CountedAt
    <3>2. CASE i <= n
      BY <1>1, <3>1, <3>2 DEF CountedAt
    <3>3. CASE ~(i <= n)
      <4>1. i - n \in B /\ i = (i - n) + n
        BY <1>1, <3>1, <3>3 DEF CountedAt
      <4> QED
        BY <4>1
    <3> QED
      BY <3>2, <3>3
  <2>2. ASSUME NEW i \in A PROVE i \in CountedAt(r)
    BY <1>1 DEF CountedAt
  <2>3. ASSUME NEW i \in B PROVE i + n \in CountedAt(r)
    <3>1. i \in 1 .. Len(t) /\ Counted(t[i])
      BY DEF CountedAt
    <3>2. i + n \in 1 .. n + Len(t) /\ ~(i + n <= n) /\ (i + n) - n = i
      BY <1>1, <3>1
    <3> HIDE DEF r, n
    <3>3. r[i + n] = t[i]
      BY <1>1, <3>2
    <3> QED
      BY <1>1, <3>1, <3>2, <3>3 DEF CountedAt
  <2> QED
    BY <2>1, <2>2, <2>3
<1>4. A \cap C = {}
  <2>1. \A i \in A : i <= n /\ i \in Nat
    BY <1>1 DEF CountedAt
  <2>2. \A i \in B : i \in Nat /\ i >= 1
    BY <1>1 DEF CountedAt
  <2> QED
    BY <1>1, <2>1, <2>2
<1>5. IsFiniteSet(C) /\ Cardinality(C) = Cardinality(B)
  <2> DEFINE f == [i \in B |-> i + n]
  <2>1. \A i \in B : i \in Nat
    BY <1>1 DEF CountedAt
  <2>2. f \in Bijection(B, C)
    <3>1. f \in [B -> C] /\ \A c \in C : \E i \in B : f[i] = c
      OBVIOUS
    <3>2. \A i, j \in B : f[i] = f[j] => i = j
      BY <1>1, <2>1
    <3> QED
      BY <3>1, <3>2 DEF Bijection, Injection, Surjection, IsInjective
  <2>3. ExistsBijection(B, C)
    BY <2>2 DEF ExistsBijection
  <2> QED
    BY <1>2, <2>3, FS_Bijection
<1> HIDE DEF A, B, C, r
<1>6. Cardinality(A \cup C) = Cardinality(A) + Cardinality(C) - Cardinality(A \cap C)
  BY <1>2, <1>5, FS_Union
<1>7. Cardinality(A \cap C) = 0
  BY <1>4, FS_EmptySet
<1>8. Weight(r) = Weight(s) + Weight(t) - 0
  BY <1>2, <1>3, <1>5, <1>6, <1>7
<1> QED
  BY <1>2, <1>8 DEF r

LEMMA WeightOne ==
  ASSUME NEW f \in Frame
  PROVE  <<f>> \in Seq(Frame) /\ Weight(<<f>>) = IF Counted(f) THEN 1 ELSE 0
<1>1. <<f>> \in Seq(Frame) /\ DOMAIN <<f>> = {1} /\ <<f>>[1] = f
  OBVIOUS
<1>2. CASE Counted(f)
  <2>1. {i \in DOMAIN <<f>> : Counted(<<f>>[i])} = {1}
    BY <1>1, <1>2
  <2> QED
    BY <1>1, <1>2, <2>1, FS_Singleton DEF Weight
<1>3. CASE ~Counted(f)
  <2>1. {i \in DOMAIN <<f>> : Counted(<<f>>[i])} = {}
    BY <1>1, <1>3
  <2> QED
    BY <1>1, <1>3, <2>1, FS_EmptySet DEF Weight
<1> QED
  BY <1>2, <1>3

(* The frames before a place, and those after it. *)
LEMMA WeightSplit ==
  ASSUME NEW s \in Seq(Frame), NEW n \in 0 .. Len(s)
  PROVE  LET a == SubSeq(s, 1, n)
             b == SubSeq(s, n + 1, Len(s))
         IN  /\ a \in Seq(Frame) /\ b \in Seq(Frame) /\ a \o b = s
             /\ Weight(s) = Weight(a) + Weight(b) /\ Weight(a) \in Nat /\ Weight(b) \in Nat
             /\ n # 0 /\ Counted(s[n]) => Weight(a) >= 1
<1> DEFINE a == SubSeq(s, 1, n)
           b == SubSeq(s, n + 1, Len(s))
<1>1. Len(s) \in Nat /\ \A i \in 1 .. Len(s) : s[i] \in Frame
  BY LenProperties
<1>2. a \in Seq(Frame) /\ b \in Seq(Frame) /\ Len(a) = n
      /\ \A i \in 1 .. n : a[i] = s[i]
  <2>1. \A i \in 1 .. n : s[i] \in Frame
    BY <1>1
  <2>2. \A i \in n + 1 .. Len(s) : s[i] \in Frame
    BY <1>1
  <2> QED
    BY <1>1, <2>1, <2>2, SubSeqProperties
<1>3. a \o b = s
  <2>1. SubSeq(s, 1, Len(s)) = s
    BY SubSeqFull
  <2>2. SubSeq(s, 1, n) \o SubSeq(s, n + 1, Len(s)) = SubSeq(s, 1, Len(s))
    <3>1. 1 \in 1 .. Len(s) + 1 /\ n \in 1 - 1 .. Len(s) /\ Len(s) \in n .. Len(s)
      BY <1>1
    <3> QED
      BY <3>1, ConcatAdjacentSubSeq
  <2> QED
    BY <2>1, <2>2
<1>4. ASSUME n # 0, Counted(s[n]) PROVE Weight(a) >= 1
  <2>1. n \in CountedAt(a)
    BY <1>1, <1>2, <1>4 DEF CountedAt
  <2> HIDE DEF a
  <2>2. Weight(a) \in Nat /\ Weight(a) # 0
    BY <1>2, <2>1, WeightTyped
  <2> QED
    BY <2>2
<1> HIDE DEF a, b
<1>5. Weight(s) = Weight(a) + Weight(b)
  BY <1>2, <1>3, WeightJoined
<1>6. Weight(a) \in Nat /\ Weight(b) \in Nat
  BY <1>2, WeightTyped
<1> QED
  BY <1>2, <1>3, <1>4, <1>5, <1>6 DEF a, b

Load(q) == Weight(q.avail) + Weight(q.held)

Plain(q) == /\ \A i \in DOMAIN q.avail : q.avail[i].kind # "identity"
            /\ \A i \in DOMAIN q.held : q.held[i].kind # "identity"

Empty(q) == q.avail = <<>> /\ q.held = <<>>

LEMMA EmptyFacts == ASSUME NEW q, Empty(q) PROVE Load(q) = 0 /\ Plain(q)
BY WeightNone DEF Empty, Load, Plain

LEMMA Shares ==
  ASSUME NEW whole \in Nat, NEW taken \in Nat, NEW left \in Nat, NEW held \in Nat,
         whole = taken + left
  PROVE  /\ left + held \in Nat /\ left + held <= whole + held
         /\ taken >= 1 => left + held + 1 <= whole + held
OBVIOUS

(* What the operations of a ypipe do to the messages in it. *)
LEMMA LoadOperations ==
  ASSUME NEW q \in Upipe
  PROVE  /\ Load(q) \in Nat
         /\ Load(RolledBack(q)) <= Load(q) /\ Load(RolledBack(q)) \in Nat
         /\ Load(Flushed(q)) = Load(q)
         /\ Load(FoundEmpty(q)) <= Load(q) /\ Load(FoundEmpty(q)) \in Nat
         /\ \A f \in Frame : Load([q EXCEPT !.held = Append(@, f)]) =
                               Load(q) + (IF Counted(f) THEN 1 ELSE 0)
         /\ \A n \in 0 .. Len(q.avail) :
              /\ Load(Drained(q, n)) <= Load(q) /\ Load(Drained(q, n)) \in Nat
              /\ n # 0 /\ Counted(q.avail[n]) => Load(Drained(q, n)) + 1 <= Load(q)
<1> DEFINE n == LastWhole(q.held)
           a == SubSeq(q.held, 1, n)
           b == SubSeq(q.held, n + 1, Len(q.held))
<1>1. q.held \in Seq(Frame) /\ q.avail \in Seq(Frame)
  BY DEF Upipe
<1>2. n \in 0 .. Len(q.held)
  BY <1>1, LastComplete
<1>3. /\ a \in Seq(Frame) /\ b \in Seq(Frame) /\ Weight(q.held) = Weight(a) + Weight(b)
      /\ Weight(a) \in Nat /\ Weight(b) \in Nat /\ Weight(q.avail) \in Nat
      /\ Weight(q.held) \in Nat
  BY <1>1, <1>2, WeightSplit, WeightTyped
<1>4. Load(RolledBack(q)) <= Load(q) /\ Load(RolledBack(q)) \in Nat /\ Load(q) \in Nat
  <2>1. RolledBack(q).held = a /\ RolledBack(q).avail = q.avail
    BY DEF RolledBack, Upipe
  <2> HIDE DEF a, b
  <2> QED
    BY <1>3, <2>1 DEF Load
<1>5. Load(Flushed(q)) = Load(q)
  <2>1. CASE n = 0
    BY <2>1 DEF Flushed
  <2>2. CASE n # 0
    <3>1. Flushed(q).avail = q.avail \o a /\ Flushed(q).held = b
      BY <2>2 DEF Flushed, Upipe
    <3> HIDE DEF a, b
    <3>2. Weight(q.avail \o a) = Weight(q.avail) + Weight(a)
      BY <1>1, <1>3, WeightJoined
    <3> QED
      BY <1>3, <3>1, <3>2 DEF Load
  <2> QED
    BY <2>1, <2>2
<1>6. Load(FoundEmpty(q)) <= Load(q) /\ Load(FoundEmpty(q)) \in Nat
  <2>1. FoundEmpty(q).avail = <<>> /\ FoundEmpty(q).held = q.held
    BY DEF FoundEmpty, Upipe
  <2> QED
    BY <1>3, <2>1, WeightNone DEF Load
<1>7. ASSUME NEW f \in Frame
      PROVE  Load([q EXCEPT !.held = Append(@, f)]) = Load(q) + (IF Counted(f) THEN 1 ELSE 0)
  <2> DEFINE r == [q EXCEPT !.held = Append(@, f)]
  <2>1. r.avail = q.avail /\ r.held = q.held \o <<f>>
    BY <1>1, AppendIsConcat DEF Upipe
  <2>2. Weight(q.held \o <<f>>) = Weight(q.held) + Weight(<<f>>)
        /\ Weight(<<f>>) = IF Counted(f) THEN 1 ELSE 0
    BY <1>1, WeightOne, WeightJoined
  <2> HIDE DEF r
  <2>3. Load(r) = Load(q) + (IF Counted(f) THEN 1 ELSE 0)
    BY <1>3, <2>1, <2>2 DEF Load
  <2> QED
    BY <2>3 DEF r
<1>8. ASSUME NEW m \in 0 .. Len(q.avail)
      PROVE  /\ Load(Drained(q, m)) <= Load(q) /\ Load(Drained(q, m)) \in Nat
             /\ m # 0 /\ Counted(q.avail[m]) => Load(Drained(q, m)) + 1 <= Load(q)
  <2> DEFINE c == SubSeq(q.avail, 1, m)
             d == SubSeq(q.avail, m + 1, Len(q.avail))
  <2>1. Drained(q, m).avail = d /\ Drained(q, m).held = q.held
    BY DEF Drained, Upipe
  <2>2. /\ Weight(q.avail) = Weight(c) + Weight(d) /\ Weight(c) \in Nat /\ Weight(d) \in Nat
        /\ m # 0 /\ Counted(q.avail[m]) => Weight(c) >= 1
    BY <1>1, WeightSplit
  <2> HIDE DEF c, d
  <2>3. /\ Load(Drained(q, m)) = Weight(d) + Weight(q.held)
        /\ Load(q) = Weight(q.avail) + Weight(q.held)
    BY ONLY <2>1 DEF Load
  <2> HIDE DEF Load, a, b
  <2>4. Weight(q.avail) \in Nat /\ Weight(q.held) \in Nat
    BY <1>3
  <2>5. /\ Weight(d) + Weight(q.held) \in Nat
        /\ Weight(d) + Weight(q.held) <= Weight(q.avail) + Weight(q.held)
        /\ Weight(c) >= 1 =>
             Weight(d) + Weight(q.held) + 1 <= Weight(q.avail) + Weight(q.held)
    BY <2>2, <2>4, Shares
  <2> QED
    BY <2>2, <2>3, <2>5
<1> QED
  BY <1>4, <1>5, <1>6, <1>7, <1>8

LEMMA FramesIn ==
  ASSUME NEW s \in Seq(Frame), NEW n \in 0 .. Len(s), \A i \in DOMAIN s : s[i].kind # "identity"
  PROVE  LET a == SubSeq(s, 1, n)
             b == SubSeq(s, n + 1, Len(s))
         IN  /\ \A i \in DOMAIN a : a[i].kind # "identity"
             /\ \A i \in DOMAIN b : b[i].kind # "identity"
<1> DEFINE a == SubSeq(s, 1, n)
           b == SubSeq(s, n + 1, Len(s))
<1>1. Len(s) \in Nat /\ DOMAIN s = 1 .. Len(s) /\ \A i \in 1 .. Len(s) : s[i] \in Frame
  BY LenProperties
<1>2. \A i \in DOMAIN a : a[i].kind # "identity"
  <2>1. \A i \in 1 .. n : s[i] \in Frame
    BY <1>1
  <2>2. DOMAIN a = 1 .. n /\ \A i \in 1 .. n : a[i] = s[i]
    BY <1>1, <2>1, SubSeqProperties, LenProperties
  <2> QED
    BY <1>1, <2>2
<1>3. \A i \in DOMAIN b : b[i].kind # "identity"
  <2>1. \A i \in n + 1 .. Len(s) : s[i] \in Frame
    BY <1>1
  <2>2. DOMAIN b = 1 .. Len(s) - n /\ \A i \in 1 .. Len(s) - n : b[i] = s[n + i]
    BY <1>1, <2>1, SubSeqProperties, LenProperties
  <2>3. \A i \in 1 .. Len(s) - n : n + i \in 1 .. Len(s)
    BY <1>1
  <2> QED
    BY <1>1, <2>2, <2>3
<1> QED
  BY <1>2, <1>3

LEMMA PlainOperations ==
  ASSUME NEW q \in Upipe, Plain(q)
  PROVE  /\ Plain(RolledBack(q)) /\ Plain(Flushed(q)) /\ Plain(FoundEmpty(q))
         /\ \A f \in Frame : f.kind # "identity" => Plain([q EXCEPT !.held = Append(@, f)])
         /\ \A n \in 0 .. Len(q.avail) : Plain(Drained(q, n))
         /\ Messages(Flushed(q).avail) <= Load(q) /\ Messages(Flushed(q).avail) \in Nat
<1> DEFINE n == LastWhole(q.held)
           a == SubSeq(q.held, 1, n)
           b == SubSeq(q.held, n + 1, Len(q.held))
<1>1. q.held \in Seq(Frame) /\ q.avail \in Seq(Frame)
  BY DEF Upipe
<1>2. n \in 0 .. Len(q.held)
  BY <1>1, LastComplete
<1>3. /\ a \in Seq(Frame) /\ b \in Seq(Frame)
      /\ \A i \in DOMAIN a : a[i].kind # "identity"
      /\ \A i \in DOMAIN b : b[i].kind # "identity"
  BY <1>1, <1>2, WeightSplit, FramesIn DEF Plain
<1>4. Plain(RolledBack(q))
  BY <1>3 DEF RolledBack, Plain, Upipe
<1>5. Plain(Flushed(q))
  <2>1. CASE n = 0
    BY <2>1 DEF Flushed
  <2>2. CASE n # 0
    <3>1. Flushed(q).avail = q.avail \o a /\ Flushed(q).held = b
      BY <2>2 DEF Flushed, Upipe
    <3> HIDE DEF a, b
    <3>2. \A i \in DOMAIN (q.avail \o a) : (q.avail \o a)[i].kind # "identity"
      <4>1. /\ Len(q.avail) \in Nat /\ Len(a) \in Nat
            /\ DOMAIN (q.avail \o a) = 1 .. Len(q.avail) + Len(a)
            /\ DOMAIN q.avail = 1 .. Len(q.avail) /\ DOMAIN a = 1 .. Len(a)
            /\ \A i \in 1 .. Len(q.avail) + Len(a) : (q.avail \o a)[i] =
                 IF i <= Len(q.avail) THEN q.avail[i] ELSE a[i - Len(q.avail)]
        BY <1>1, <1>3, ConcatProperties, LenProperties
      <4> QED
        BY <1>3, <4>1 DEF Plain
    <3> QED
      BY <1>3, <3>1, <3>2 DEF Plain
  <2> QED
    BY <2>1, <2>2
<1>6. Plain(FoundEmpty(q))
  BY DEF FoundEmpty, Plain, Upipe
<1>7. ASSUME NEW f \in Frame, f.kind # "identity"
      PROVE  Plain([q EXCEPT !.held = Append(@, f)])
  <2> DEFINE r == [q EXCEPT !.held = Append(@, f)]
  <2>1. r.avail = q.avail /\ r.held = Append(q.held, f)
    BY DEF Upipe
  <2> QED
    BY <1>1, <1>7, <2>1, AppendProperties, LenProperties DEF Plain
<1>8. ASSUME NEW m \in 0 .. Len(q.avail) PROVE Plain(Drained(q, m))
  BY <1>1, FramesIn DEF Plain, Drained, Upipe
<1>9. Messages(Flushed(q).avail) <= Load(q) /\ Messages(Flushed(q).avail) \in Nat
  <2>1. Flushed(q) \in Upipe
    BY UpipeTypes
  <2>2. Flushed(q).avail \in Seq(Frame) /\ Flushed(q).held \in Seq(Frame)
    BY <2>1 DEF Upipe
  <2>3. Messages(Flushed(q).avail) = Weight(Flushed(q).avail)
    <3>1. {i \in DOMAIN Flushed(q).avail : Complete(Flushed(q).avail[i])}
            = {i \in DOMAIN Flushed(q).avail : Counted(Flushed(q).avail[i])}
      BY <1>5 DEF Plain, Complete, Counted
    <3> QED
      BY <3>1 DEF Messages, Weight
  <2>4. /\ Load(Flushed(q)) = Load(q) /\ Weight(Flushed(q).avail) \in Nat
        /\ Weight(Flushed(q).held) \in Nat
    BY <2>2, LoadOperations, WeightTyped
  <2> QED
    BY <2>3, <2>4 DEF Load
<1> QED
  BY <1>4, <1>5, <1>6, <1>7, <1>8, <1>9
-----------------------------------------------------------------------------
(* The counts of one direction, by its writer f: what the ypipes hold, and *)
(* what the reader has reported.                                           *)

Filled(f) ==
  /\ end[f].state = "active" =>
       end[peer(f)].msgs_read + Load(Out(f)) <= end[f].msgs_written
  /\ \A y \in Renewals(cmds[f]) : peer(f) \in MayHiccup /\ Empty(ypipe[y])
  /\ end[f].outpipe # NULL /\ peer(f) \in MayHiccup => Plain(Out(f))

Reports(queue, n) == \A i \in DOMAIN queue : queue[i][1] = "activate_write" => queue[i][2] <= n

Reported(f) == /\ end[f].peers_msgs_read <= end[peer(f)].msgs_read
               /\ Reports(cmds[f], end[peer(f)].msgs_read)

LEMMA CountsParts ==
  ASSUME HandshakeInv
  PROVE  Counts <=> \A f \in End : Filled(f) /\ Reported(f)
<1>1. ASSUME NEW f \in End, end[f].state = "active"
      PROVE  end[peer(f)].msgs_read + Load(Out(f))
               = end[peer(f)].msgs_read + Weight(Out(f).avail) + Weight(Out(f).held)
  <2>1. Typed /\ Handshake(f) /\ peer(f) \in End
    BY EndsMeet
  <2>2. end[f].outpipe \in Ypipe /\ end[peer(f)].msgs_read \in Nat
    BY <1>1, <2>1, PipeFacts DEF Handshake, Acked
  <2>3. Out(f) \in Upipe
    BY <2>1, <2>2, PipeFacts DEF Out
  <2>4. Weight(Out(f).avail) \in Nat /\ Weight(Out(f).held) \in Nat
    BY <2>3, WeightTyped DEF Upipe
  <2> QED
    BY <2>2, <2>4 DEF Load
<1> QED
  BY <1>1 DEF Counts, Filled, Reported, Reports, Empty, Plain

LEMMA ReportsTold ==
  ASSUME NEW q \in Seq(Command), NEW c \in Command, NEW n \in Nat, Reports(q, n),
         c[1] = "activate_write" => c[2] <= n
  PROVE  Reports(q \o <<c>>, n)
<1>1. \A i \in DOMAIN (q \o <<c>>) :
        (i \in DOMAIN q /\ (q \o <<c>>)[i] = q[i]) \/ (q \o <<c>>)[i] = c
  BY Told
<1> QED
  BY <1>1 DEF Reports

LEMMA ReportsTaken ==
  ASSUME NEW q \in Seq(Command), q # <<>>, NEW n, Reports(q, n)
  PROVE  Reports(Tail(q), n) /\ (Head(q)[1] = "activate_write" => Head(q)[2] <= n)
<1>1. /\ \A i \in DOMAIN Tail(q) : i + 1 \in DOMAIN q /\ Tail(q)[i] = q[i + 1]
      /\ 1 \in DOMAIN q /\ Head(q) = q[1]
  BY Taken
<1> QED
  BY <1>1 DEF Reports

LEMMA ReportsMore ==
  ASSUME NEW q \in Seq(Command), NEW m \in Nat, NEW n \in Nat, m <= n, Reports(q, m)
  PROVE  Reports(q, n)
<1>1. \A i \in DOMAIN q : q[i] \in Command
  OBVIOUS
<1>2. \A i \in DOMAIN q : q[i][1] = "activate_write" => q[i][2] \in Nat /\ q[i][2] <= m
  BY <1>1, CommandFacts DEF Reports
<1> QED
  BY <1>2 DEF Reports

(* What an end has read, and heard of what its peer has read. *)
LEMMA StepCounters ==
  ASSUME HandshakeInv, NEW e \in End, Step(e)
  PROVE  /\ end'[e].msgs_read \in Nat /\ end'[e].msgs_read >= end[e].msgs_read
         /\ end'[e].msgs_read # end[e].msgs_read => ReadMessage(e)
         /\ \/ end'[e].peers_msgs_read = end[e].peers_msgs_read
            \/ /\ Process(e) /\ Head(cmds[e])[1] = "activate_write"
               /\ end'[e].peers_msgs_read = Head(cmds[e])[2]
<1>0. /\ Typed /\ end[e] \in Pipe /\ end[e].msgs_read \in Nat
  BY EndsMeet, PipeFacts
<1> DEFINE Same == end'[e].msgs_read = end[e].msgs_read
                     /\ end'[e].peers_msgs_read = end[e].peers_msgs_read
<1>1. ASSUME NEW a \in Int, NEW b \in Int, end' = [end EXCEPT ![e] = set_hwms(e, @, a, b)]
      PROVE  Same
  BY <1>0, <1>1 DEF set_hwms, Typed, TypeOK, Pipe
<1>2. ASSUME NEW kind \in Kind[e] \cup {"data"}, NEW more \in BOOLEAN, Write(e, kind, more)
      PROVE  Same
  BY <1>0, <1>2 DEF Write, Typed, TypeOK, Pipe
<1>3. CASE WriteFails(e) \/ rollback(e) \/ flush(e) \/ ReadEmpty(e) \/ hiccup(e)
  <2>1. Same
    BY <1>0, <1>3 DEF WriteFails, rollback, flush, ReadEmpty, hiccup, Typed, TypeOK, Pipe
  <2> QED
    BY <1>0, <2>1
<1>4. CASE ReadMessage(e)
  <2> DEFINE frame == In(e).avail[NextItem(In(e).avail)]
             p == IF frame.more \/ frame.kind = "identity" THEN end[e]
                  ELSE [end[e] EXCEPT !.msgs_read = @ + 1]
  <2>1. end' = [end EXCEPT ![e] = p]
    BY <1>4 DEF ReadMessage
  <2>2. end'[e] = p
    BY <1>0, <2>1 DEF Typed, TypeOK
  <2>3. p.msgs_read \in {end[e].msgs_read, end[e].msgs_read + 1}
        /\ p.peers_msgs_read = end[e].peers_msgs_read
    BY <1>0 DEF Pipe
  <2> HIDE DEF p
  <2> QED
    BY <1>0, <1>4, <2>2, <2>3
<1>5. CASE ReadDelimiter(e)
  <2>1. Same
    BY <1>0, <1>5 DEF ReadDelimiter, Typed, TypeOK, Pipe
  <2> QED
    BY <1>0, <2>1
<1>6. ASSUME NEW in \in NewHwm, NEW out \in NewHwm, ChangeHwms(e, in, out)
      PROVE  Same
  BY <1>0, <1>1, <1>6, SettingFacts DEF ChangeHwms
<1>7. CASE terminate(e) \/ TerminateFinish(e)
  <2>1. CASE terminate(e)
    <3>1. Same
      BY <1>0, <2>1 DEF terminate, TerminateIgnored, TerminateRequest, TerminateWaiting,
                        Typed, TypeOK, Pipe
    <3> QED
      BY <1>0, <3>1
  <2>2. CASE TerminateFinish(e)
    <3>1. Same
      BY <1>0, <2>2 DEF TerminateFinish, Typed, TypeOK, Pipe
    <3> QED
      BY <1>0, <3>1
  <2> QED
    BY <1>7, <2>1, <2>2
<1>8. CASE Process(e)
  <2>1. CASE process_activate_write(e)
    BY <1>0, <1>8, <2>1 DEF process_activate_write, Receives, Typed, TypeOK, Pipe
  <2>2. CASE process_pipe_hwm(e)
    <3>1. Head(cmds[e])[2] \in Int /\ Head(cmds[e])[3] \in Int
      BY <1>0, <2>2, ReceivedTyped, ProcessTells, <1>8 DEF process_pipe_hwm
    <3>2. Same
      BY <1>1, <2>2, <3>1 DEF process_pipe_hwm
    <3> QED
      BY <1>0, <3>2
  <2>3. CASE process_activate_read(e) \/ process_hiccup(e) \/ process_pipe_term_ack(e)
    <3>1. Same
      BY <1>0, <2>3 DEF process_activate_read, process_hiccup, process_pipe_term_ack,
                        Typed, TypeOK, Pipe
    <3> QED
      BY <1>0, <3>1
  <2>4. CASE process_pipe_term(e)
    <3>1. Same
      BY <1>0, <2>4 DEF process_pipe_term, Typed, TypeOK, Pipe
    <3> QED
      BY <1>0, <3>1
  <2> QED
    BY <1>8, <2>1, <2>2, <2>3, <2>4 DEF Process
<1> HIDE DEF Same
<1>9. Same => /\ end'[e].msgs_read = end[e].msgs_read
              /\ end'[e].peers_msgs_read = end[e].peers_msgs_read
  BY DEF Same
<1> QED
  BY <1>0, <1>2, <1>3, <1>4, <1>5, <1>6, <1>7, <1>8, <1>9 DEF Step, Read

LEMMA StepKeepsReported ==
  ASSUME HandshakeInv, \A f \in End : Reported(f), NEW e \in End, Step(e)
  PROVE  \A f \in End : Reported(f)'
<1> DEFINE p == peer(e)
<1>0. /\ Typed /\ p \in End /\ p # e /\ peer(p) = e /\ cmds[e] \in Seq(Command)
      /\ cmds[p] \in Seq(Command) /\ end'[p] = end[p]
      /\ end[e].msgs_read \in Nat /\ end[p].peers_msgs_read \in Nat
  BY EndsMeet, StepShape, PipeFacts
<1>1. end'[e].msgs_read \in Nat /\ end'[e].msgs_read >= end[e].msgs_read
  BY StepCounters
<1>2. Reported(e)'
  <2>1. Reports(cmds'[e], end[p].msgs_read)
    BY <1>0, StepTells, ReportsTaken DEF Reported
  <2>2. end'[e].peers_msgs_read <= end[p].msgs_read
    BY <1>0, StepCounters, StepTells, ReportsTaken DEF Reported
  <2> QED
    BY <1>0, <2>1, <2>2 DEF Reported
<1>3. Reported(p)'
  <2>1. PICK c \in Command : \E s \in {<<>>, <<c>>} : Tells(e, c, s)
    BY StepTells
  <2>2. PICK s \in {<<>>, <<c>>} : Tells(e, c, s)
    BY <2>1
  <2>3. Reports(cmds[p], end'[e].msgs_read)
    BY <1>0, <1>1, ReportsMore DEF Reported
  <2>4. Reports(cmds'[p], end'[e].msgs_read)
    <3>1. CASE s = <<>>
      BY <1>0, <2>2, <2>3, <3>1, ConcatEmptySeq DEF Tells
    <3>2. CASE s # <<>>
      <4>1. /\ cmds'[p] = cmds[p] \o <<c>>
            /\ c[1] = "activate_write" => c[2] = end'[e].msgs_read
        BY <2>2, <3>2 DEF Tells
      <4>2. c[1] = "activate_write" => c[2] <= end'[e].msgs_read
        BY <1>1, <4>1
      <4> QED
        BY <1>0, <1>1, <2>3, <4>1, <4>2, ReportsTold
    <3> QED
      BY <3>1, <3>2
  <2>5. end[p].peers_msgs_read <= end'[e].msgs_read
    BY <1>0, <1>1 DEF Reported
  <2> QED
    BY <1>0, <2>4, <2>5 DEF Reported
<1> QED
  BY <1>2, <1>3, Peers

(* The direction of a writer that a step leaves alone. *)
LEMMA FilledUntouched ==
  ASSUME HandshakeInv, Ownership, NEW f \in End, Filled(f), setting' = setting,
         \A y \in Conduit(f) : ypipe'[y].avail = ypipe[y].avail /\ ypipe'[y].held = ypipe[y].held,
         end'[f].outpipe \in {end[f].outpipe, NULL},
         end'[f].state = "active" =>
           /\ end[f].state = "active" /\ end'[f].outpipe = end[f].outpipe
           /\ end'[f].msgs_written = end[f].msgs_written,
         end'[peer(f)].msgs_read = end[peer(f)].msgs_read,
         Renewals(cmds'[f]) = Renewals(cmds[f])
  PROVE  Filled(f)'
<1>0. Handshake(f) /\ MayHiccup' = MayHiccup
  BY EndsMeet DEF MayHiccup
<1>1. /\ end[f].outpipe # NULL => end[f].outpipe \in Conduit(f)
      /\ Renewals(cmds[f]) \subseteq Conduit(f)
  BY ConduitFacts
<1>2. end[f].outpipe # NULL /\ end'[f].outpipe = end[f].outpipe =>
        Load(Out(f)') = Load(Out(f)) /\ (Plain(Out(f)) => Plain(Out(f)'))
  BY <1>1 DEF Load, Plain, Out
<1>3. end'[f].state = "active" => end[peer(f)].msgs_read + Load(Out(f)') <= end'[f].msgs_written
  BY <1>0, <1>2 DEF Filled, Handshake, Acked
<1>4. \A y \in Renewals(cmds'[f]) : peer(f) \in MayHiccup /\ Empty(ypipe'[y])
  BY <1>1 DEF Filled, Empty
<1>5. end'[f].outpipe # NULL /\ peer(f) \in MayHiccup => Plain(Out(f)')
  BY <1>2 DEF Filled
<1>6. Load(Out(f))' = Load(Out(f)') /\ (Plain(Out(f))' <=> Plain(Out(f)'))
  BY DEF Load, Plain
<1>7. \A y \in Renewals(cmds[f])' : peer(f) \in MayHiccup' /\ Empty(ypipe[y])'
  BY <1>0, <1>4 DEF Empty
<1> QED
  BY <1>0, <1>3, <1>5, <1>6, <1>7 DEF Filled

(* The writer changes what is in its ypipe. *)
LEMMA FilledWritten ==
  ASSUME HandshakeInv, Ownership, NEW e \in End, Filled(e), setting' = setting,
         end[e].outpipe # NULL, NEW q \in Upipe, ypipe' = [ypipe EXCEPT ![end[e].outpipe] = q],
         end'[e].outpipe = end[e].outpipe, end'[peer(e)] = end[peer(e)],
         Renewals(cmds'[e]) = Renewals(cmds[e]),
         end'[e].state = "active" =>
           end[e].state = "active"
             /\ Load(q) - Load(Out(e)) <= end'[e].msgs_written - end[e].msgs_written,
         end'[e].msgs_written \in Int,
         Plain(Out(e)) /\ peer(e) \in MayHiccup => Plain(q)
  PROVE  Filled(e)'
<1>0. /\ Typed /\ MayHiccup' = MayHiccup /\ end[e].outpipe \in Ypipe /\ peer(e) \in End
      /\ end[e].msgs_written \in Int /\ end[peer(e)].msgs_read \in Nat /\ Out(e) \in Upipe
  BY EndsMeet, PipeFacts DEF MayHiccup, Out
<1>1. Out(e)' = q /\ \A y \in Ypipe : y # end[e].outpipe => ypipe'[y] = ypipe[y]
  BY ZenonT(40), <1>0, UpipeUpdated DEF Out
<1>2. \A y \in Renewals(cmds[e]) : y \in Ypipe /\ y # end[e].outpipe
  <2>1. Succession(e) /\ Conduit(e) \subseteq Ypipe /\ Renewals(cmds[e]) \subseteq Conduit(e)
    BY ConduitFacts DEF Ownership
  <2>2. Ypipe \subseteq Int
    BY <1>0, SettingFacts
  <2>3. \A y \in Renewals(cmds[e]) : y \in Int /\ end[e].outpipe < y /\ y \in Ypipe
    BY <2>1, <2>2 DEF Succession
  <2>4. end[e].outpipe \in Int
    BY <1>0, <2>2
  <2> QED
    BY <2>3, <2>4
<1>3. \A y \in Renewals(cmds'[e]) : peer(e) \in MayHiccup /\ Empty(ypipe'[y])
  BY <1>1, <1>2 DEF Filled
<1>4. Load(q) \in Nat /\ Load(Out(e)) \in Nat
  BY <1>0, LoadOperations
<1>5. end'[e].state = "active" => end[peer(e)].msgs_read + Load(q) <= end'[e].msgs_written
  BY <1>0, <1>4 DEF Filled
<1>6. peer(e) \in MayHiccup => Plain(q)
  BY DEF Filled
<1>7. Load(Out(e))' = Load(Out(e)') /\ (Plain(Out(e))' <=> Plain(Out(e)'))
  BY DEF Load, Plain
<1>8. \A y \in Renewals(cmds[e])' : peer(e) \in MayHiccup' /\ Empty(ypipe[y])'
  BY <1>0, <1>3 DEF Empty
<1> QED
  BY <1>0, <1>1, <1>5, <1>6, <1>7, <1>8 DEF Filled

(* The reader takes from its ypipe, which its writer need not have yet.    *)
LEMMA FilledRead ==
  ASSUME HandshakeInv, Ownership, NEW e \in End, NEW p \in End, p = peer(e), Filled(p),
         setting' = setting,
         end[e].inpipe # NULL, NEW q \in Upipe, ypipe' = [ypipe EXCEPT ![end[e].inpipe] = q],
         end'[p] = end[p], Renewals(cmds'[p]) = Renewals(cmds[p]),
         end'[e].msgs_read \in Nat,
         end'[e].msgs_read + Load(q) <= end[e].msgs_read + Load(In(e)),
         Plain(In(e)) => Plain(q), Empty(In(e)) => Empty(q)
  PROVE  Filled(p)'
<1>0. /\ Typed /\ MayHiccup' = MayHiccup /\ end[e].inpipe \in Ypipe /\ peer(p) = e /\ p # e
      /\ end[e].msgs_read \in Nat /\ end[p].msgs_written \in Int /\ In(e) \in Upipe
      /\ Handshake(p) /\ end[p].outpipe \in Ypipe \cup {NULL}
  BY EndsMeet, PipeFacts DEF MayHiccup, In
<1>1. ypipe'[end[e].inpipe] = q /\ \A y \in Ypipe : y # end[e].inpipe => ypipe'[y] = ypipe[y]
  BY <1>0, UpipeUpdated
<1>2. \A y \in Renewals(cmds'[p]) : e \in MayHiccup /\ Empty(ypipe'[y])
  <2>1. Renewals(cmds[p]) \subseteq Ypipe
    BY ConduitFacts
  <2> QED
    BY <1>0, <1>1, <2>1 DEF Filled, In
<1>3. Load(q) \in Nat /\ Load(In(e)) \in Nat
  BY <1>0, LoadOperations
<1>4. CASE end[p].outpipe = NULL
  <2>1. end[p].state # "active"
    BY <1>0, <1>4 DEF Handshake, Acked
  <2>2. \A y \in Renewals(cmds[p])' : e \in MayHiccup' /\ Empty(ypipe[y])'
    BY <1>0, <1>2 DEF Empty
  <2> QED
    BY <1>0, <1>4, <2>1, <2>2 DEF Filled
<1>5. CASE end[p].outpipe # NULL
  <2>1. end[e].inpipe \in {end[p].outpipe} \cup Renewals(cmds[p])
    BY <1>0, <1>5 DEF Ownership, Succession
  <2>2. /\ end[p].state = "active" => end'[e].msgs_read + Load(Out(p)') <= end[p].msgs_written
        /\ e \in MayHiccup => Plain(Out(p)')
    <3>1. CASE end[e].inpipe = end[p].outpipe
      <4>1. In(e) = Out(p) /\ Out(p)' = q
        BY <1>1, <3>1 DEF In, Out
      <4> QED
        BY <1>0, <1>3, <1>5, <4>1 DEF Filled
    <3>2. CASE end[e].inpipe # end[p].outpipe
      <4>1. Out(p)' = Out(p) /\ Empty(In(e))
        BY <1>0, <1>1, <1>5, <2>1, <3>2 DEF Filled, In, Out
      <4>2. Load(In(e)) = 0
        BY <4>1, EmptyFacts
      <4>3. Out(p) \in Upipe
        BY <1>0, <1>5, PipeFacts DEF Out
      <4>4. Load(Out(p)) \in Nat /\ end'[e].msgs_read <= end[e].msgs_read
        BY SMTT(30), <1>0, <1>3, <4>2, <4>3, LoadOperations
      <4> QED
        BY <1>0, <1>5, <4>1, <4>4 DEF Filled
    <3> QED
      BY <3>1, <3>2
  <2>3. Load(Out(p))' = Load(Out(p)') /\ (Plain(Out(p))' <=> Plain(Out(p)'))
    BY DEF Load, Plain
  <2>4. \A y \in Renewals(cmds[p])' : e \in MayHiccup' /\ Empty(ypipe[y])'
    BY <1>0, <1>2 DEF Empty
  <2> QED
    BY <1>0, <2>2, <2>3, <2>4 DEF Filled
<1> QED
  BY <1>4, <1>5

(* A step that makes and passes on no ypipe: what it leaves as it is. *)
LEMMA StepRenewals ==
  ASSUME HandshakeInv, Ownership, NEW e \in End, Step(e),
         ~hiccup(e), ~process_hiccup(e), ~process_pipe_term_ack(e)
  PROVE  /\ Renewals(cmds'[e]) = Renewals(cmds[e])
         /\ Renewals(cmds'[peer(e)]) = Renewals(cmds[peer(e)])
         /\ setting' = setting /\ end'[peer(e)] = end[peer(e)]
         /\ end'[e].inpipe = end[e].inpipe /\ end'[e].outpipe \in {end[e].outpipe, NULL}
<1>1. KeepsYpipes(e) /\ (Process(e) => Head(cmds[e])[1] # "hiccup")
  BY UserKeepsYpipes, ProcessKeepsYpipes
<1>2. \A f \in End : Ascending(cmds[f])
  BY DEF Ownership, Succession
<1> QED
  BY <1>1, <1>2, RenewalsKept, StepShape DEF KeepsYpipes

LEMMA QuietFills ==
  ASSUME HandshakeInv, Ownership, \A f \in End : Filled(f), NEW e \in End, Step(e),
         ~hiccup(e), ~process_hiccup(e), ~process_pipe_term_ack(e), UNCHANGED ypipe,
         end'[e].state = "active" =>
           /\ end[e].state = "active" /\ end'[e].outpipe = end[e].outpipe
           /\ end'[e].msgs_written = end[e].msgs_written,
         ~ReadMessage(e)
  PROVE  \A f \in End : Filled(f)'
<1> DEFINE p == peer(e)
<1>0. p \in End /\ peer(p) = e
  BY EndsMeet
<1>1. Filled(e)'
  BY <1>0, StepRenewals, FilledUntouched
<1>2. end'[e].msgs_read = end[e].msgs_read
  BY StepCounters
<1>3. Filled(p)'
  BY <1>0, <1>2, StepRenewals, FilledUntouched
<1> QED
  BY <1>1, <1>3, Peers

LEMMA WriterFills ==
  ASSUME HandshakeInv, Ownership, \A f \in End : Filled(f), NEW e \in End, Step(e),
         ~hiccup(e), ~Process(e), ~ReadMessage(e),
         end[e].outpipe # NULL, NEW q \in Upipe, ypipe' = [ypipe EXCEPT ![end[e].outpipe] = q],
         end'[e].outpipe = end[e].outpipe,
         end'[e].state = "active" =>
           end[e].state = "active"
             /\ Load(q) - Load(Out(e)) <= end'[e].msgs_written - end[e].msgs_written,
         end'[e].msgs_written \in Int,
         Plain(Out(e)) /\ peer(e) \in MayHiccup => Plain(q)
  PROVE  \A f \in End : Filled(f)'
<1> DEFINE p == peer(e)
<1>0. Typed /\ p \in End /\ peer(p) = e /\ end[e].outpipe \in Ypipe
  BY EndsMeet, PipeFacts
<1>1. ~process_hiccup(e) /\ ~process_pipe_term_ack(e)
  BY DEF Process
<1>2. Filled(e)'
  BY <1>0, <1>1, StepRenewals, FilledWritten
<1>3. end'[e].msgs_read = end[e].msgs_read
  BY StepCounters
<1>4. \A y \in Conduit(p) : ypipe'[y] = ypipe[y]
  <2>1. end[e].outpipe \in Conduit(e) /\ Conduit(e) \cap Conduit(p) = {} /\ Conduit(p) \subseteq Ypipe
    BY <1>0, ConduitFacts
  <2> QED
    BY <1>0, <2>1, UpipeUpdated
<1>5. Filled(p)'
  BY <1>0, <1>1, <1>3, <1>4, StepRenewals, FilledUntouched
<1> QED
  BY <1>2, <1>5, Peers

LEMMA ReaderFills ==
  ASSUME HandshakeInv, Ownership, \A f \in End : Filled(f), NEW e \in End, Step(e),
         ~hiccup(e), ~Process(e),
         end[e].inpipe # NULL, NEW q \in Upipe, ypipe' = [ypipe EXCEPT ![end[e].inpipe] = q],
         end'[e].state = "active" =>
           /\ end[e].state = "active" /\ end'[e].outpipe = end[e].outpipe
           /\ end'[e].msgs_written = end[e].msgs_written,
         end'[e].msgs_read + Load(q) <= end[e].msgs_read + Load(In(e)),
         Plain(In(e)) => Plain(q), Empty(In(e)) => Empty(q)
  PROVE  \A f \in End : Filled(f)'
<1> DEFINE p == peer(e)
<1>0. Typed /\ p \in End /\ peer(p) = e /\ end[e].inpipe \in Ypipe
  BY EndsMeet, PipeFacts
<1>1. ~process_hiccup(e) /\ ~process_pipe_term_ack(e) /\ end'[e].msgs_read \in Nat
  BY StepCounters DEF Process
<1>2. Filled(p)'
  BY <1>0, <1>1, StepRenewals, FilledRead
<1>3. \A y \in Conduit(e) : ypipe'[y] = ypipe[y]
  <2>1. end[e].inpipe \in Conduit(p) /\ Conduit(e) \cap Conduit(p) = {} /\ Conduit(e) \subseteq Ypipe
    BY <1>0, ConduitFacts
  <2> QED
    BY <1>0, <2>1, UpipeUpdated
<1>4. Filled(e)'
  BY <1>0, <1>1, <1>3, StepRenewals, FilledUntouched
<1> QED
  BY <1>2, <1>4, Peers

LEMMA UserFills ==
  ASSUME HandshakeInv, Ownership, \A f \in End : Filled(f), NEW e \in End, Step(e), ~Process(e),
         ~hiccup(e)
  PROVE  \A f \in End : Filled(f)'
<1>0. /\ Typed /\ Handshake(e) /\ peer(e) # e /\ peer(e) \in End /\ end[e] \in Pipe
      /\ end[e].outpipe # NULL => end[e].outpipe \in Ypipe /\ Out(e) \in Upipe
      /\ end[e].inpipe # NULL => end[e].inpipe \in Ypipe /\ In(e) \in Upipe
      /\ end[e].msgs_written \in Int /\ end[e].msgs_read \in Nat
      /\ ~process_hiccup(e) /\ ~process_pipe_term_ack(e)
      /\ \A f \in MayHiccup : "identity" \notin Kind[peer(f)]
      /\ peer(peer(e)) = e
  BY EndsMeet, PipeFacts, SettingFacts DEF Out, In, Process
<1>1. ASSUME NEW kind \in Kind[e] \cup {"data"}, NEW more \in BOOLEAN, Write(e, kind, more),
             ~ReadMessage(e)
      PROVE  \A f \in End : Filled(f)'
  <2> DEFINE frame == [msg |-> user[e].written + 1, part |-> user[e].parts + 1,
                       more |-> more, kind |-> kind]
             q == [Out(e) EXCEPT !.held = Append(@, frame)]
  <2>1. end[e].outpipe # NULL
    BY <1>0, <1>1 DEF Write, CanWrite, Handshake, Acked
  <2>2. frame \in Frame
    <3>1. user[e] \in User /\ kind \in {"data", "identity", "credential"}
      BY <1>0, PipeFacts, SettingFacts
    <3> QED
      BY <3>1 DEF Frame, User
  <2>3. ypipe' = [ypipe EXCEPT ![end[e].outpipe] = q] /\ end[e].state = "active"
    BY <1>0, <1>1, <2>1 DEF Write, CanWrite, Out
  <2>4. /\ end'[e].outpipe = end[e].outpipe
        /\ end'[e].msgs_written = end[e].msgs_written + (IF Counted(frame) THEN 1 ELSE 0)
    <3>1. CASE more \/ kind = "identity"
      <4>1. end' = end /\ ~Counted(frame)
        BY <1>1, <3>1 DEF Write, Counted
      <4>2. end[e].msgs_written \in Int
        BY <1>0, PipeFacts
      <4> QED
        BY <4>1, <4>2
    <3>2. CASE ~(more \/ kind = "identity")
      <4>1. end' = [end EXCEPT ![e].msgs_written = @ + 1] /\ Counted(frame)
        BY <1>1, <3>2 DEF Write, Counted
      <4> QED
        BY <1>0, <4>1 DEF Typed, TypeOK, Pipe
    <3> QED
      BY <3>1, <3>2
  <2>5. peer(e) \in MayHiccup => frame.kind # "identity"
    BY <1>0
  <2> HIDE DEF frame
  <2>6. /\ q \in Upipe /\ Load(q) = Load(Out(e)) + (IF Counted(frame) THEN 1 ELSE 0)
        /\ Load(Out(e)) \in Nat
        /\ (Plain(Out(e)) /\ peer(e) \in MayHiccup) => Plain(q)
    BY <1>0, <2>1, <2>2, <2>5, UpipeTypes, LoadOperations, PlainOperations
  <2> HIDE DEF q
  <2>7. /\ Load(q) - Load(Out(e)) <= end'[e].msgs_written - end[e].msgs_written
        /\ end'[e].msgs_written \in Int
    BY <1>0, <2>4, <2>6
  <2> QED
    BY <1>0, <1>1, <2>1, <2>3, <2>4, <2>6, <2>7, WriterFills
<1>2. CASE WriteFails(e) /\ ~ReadMessage(e)
  <2>1. /\ end'[e].state = end[e].state /\ end'[e].outpipe = end[e].outpipe
        /\ end'[e].msgs_written = end[e].msgs_written /\ UNCHANGED ypipe
    BY <1>0, <1>2 DEF WriteFails, Typed, TypeOK, Pipe
  <2> QED
    BY <1>0, <1>2, <2>1, QuietFills
<1>3. CASE rollback(e) /\ ~ReadMessage(e)
  <2>1. end' = end
    BY <1>3 DEF rollback
  <2>2. CASE end[e].outpipe = NULL
    BY <1>0, <1>3, <2>1, <2>2, QuietFills DEF rollback
  <2>3. CASE end[e].outpipe # NULL
    <3>1. ypipe' = [ypipe EXCEPT ![end[e].outpipe] = RolledBack(Out(e))]
      BY <1>3, <2>3 DEF rollback, Out
    <3>2. /\ RolledBack(Out(e)) \in Upipe /\ Load(RolledBack(Out(e))) <= Load(Out(e))
          /\ Load(Out(e)) \in Nat /\ Load(RolledBack(Out(e))) \in Nat
          /\ Plain(Out(e)) => Plain(RolledBack(Out(e)))
      BY <1>0, <2>3, UpipeTypes, LoadOperations, PlainOperations
    <3>3. Load(RolledBack(Out(e))) - Load(Out(e)) <= end'[e].msgs_written - end[e].msgs_written
      BY <1>0, <2>1, <3>2
    <3>4. end'[e] = end[e]
      BY <2>1
    <3> QED
      BY <1>0, <1>3, <2>3, <3>1, <3>2, <3>3, <3>4, WriterFills
  <2> QED
    BY <2>2, <2>3
<1>4. CASE flush(e) /\ ~ReadMessage(e)
  <2>1. /\ end' = end /\ end[e].outpipe # NULL
        /\ ypipe' = [ypipe EXCEPT ![end[e].outpipe] = Flushed(Out(e))]
    BY <1>4 DEF flush, Out
  <2>2. /\ Flushed(Out(e)) \in Upipe /\ Load(Flushed(Out(e))) = Load(Out(e))
        /\ Load(Out(e)) \in Nat
        /\ Plain(Out(e)) => Plain(Flushed(Out(e)))
    BY <1>0, <2>1, UpipeTypes, LoadOperations, PlainOperations
  <2>3. Load(Flushed(Out(e))) - Load(Out(e)) <= end'[e].msgs_written - end[e].msgs_written
    BY <1>0, <2>1, <2>2
  <2>4. end'[e] = end[e]
    BY <2>1
  <2> QED
    BY <1>0, <1>4, <2>1, <2>2, <2>3, <2>4, WriterFills
<1>5. CASE ReadMessage(e)
  <2> DEFINE n == NextItem(In(e).avail)
             frame == In(e).avail[n]
             r == IF frame.more \/ frame.kind = "identity" THEN end[e]
                  ELSE [end[e] EXCEPT !.msgs_read = @ + 1]
             q == Drained(In(e), n)
  <2>1. /\ ypipe' = [ypipe EXCEPT ![end[e].inpipe] = q] /\ n # 0
        /\ end' = [end EXCEPT ![e] = r] /\ Readable(e)
    BY <1>5 DEF ReadMessage, In
  <2>2. end[e].inpipe # NULL
    BY <2>1, RunsFacts DEF Readable, Runs
  <2>3. /\ In(e).avail \in Seq(Frame) /\ n \in 0 .. Len(In(e).avail)
    <3>1. In(e).avail \in Seq(Frame)
      BY <1>0, <2>2 DEF Upipe
    <3> QED
      BY <3>1, FirstItem
  <2>4. /\ r.state = end[e].state /\ r.outpipe = end[e].outpipe
        /\ r.msgs_written = end[e].msgs_written
        /\ r.msgs_read = end[e].msgs_read + (IF Counted(frame) THEN 1 ELSE 0)
    BY <1>0 DEF Counted, Pipe
  <2>5. end'[e] = r
    BY <1>0, <2>1 DEF Typed, TypeOK
  <2> HIDE DEF r
  <2>6. /\ q \in Upipe /\ Load(q) + (IF Counted(frame) THEN 1 ELSE 0) <= Load(In(e))
        /\ Load(q) \in Nat /\ Load(In(e)) \in Nat
        /\ Plain(In(e)) => Plain(q)
    <3>1. In(e) \in Upipe /\ n \in 0 .. Len(In(e).avail)
      BY <1>0, <2>2, <2>3
    <3>2. q \in Upipe /\ (Plain(In(e)) => Plain(q))
      BY <3>1, UpipeTypes, PlainOperations
    <3>3. /\ Load(q) <= Load(In(e)) /\ Load(q) \in Nat /\ Load(In(e)) \in Nat
          /\ Counted(frame) => Load(q) + 1 <= Load(In(e))
      BY <2>1, <3>1, LoadOperations
    <3> QED
      BY <3>2, <3>3
  <2>7. ~Empty(In(e))
    BY <2>1, <2>3 DEF Empty
  <2> HIDE DEF q, frame
  <2>8. end'[e].msgs_read + Load(q) <= end[e].msgs_read + Load(In(e))
    BY <1>0, <2>4, <2>5, <2>6
  <2> QED
    BY <1>0, <2>1, <2>2, <2>4, <2>5, <2>6, <2>7, <2>8, ReaderFills
<1>6. CASE ReadDelimiter(e) /\ ~ReadMessage(e)
  <2> DEFINE n == NextItem(In(e).avail)
             q == Drained(In(e), n)
  <2>1. /\ ypipe' = [ypipe EXCEPT ![end[e].inpipe] = q] /\ n # 0 /\ Readable(e)
    BY <1>6 DEF ReadDelimiter, In
  <2>2. end[e].inpipe # NULL
    BY <2>1, RunsFacts DEF Readable, Runs
  <2>3. /\ In(e).avail \in Seq(Frame) /\ n \in 0 .. Len(In(e).avail)
    <3>1. In(e).avail \in Seq(Frame)
      BY <1>0, <2>2 DEF Upipe
    <3> QED
      BY <3>1, FirstItem
  <2>4. end'[e].state # "active" /\ end'[e].msgs_read = end[e].msgs_read
    BY <1>0, <1>6 DEF ReadDelimiter, Typed, TypeOK, Pipe
  <2>5. /\ q \in Upipe /\ Load(q) <= Load(In(e)) /\ Load(q) \in Nat /\ Load(In(e)) \in Nat
        /\ Plain(In(e)) => Plain(q)
    BY <1>0, <2>1, <2>2, <2>3, UpipeTypes, LoadOperations, PlainOperations
  <2>6. ~Empty(In(e))
    BY <2>1, <2>3 DEF Empty
  <2> HIDE DEF q
  <2>7. end'[e].msgs_read + Load(q) <= end[e].msgs_read + Load(In(e))
    BY <1>0, <2>4, <2>5
  <2> QED
    BY <1>0, <2>1, <2>2, <2>4, <2>5, <2>6, <2>7, ReaderFills
<1>7. CASE ReadEmpty(e) /\ ~ReadMessage(e)
  <2> DEFINE q == FoundEmpty(In(e))
  <2>1. ypipe' = [ypipe EXCEPT ![end[e].inpipe] = q] /\ Readable(e)
    BY <1>7 DEF ReadEmpty, In
  <2>2. end[e].inpipe # NULL
    BY <2>1, RunsFacts DEF Readable, Runs
  <2>3. /\ end'[e].state = end[e].state /\ end'[e].outpipe = end[e].outpipe
        /\ end'[e].msgs_written = end[e].msgs_written /\ end'[e].msgs_read = end[e].msgs_read
    BY <1>0, <1>7 DEF ReadEmpty, Typed, TypeOK, Pipe
  <2>4. /\ q \in Upipe /\ Load(q) <= Load(In(e)) /\ Load(q) \in Nat /\ Load(In(e)) \in Nat
        /\ Plain(In(e)) => Plain(q)
    BY <1>0, <2>2, UpipeTypes, LoadOperations, PlainOperations
  <2>5. Empty(In(e)) => Empty(q)
    BY <1>0, <2>2 DEF Empty, FoundEmpty, Upipe
  <2> HIDE DEF q
  <2>6. end'[e].msgs_read + Load(q) <= end[e].msgs_read + Load(In(e))
    BY <1>0, <2>3, <2>4
  <2> QED
    BY <1>0, <2>1, <2>2, <2>3, <2>4, <2>5, <2>6, ReaderFills
<1>8. ASSUME NEW in \in NewHwm, NEW out \in NewHwm, ChangeHwms(e, in, out), ~ReadMessage(e)
      PROVE  \A f \in End : Filled(f)'
  <2>1. /\ end'[e].state = end[e].state /\ end'[e].outpipe = end[e].outpipe
        /\ end'[e].msgs_written = end[e].msgs_written /\ UNCHANGED ypipe
    BY <1>0, <1>8 DEF ChangeHwms, set_hwms, Typed, TypeOK, Pipe
  <2> QED
    BY <1>0, <1>8, <2>1, QuietFills
<1>9. CASE terminate(e) /\ ~ReadMessage(e)
  <2>1. UNCHANGED ypipe
    BY <1>9 DEF terminate, TerminateIgnored, TerminateRequest, TerminateWaiting
  <2>2. end'[e].state # "active"
    BY <1>0, <1>9 DEF terminate, TerminateIgnored, TerminateRequest, TerminateWaiting,
                      Typed, TypeOK, Pipe
  <2> QED
    BY <1>0, <1>9, <2>1, <2>2, QuietFills
<1>10. CASE TerminateFinish(e) /\ ~ReadMessage(e)
  <2> DEFINE r == [RolledBack(Out(e)) EXCEPT !.held = Append(@, Delimiter(e))]
             q == Flushed(r)
  <2>1. ypipe' = [ypipe EXCEPT ![end[e].outpipe] = q] /\ finishing[e]
    BY <1>10 DEF TerminateFinish
  <2>2. end[e].outpipe # NULL /\ end[e].state # "active"
    BY <1>0, <2>1 DEF Handshake, Acked
  <2>3. q \in Upipe /\ (Plain(Out(e)) => Plain(q))
    <3>1. Delimiter(e) \in Frame /\ Delimiter(e).kind # "identity"
      BY <1>0, PipeFacts DEF Delimiter, Frame, User
    <3>2. RolledBack(Out(e)) \in Upipe /\ (Plain(Out(e)) => Plain(RolledBack(Out(e))))
      BY <1>0, <2>2, UpipeTypes, PlainOperations
    <3>3. r \in Upipe /\ (Plain(Out(e)) => Plain(r))
      BY <3>1, <3>2, UpipeTypes, PlainOperations
    <3> HIDE DEF r
    <3> QED
      BY <3>3, UpipeTypes, PlainOperations
  <2>4. /\ end'[e].state = end[e].state /\ end'[e].outpipe = end[e].outpipe
        /\ end'[e].msgs_written \in Int
    BY <1>0, <1>10 DEF TerminateFinish, Typed, TypeOK, Pipe
  <2> HIDE DEF q
  <2> QED
    BY <1>0, <1>10, <2>1, <2>2, <2>3, <2>4, WriterFills
<1> QED
  BY <1>1, <1>2, <1>3, <1>4, <1>5, <1>6, <1>7, <1>8, <1>9, <1>10 DEF Step, Read

(* The new ypipe is empty, and so is the count of what is in it. *)
LEMMA HiccupFills ==
  ASSUME HandshakeInv, Ownership, \A f \in End : Filled(f), NEW e \in End, Step(e), hiccup(e)
  PROVE  \A f \in End : Filled(f)'
<1> DEFINE p == peer(e)
           new == 3 + used.hiccups
           c == <<"hiccup", new>>
<1>0. /\ Typed /\ p \in End /\ p # e /\ peer(p) = e /\ end'[p] = end[p]
      /\ cmds[e] \in Seq(Command) /\ cmds[p] \in Seq(Command)
      /\ \A f \in End : Ascending(cmds[f])
  BY EndsMeet, StepShape DEF Ownership, Succession
<1>1. /\ ypipe' = [ypipe EXCEPT ![new] = NewYpipe] /\ Send(p, <<c>>) /\ e \in MayHiccup
      /\ used.hiccups < MaxHiccup /\ used' = [used EXCEPT !.hiccups = @ + 1]
  BY DEF hiccup
<1>2. /\ used.hiccups \in Nat /\ used'.hiccups = used.hiccups + 1 /\ setting' = setting
      /\ new \in Ypipe /\ new \in Int /\ Ypipe \subseteq Int
  <2>1. /\ MaxHiccup \in Nat /\ used.hiccups \in 0 .. MaxHiccup /\ Ypipe = 1 .. 2 + MaxHiccup
    BY <1>0, SettingFacts
  <2>2. used'.hiccups = used.hiccups + 1 /\ setting' = setting
    BY <1>0, <1>1 DEF Typed, TypeOK, setting
  <2> QED
    BY <1>1, <2>1, <2>2
<1>3. c \in Command /\ c[1] = "hiccup" /\ c[2] = new
  BY <1>2, CommandsSent
<1>4. /\ ypipe'[new] = NewYpipe /\ \A y \in Ypipe : y # new => ypipe'[y] = ypipe[y]
      /\ end'[e].state = end[e].state /\ end'[e].outpipe = end[e].outpipe
      /\ end'[e].msgs_written = end[e].msgs_written /\ end'[e].msgs_read = end[e].msgs_read
  BY <1>0, <1>1, <1>2 DEF hiccup, Typed, TypeOK, Pipe, NewYpipe
<1>5. Empty(NewYpipe) /\ MayHiccup' = MayHiccup
  BY <1>2 DEF Empty, NewYpipe, MayHiccup
<1> HIDE DEF new, c
<1>6. cmds'[p] = cmds[p] \o <<c>> /\ cmds'[e] = cmds[e]
  BY <1>0, <1>1, <1>2, <1>3, SendTyped
<1>7. Renewals(cmds'[p]) = Renewals(cmds[p]) \cup {new}
  BY <1>0, <1>3, <1>6, RenewalsTold
<1>8. \A f \in End : /\ Conduit(f) \subseteq Ypipe /\ Renewals(cmds[f]) \subseteq Conduit(f)
                     /\ end[f].outpipe # NULL => end[f].outpipe \in Conduit(f)
                     /\ \A y \in Conduit(f) : y <= 2 + used.hiccups
  BY ConduitFacts
<1>9. \A f \in End : \A y \in Conduit(f) : ypipe'[y] = ypipe[y]
  <2>1. \A f \in End : \A y \in Conduit(f) : y \in Int /\ y \in Ypipe /\ y <= 2 + used.hiccups
    BY <1>2, <1>8
  <2>2. \A f \in End : \A y \in Conduit(f) : y # new
    BY <1>2, <2>1 DEF new
  <2> QED
    BY <1>4, <2>1, <2>2
<1>10. Filled(e)'
  BY <1>0, <1>2, <1>4, <1>6, <1>9, FilledUntouched
<1>11. Filled(p)'
  <2>1. end[p].outpipe # NULL => Out(p)' = Out(p)
    BY <1>0, <1>8, <1>9 DEF Out
  <2>2. end[p].state = "active" => end[p].outpipe # NULL
    BY <1>0 DEF HandshakeInv, Handshake, Acked
  <2>3. end[p].state = "active" => end'[e].msgs_read + Load(Out(p)') <= end'[p].msgs_written
    BY <1>0, <1>4, <2>1, <2>2 DEF Filled
  <2>4. \A y \in Renewals(cmds'[p]) : e \in MayHiccup /\ Empty(ypipe'[y])
    <3>1. ASSUME NEW y \in Renewals(cmds[p]) PROVE Empty(ypipe'[y])
      BY <1>0, <1>8, <1>9, <3>1 DEF Filled
    <3> QED
      BY <1>1, <1>4, <1>5, <1>7, <3>1
  <2>5. end[p].outpipe # NULL => Plain(Out(p)')
    BY <1>0, <1>1, <2>1 DEF Filled
  <2>6. Load(Out(p))' = Load(Out(p)') /\ (Plain(Out(p))' <=> Plain(Out(p)'))
    BY DEF Load, Plain
  <2>7. \A y \in Renewals(cmds[p])' : e \in MayHiccup' /\ Empty(ypipe[y])'
    BY <1>5, <2>4 DEF Empty
  <2> QED
    BY <1>0, <2>3, <2>5, <2>6, <2>7 DEF Filled
<1> QED
  BY <1>10, <1>11, Peers

(* What the old ypipe still held is taken off the count, and the new one   *)
(* is empty.                                                               *)
LEMMA HiccupTakenFills ==
  ASSUME HandshakeInv, Ownership, \A f \in End : Filled(f), NEW e \in End, Step(e),
         process_hiccup(e)
  PROVE  \A f \in End : Filled(f)'
<1> DEFINE p == peer(e)
           old == end[e].outpipe
           new == Head(cmds[e])[2]
           drained == Messages(Flushed(Out(e)).avail)
<1>0. /\ Typed /\ Handshake(e) /\ p \in End /\ p # e /\ peer(p) = e /\ end'[p] = end[p]
      /\ cmds[e] \in Seq(Command) /\ Ascending(cmds[e])
      /\ end[e].msgs_written \in Int /\ end[p].msgs_read \in Nat
  BY EndsMeet, StepShape, PipeFacts DEF Ownership, Succession
<1>1. /\ Process(e) /\ Head(cmds[e])[1] = "hiccup" /\ cmds[e] # <<>>
      /\ ypipe' = [ypipe EXCEPT ![old].status = "freed"]
  BY DEF process_hiccup, Process, Receives
<1>2. setting' = setting /\ cmds'[e] = Tail(cmds[e]) /\ MayHiccup' = MayHiccup
      /\ used'.hiccups = used.hiccups
  BY <1>1, ProcessTells DEF MayHiccup
<1>3. /\ Renewals(cmds'[p]) = Renewals(cmds[p])
      /\ Renewals(cmds[e]) = Renewals(cmds'[e]) \cup {new}
      /\ \A y \in Renewals(cmds'[e]) : new < y
  <2>1. \A f \in End : Ascending(cmds[f])
    BY DEF Ownership, Succession
  <2> QED
    BY <1>0, <1>1, <1>2, <2>1, RenewalsKept, RenewalsTaken
<1>4. old # NULL /\ old \in Ypipe /\ Out(e) \in Upipe
  <2>1. Has(cmds[e], "hiccup")
    BY <1>0, <1>1, HasTaken
  <2>2. old # NULL
    BY <1>0, <2>1 DEF Handshake, Open, Acked
  <2> QED
    BY <1>0, <2>2, PipeFacts DEF Out
<1>5. /\ end'[e].outpipe = new /\ end'[e].state = end[e].state
      /\ end'[e].msgs_written = end[e].msgs_written - drained
      /\ end'[e].msgs_read = end[e].msgs_read
  BY <1>0 DEF process_hiccup, Typed, TypeOK, Pipe
<1>6. /\ Conduit(e) \subseteq Ypipe /\ Conduit(p) \subseteq Ypipe
      /\ Renewals(cmds[e]) \subseteq Conduit(e) /\ old \in Conduit(e)
      /\ Conduit(e) \cap Conduit(p) = {}
      /\ \A y \in Renewals(cmds[e]) : p \in MayHiccup /\ Empty(ypipe[y])
  BY <1>0, <1>4, ConduitFacts DEF Filled
<1>7. \A y \in Ypipe : y # old => ypipe'[y] = ypipe[y]
  BY <1>0, <1>1 DEF Typed, TypeOK
<1>8. \A y \in Renewals(cmds[e]) : y # old
  <2>1. \A y \in Renewals(cmds[e]) : old < y
    BY <1>4 DEF Ownership, Succession
  <2>2. \A y \in Renewals(cmds[e]) : y \in Int
    BY <1>0, <1>6, SettingFacts
  <2>3. old \in Int
    BY SMTT(30), <1>0, <1>4, SettingFacts
  <2> HIDE DEF old
  <2> QED
    BY <2>1, <2>2, <2>3
<1>9. new \in Renewals(cmds[e]) /\ new # NULL /\ ypipe'[new] = ypipe[new] /\ Empty(ypipe[new])
  <2>1. new \in Renewals(cmds[e])
    BY <1>3
  <2>2. NULL \notin Ypipe
    BY <1>0, SettingFacts
  <2> QED
    BY <1>6, <1>7, <1>8, <2>1, <2>2
<1>10. Load(Out(e)) \in Nat /\ drained <= Load(Out(e)) /\ drained \in Nat
  <2>1. p \in MayHiccup
    BY <1>6, <1>9
  <2>2. Plain(Out(e))
    BY <1>4, <2>1 DEF Filled
  <2> QED
    BY <1>4, <2>2, LoadOperations, PlainOperations
<1>11. Filled(p)'
  <2>1. \A y \in Conduit(p) : ypipe'[y] = ypipe[y]
    BY <1>6, <1>7
  <2> QED
    BY <1>0, <1>2, <1>3, <1>5, <2>1, FilledUntouched
<1>12. Filled(e)'
  <2>1. Out(e)' = ypipe[new]
    BY <1>5, <1>9 DEF Out
  <2>2. Load(Out(e)') = 0 /\ Plain(Out(e)')
    BY <1>9, <2>1, EmptyFacts
  <2>3. end[e].state = "active" => end[p].msgs_read + Load(Out(e)) <= end[e].msgs_written
    BY DEF Filled
  <2> HIDE DEF drained
  <2>4. end'[e].state = "active" => end'[p].msgs_read + Load(Out(e)') <= end'[e].msgs_written
    BY <1>0, <1>5, <1>10, <2>2, <2>3
  <2>5. \A y \in Renewals(cmds'[e]) : p \in MayHiccup /\ Empty(ypipe'[y])
    BY <1>3, <1>6, <1>7, <1>8
  <2>6. Load(Out(e))' = Load(Out(e)') /\ (Plain(Out(e))' <=> Plain(Out(e)'))
    BY DEF Load, Plain
  <2>7. \A y \in Renewals(cmds[e])' : p \in MayHiccup' /\ Empty(ypipe[y])'
    BY <1>2, <2>5 DEF Empty
  <2> QED
    BY <2>2, <2>4, <2>6, <2>7 DEF Filled
<1> QED
  BY <1>11, <1>12, Peers

LEMMA ProcessFills ==
  ASSUME HandshakeInv, Ownership, \A f \in End : Filled(f), NEW e \in End, Step(e), Process(e)
  PROVE  \A f \in End : Filled(f)'
<1> DEFINE p == peer(e)
<1>0. /\ Typed /\ p \in End /\ p # e /\ peer(p) = e /\ end'[p] = end[p] /\ end[e] \in Pipe
  BY EndsMeet, StepShape, PipeFacts
<1>1. ~ReadMessage(e) /\ ~hiccup(e)
  <2>1. cmds'[e] = Tail(cmds[e]) /\ cmds[e] # <<>> /\ cmds[e] \in Seq(Command)
    BY <1>0, ProcessTells, EndsMeet
  <2>2. Len(Tail(cmds[e])) = Len(cmds[e]) - 1 /\ Len(cmds[e]) \in Nat
    BY <2>1, HeadTailProperties, LenProperties
  <2>3. cmds'[e] # cmds[e]
    <3>1. Len(cmds'[e]) = Len(cmds[e]) - 1
      BY <2>1, <2>2
    <3> QED
      BY <2>2, <3>1
  <2>4. ReadMessage(e) \/ hiccup(e) => cmds'[e] = cmds[e]
    BY <1>0 DEF ReadMessage, hiccup, Send, Typed, TypeOK
  <2> QED
    BY <2>3, <2>4
<1>2. CASE process_hiccup(e)
  BY <1>2, HiccupTakenFills
<1>3. CASE process_pipe_term_ack(e)
  <2> DEFINE old == end[e].inpipe
  <2>1. /\ ypipe' = [ypipe EXCEPT ![old].status = "freed"] /\ Head(cmds[e])[1] # "hiccup"
    BY <1>3 DEF process_pipe_term_ack, Receives
  <2>2. /\ \A y \in Ypipe : ypipe'[y].avail = ypipe[y].avail /\ ypipe'[y].held = ypipe[y].held
        /\ end'[e].outpipe = NULL /\ end'[e].state = "deleted"
        /\ end'[e].msgs_read = end[e].msgs_read
    BY SMTT(30), <1>0, <1>3, <2>1 DEF process_pipe_term_ack, Typed, TypeOK, Pipe, Upipe
  <2>3. Conduit(e) \subseteq Ypipe /\ Conduit(p) \subseteq Ypipe
    BY <1>0, ConduitFacts
  <2>4. setting' = setting /\ used'.hiccups = used.hiccups
    BY ProcessTells
  <2>5. \A f \in End : Ascending(cmds[f])
    BY DEF Ownership, Succession
  <2>6. Renewals(cmds'[e]) = Renewals(cmds[e]) /\ Renewals(cmds'[p]) = Renewals(cmds[p])
    BY <2>1, <2>4, <2>5, RenewalsKept
  <2>7. Filled(e)'
    BY <1>0, <2>2, <2>3, <2>4, <2>6, FilledUntouched
  <2>8. Filled(p)'
    BY <1>0, <2>2, <2>3, <2>4, <2>6, FilledUntouched
  <2> QED
    BY <2>7, <2>8, Peers
<1>4. CASE ~process_hiccup(e) /\ ~process_pipe_term_ack(e)
  <2>1. UNCHANGED ypipe
    BY <1>4, ProcessKeepsYpipes
  <2>2. end'[e].state = "active" =>
           /\ end[e].state = "active" /\ end'[e].outpipe = end[e].outpipe
           /\ end'[e].msgs_written = end[e].msgs_written
    <3>1. CASE process_activate_read(e)
      BY <1>0, <3>1 DEF process_activate_read, Typed, TypeOK, Pipe
    <3>2. CASE process_activate_write(e)
      BY <1>0, <3>2 DEF process_activate_write, Typed, TypeOK, Pipe
    <3>3. CASE process_pipe_hwm(e)
      BY <1>0, <3>3 DEF process_pipe_hwm, set_hwms, Typed, TypeOK, Pipe
    <3>4. CASE process_pipe_term(e)
      BY SMTT(30), <1>0, <3>4 DEF process_pipe_term, Typed, TypeOK, Pipe
    <3> QED
      BY <1>4, <3>1, <3>2, <3>3, <3>4 DEF Process
  <2> QED
    BY <1>1, <1>4, <2>1, <2>2, QuietFills
<1> QED
  BY <1>2, <1>3, <1>4

Balanced == \A f \in End : Filled(f) /\ Reported(f)

LEMMA StepKeepsBalanced ==
  ASSUME HandshakeInv, Ownership, Balanced, NEW e \in End, Step(e)
  PROVE  Balanced'
<1>1. \A f \in End : Filled(f)'
  BY UserFills, HiccupFills, ProcessFills DEF Balanced
<1>2. \A f \in End : Reported(f)'
  BY StepKeepsReported DEF Balanced
<1> QED
  BY <1>1, <1>2 DEF Balanced

LEMMA InitBalanced == Init => Balanced
<1> SUFFICES ASSUME Init, NEW f \in End PROVE Filled(f) /\ Reported(f)
  BY DEF Balanced
<1>1. /\ cmds[f] = <<>> /\ peer(f) \in End /\ end[f].outpipe \in {1, 2}
      /\ end[f].msgs_written = 0 /\ end[f].peers_msgs_read = 0
      /\ end[peer(f)].msgs_read = 0
  BY DEF Init, End, peer
<1>2. Empty(Out(f))
  <2>1. {1, 2} \subseteq Ypipe
    <3>1. Ypipe = 1 .. 2 + MaxHiccup /\ MaxHiccup \in Nat
      BY InitTyped, SettingFacts
    <3> QED
      BY <3>1
  <2> QED
    BY <1>1, <2>1 DEF Init, NewYpipe, Empty, Out
<1>3. Load(Out(f)) = 0 /\ Plain(Out(f))
  BY <1>2, EmptyFacts
<1>4. Renewals(<<>>) = {} /\ Reports(<<>>, 0)
  BY DEF Renewals, Reports
<1> QED
  BY <1>1, <1>3, <1>4 DEF Filled, Reported

(* What an end has written is either read, or in the ypipe, or was drained *)
(* with an older ypipe; what the peer is told of its reads lags behind.    *)
THEOREM CountsInvariant == Spec => []Counts
<1>1. HandshakeInv /\ Ownership /\ Balanced /\ [Next]_vars => Balanced'
  <2> SUFFICES ASSUME HandshakeInv, Ownership, Balanced, [Next]_vars PROVE Balanced'
    OBVIOUS
  <2>1. CASE UNCHANGED vars
    <3>1. UNCHANGED <<ypipe, end, cmds, MayHiccup>>
      BY <2>1 DEF vars, MayHiccup, setting
    <3>2. \A f \in End : Filled(f)' <=> Filled(f)
      BY <3>1 DEF Filled, Renewals, Empty, Load, Plain, Out
    <3>3. \A f \in End : Reported(f)' <=> Reported(f)
      BY <3>1 DEF Reported, Reports
    <3> QED
      BY <3>2, <3>3 DEF Balanced
  <2>2. CASE Next
    BY <2>2, StepKeepsBalanced DEF Next
  <2> QED
    BY <2>1, <2>2
<1>2. HandshakeInv /\ Balanced => Counts
  BY CountsParts DEF Balanced
<1> QED
  BY <1>1, <1>2, InitBalanced, HandshakeInvariant, OwnershipInvariant, PTL DEF Spec

(* Hiccups, terminations and their crossing leave every ypipe to exactly   *)
(* one thread, which deletes it once, and the counts of messages right:    *)
(* the places that are free at the mark never come out negative.           *)
THEOREM HiccupIsSound == Spec => []HiccupSound
<1>1. HandshakeInv /\ Counts => NoUnderflow
  <2> SUFFICES ASSUME HandshakeInv, Counts, NEW e \in End, end[e].state = "active"
               PROVE  end[e].peers_msgs_read <= end[e].msgs_written
    BY DEF NoUnderflow
  <2>1. /\ Typed /\ Handshake(e) /\ peer(e) \in End /\ end[peer(e)].msgs_read \in Nat
        /\ end[e].msgs_written \in Int /\ end[e].peers_msgs_read \in Nat
    BY EndsMeet, PipeFacts
  <2>2. Out(e) \in Upipe
    BY <2>1, PipeFacts DEF Handshake, Acked, Out
  <2>3. Load(Out(e)) \in Nat
    BY <2>2, LoadOperations
  <2>4. /\ end[peer(e)].msgs_read + Load(Out(e)) <= end[e].msgs_written
        /\ end[e].peers_msgs_read <= end[peer(e)].msgs_read
    BY CountsParts DEF Filled, Reported
  <2> QED
    BY <2>1, <2>3, <2>4
<1>2. HandshakeInv => TypeOK
  BY DEF HandshakeInv, Typed
<1>3. HiccupSound <=> TypeOK /\ (NoDangling /\ NoLeak) /\ NoUnderflow
  BY DEF HiccupSound
<1> QED
  BY <1>1, <1>2, <1>3, HandshakeInvariant, CountsInvariant, YpipesSound, PTL
-----------------------------------------------------------------------------
(* The marks. *)

LEMMA LastMarksTold ==
  ASSUME NEW q \in Seq(Command), NEW c \in Command
  PROVE  LastMarks(q \o <<c>>) = IF c[1] = "pipe_hwm" THEN {c} ELSE LastMarks(q)
<1> DEFINE r == q \o <<c>>
           n == Len(q) + 1
<1>1. /\ DOMAIN r = 1 .. n /\ DOMAIN q = 1 .. n - 1 /\ n \in Nat /\ n >= 1
      /\ \A i \in 1 .. n - 1 : r[i] = q[i]
      /\ r[n] = c
  BY Told
<1> HIDE DEF r, n
<1>2. CASE c[1] = "pipe_hwm"
  <2>1. \A i \in DOMAIN r : i # n => n > i
    BY <1>1
  <2>2. n \in DOMAIN r /\ \A j \in DOMAIN r : ~(j > n)
    BY <1>1
  <2>3. LastMarks(r) = {c}
    BY <1>1, <1>2, <2>1, <2>2 DEF LastMarks
  <2> QED
    BY <1>2, <2>3 DEF r
<1>3. CASE c[1] # "pipe_hwm"
  <2>1. DOMAIN r = DOMAIN q \cup {n} /\ n \notin DOMAIN q
    BY <1>1
  <2>2. LastMarks(r) = LastMarks(q)
    BY <1>1, <1>3, <2>1 DEF LastMarks
  <2> QED
    BY <1>3, <2>2 DEF r
<1> QED
  BY <1>2, <1>3

LEMMA LastMarksTaken ==
  ASSUME NEW q \in Seq(Command), q # <<>>
  PROVE  /\ LastMarks(Tail(q)) \subseteq LastMarks(q)
         /\ Head(q)[1] = "pipe_hwm" /\ ~Has(Tail(q), "pipe_hwm") => Head(q) \in LastMarks(q)
<1> DEFINE t == Tail(q)
           n == Len(q)
<1>1. /\ n \in Nat /\ n >= 1 /\ DOMAIN q = 1 .. n /\ DOMAIN t = 1 .. n - 1
      /\ \A i \in 1 .. n - 1 : t[i] = q[i + 1]
      /\ Head(q) = q[1]
  BY Taken
<1> HIDE DEF t, n
<1>2. ASSUME NEW i \in DOMAIN t, t[i][1] = "pipe_hwm",
             \A j \in DOMAIN t : j > i => t[j][1] # "pipe_hwm"
      PROVE  t[i] \in LastMarks(q)
  <2>1. i + 1 \in DOMAIN q /\ q[i + 1] = t[i] /\ i \in Int
    BY <1>1
  <2>2. ASSUME NEW j \in DOMAIN q, j > i + 1 PROVE q[j][1] # "pipe_hwm"
    <3>1. j - 1 \in DOMAIN t /\ j - 1 > i /\ t[j - 1] = q[j]
      BY <1>1, <2>1, <2>2
    <3> QED
      BY <1>2, <3>1
  <2> QED
    BY <1>2, <2>1, <2>2 DEF LastMarks
<1>3. ASSUME Head(q)[1] = "pipe_hwm", ~Has(t, "pipe_hwm") PROVE Head(q) \in LastMarks(q)
  <2>1. 1 \in DOMAIN q /\ q[1][1] = "pipe_hwm"
    BY <1>1, <1>3
  <2>2. ASSUME NEW j \in DOMAIN q, j > 1 PROVE q[j][1] # "pipe_hwm"
    <3>1. j - 1 \in DOMAIN t /\ t[j - 1] = q[j]
      BY <1>1, <2>2
    <3> QED
      BY <1>3, <3>1 DEF Has
  <2> QED
    BY <1>1, <2>1, <2>2 DEF LastMarks
<1> QED
  BY <1>2, <1>3 DEF LastMarks, t

LEMMA LastMarksHas ==
  ASSUME NEW q \in Seq(Command), ~Has(q, "pipe_hwm")
  PROVE  LastMarks(q) = {}
BY DEF LastMarks, Has

LEMMA LastMarksTyped ==
  ASSUME NEW q \in Seq(Command)
  PROVE  \A c \in LastMarks(q) : c[2] \in Int /\ c[3] \in Int
<1>1. \A i \in DOMAIN q : q[i] \in Command
  OBVIOUS
<1> QED
  BY <1>1, CommandFacts DEF LastMarks

(* Half of a mark, rounded up, lies between one and the mark. *)
LEMMA LowMark ==
  ASSUME NEW h \in Nat
  PROVE  IF h <= 0 THEN compute_lwm(h) = 0 ELSE compute_lwm(h) \in 1 .. h
BY DEF compute_lwm

LEMMA LowMarkNone == ASSUME NEW h \in Int, h < 0 PROVE compute_lwm(h) = 0
BY DEF compute_lwm

(* The marks that both ends make of the same values fit. *)
LEMMA MarksMatch ==
  ASSUME Typed, NEW e \in End, NEW x \in Pipe, NEW y \in Pipe, NEW a \in Int, NEW b \in Int,
         OutBoost[e] = InBoost[peer(e)]
  PROVE  Fits(set_hwms(e, x, a, b), set_hwms(peer(e), y, b, a))
<1> DEFINE mark == IF b <= 0 \/ OutBoost[e] = 0 THEN 0
                   ELSE b + (IF OutBoost[e] > 0 THEN OutBoost[e] ELSE 0)
<1>1. OutBoost[e] \in Int
  BY SettingFacts
<1>2. mark \in Nat
  BY <1>1
<1>3. set_hwms(e, x, a, b).hwm = mark
  BY DEF set_hwms, Pipe
<1>4. set_hwms(peer(e), y, b, a).lwm = compute_lwm(mark)
  BY DEF set_hwms, Pipe
<1> HIDE DEF mark
<1> QED
  BY <1>2, <1>3, <1>4, LowMark DEF Fits

(* What set_hwms makes of a pipe's marks does not depend on the old ones. *)
LEMMA MarksFresh ==
  ASSUME NEW e \in End, NEW x \in Pipe, NEW y \in Pipe, NEW a \in Int, NEW b \in Int
  PROVE  /\ set_hwms(e, x, a, b).hwm = set_hwms(e, y, a, b).hwm
         /\ set_hwms(e, x, a, b).lwm = set_hwms(e, y, a, b).lwm
BY DEF set_hwms, Pipe

LEMMA StepMarks ==
  ASSUME HandshakeInv, NEW e \in End, Step(e), ~process_pipe_hwm(e),
         ~ \E in, out \in NewHwm : ChangeHwms(e, in, out)
  PROVE  end'[e].hwm = end[e].hwm /\ end'[e].lwm = end[e].lwm
<1> DEFINE Same == end'[e].hwm = end[e].hwm /\ end'[e].lwm = end[e].lwm
<1>0. /\ Typed /\ end[e] \in Pipe
  BY EndsMeet, PipeFacts
<1>1. ASSUME NEW kind \in Kind[e] \cup {"data"}, NEW more \in BOOLEAN, Write(e, kind, more)
      PROVE  Same
  BY <1>0, <1>1 DEF Write, Typed, TypeOK, Pipe
<1>2. CASE WriteFails(e) \/ rollback(e) \/ flush(e) \/ ReadEmpty(e) \/ hiccup(e)
  BY <1>0, <1>2 DEF WriteFails, rollback, flush, ReadEmpty, hiccup, Typed, TypeOK, Pipe
<1>3. CASE ReadMessage(e)
  <2> DEFINE frame == In(e).avail[NextItem(In(e).avail)]
             p == IF frame.more \/ frame.kind = "identity" THEN end[e]
                  ELSE [end[e] EXCEPT !.msgs_read = @ + 1]
  <2>1. end' = [end EXCEPT ![e] = p]
    BY <1>3 DEF ReadMessage
  <2>2. end'[e] = p
    BY <1>0, <2>1 DEF Typed, TypeOK
  <2>3. p.hwm = end[e].hwm /\ p.lwm = end[e].lwm
    BY <1>0 DEF Pipe
  <2> HIDE DEF p
  <2> QED
    BY <2>2, <2>3
<1>4. CASE ReadDelimiter(e)
  BY <1>0, <1>4 DEF ReadDelimiter, Typed, TypeOK, Pipe
<1>5. CASE terminate(e)
  BY <1>0, <1>5 DEF terminate, TerminateIgnored, TerminateRequest, TerminateWaiting,
                    Typed, TypeOK, Pipe
<1>6. CASE TerminateFinish(e)
  BY <1>0, <1>6 DEF TerminateFinish, Typed, TypeOK, Pipe
<1>7. CASE Process(e)
  <2>1. CASE process_activate_write(e)
    BY <1>0, <2>1 DEF process_activate_write, Typed, TypeOK, Pipe
  <2>2. CASE process_activate_read(e) \/ process_hiccup(e) \/ process_pipe_term_ack(e)
    BY <1>0, <2>2 DEF process_activate_read, process_hiccup, process_pipe_term_ack,
                      Typed, TypeOK, Pipe
  <2>3. CASE process_pipe_term(e)
    BY <1>0, <2>3 DEF process_pipe_term, Typed, TypeOK, Pipe
  <2> QED
    BY <1>7, <2>1, <2>2, <2>3 DEF Process
<1> HIDE DEF Same
<1>8. Same => end'[e].hwm = end[e].hwm /\ end'[e].lwm = end[e].lwm
  BY DEF Same
<1> QED
  BY <1>1, <1>2, <1>3, <1>4, <1>5, <1>6, <1>7, <1>8 DEF Step, Read

LEMMA StepKeepsMarks ==
  ASSUME HandshakeInv, Typed', \A f \in End : Settling(f), OneSetter, NEW e \in End, Step(e)
  PROVE  \A f \in End : Settling(f)'
<1> DEFINE p == peer(e)
<1>0. /\ Typed /\ p \in End /\ p # e /\ peer(p) = e /\ cmds[e] \in Seq(Command)
      /\ cmds[p] \in Seq(Command) /\ end'[p] = end[p]
      /\ cmds'[e] \in Seq(Command) /\ cmds'[p] \in Seq(Command)
      /\ end[e] \in Pipe /\ end[p] \in Pipe
      /\ OutBoost[e] = InBoost[p] /\ OutBoost[p] = InBoost[e]
      /\ Settling(e) /\ Settling(p)
  BY EndsMeet, StepShape, StepTells, PipeFacts DEF OneSetter
<1>1. setting' = setting
  BY <1>0, StepKeepsSetting
<1>2. end'[e] \in Pipe
  <2>1. Pipe' = Pipe
    BY <1>1, SameSetting
  <2> QED
    BY <2>1 DEF Typed, TypeOK
<1>3. /\ MaySetHwm' = MaySetHwm
      /\ \A f \in End, x \in Pipe, a, b \in Int : set_hwms(f, x, a, b)' = set_hwms(f, x, a, b)
  BY <1>1 DEF MaySetHwm, set_hwms, InBoost, OutBoost
<1> HIDE DEF p
<1>4. CASE \E in, out \in NewHwm : ChangeHwms(e, in, out)
  <2>1. PICK in \in NewHwm, out \in NewHwm : ChangeHwms(e, in, out)
    BY <1>4
  <2> DEFINE c == <<"pipe_hwm", out, in>>
  <2>2. in \in Int /\ out \in Int
    BY <1>0, SettingFacts
  <2>3. c \in Command /\ c[1] = "pipe_hwm" /\ c[2] = out /\ c[3] = in
    BY <2>2, CommandsSent
  <2>4. /\ e \in MaySetHwm /\ end'[e] = set_hwms(e, end[e], in, out) /\ Send(p, <<c>>)
    BY <1>0, <2>1 DEF ChangeHwms, Typed, TypeOK, p
  <2> HIDE DEF c
  <2>5. cmds'[p] = cmds[p] \o <<c>> /\ cmds'[e] = cmds[e]
    BY <1>0, <1>1, <2>3, <2>4, SendTyped
  <2>6. p \notin MaySetHwm
    BY <1>0, <2>4 DEF OneSetter
  <2>7. ~Has(cmds[e], "pipe_hwm") /\ LastMarks(cmds[e]) = {}
    BY <1>0, <2>6, LastMarksHas DEF Settling, p
  <2>8. Has(cmds'[p], "pipe_hwm") /\ LastMarks(cmds'[p]) = {c}
    <3>1. Has(cmds'[p], "pipe_hwm")
      BY <1>0, <2>3, <2>5, HasTold
    <3> QED
      BY <1>0, <2>3, <2>5, <3>1, LastMarksTold
  <2>9. LET q == set_hwms(p, end[p], c[2], c[3])
        IN  Fits(q, end'[e]) /\ Fits(end'[e], q)
    BY <1>0, <2>2, <2>3, <2>4, MarksMatch DEF p
  <2>10. Settling(e)'
    BY <1>0, <2>5, <2>7, <2>8 DEF Settling, p
  <2>11. Settling(p)'
    BY <1>0, <1>3, <2>2, <2>3, <2>4, <2>8, <2>9 DEF Settling
  <2> QED
    BY <2>10, <2>11, Peers DEF p
<1>5. CASE process_pipe_hwm(e)
  <2> DEFINE a == Head(cmds[e])[2]
             b == Head(cmds[e])[3]
  <2>1. /\ cmds[e] # <<>> /\ Head(cmds[e])[1] = "pipe_hwm" /\ Answer(e, <<>>)
        /\ end' = [end EXCEPT ![e] = set_hwms(e, end[e], a, b)]
    BY <1>5 DEF process_pipe_hwm, Receives
  <2>2. a \in Int /\ b \in Int
    BY <1>0, <1>5, ReceivedTyped DEF process_pipe_hwm
  <2>3. cmds'[e] = Tail(cmds[e]) /\ cmds'[p] = cmds[p]
    <3>1. cmds'[e] = Tail(cmds[e]) /\ cmds'[p] = cmds[p] \o <<>>
      BY <1>0, <2>1 DEF Answer, Typed, p
    <3> QED
      BY <1>0, <3>1, ConcatEmptySeq
  <2>4. Has(cmds[e], "pipe_hwm")
    BY <1>0, <2>1, HasTaken
  <2>5. p \in MaySetHwm /\ e \notin MaySetHwm
    BY <1>0, <2>4 DEF OneSetter, Settling, p
  <2>6. ~Has(cmds[p], "pipe_hwm") /\ LastMarks(cmds[p]) = {}
    BY <1>0, <2>5, LastMarksHas DEF Settling
  <2>7. end'[e] = set_hwms(e, end[e], a, b)
    BY <1>0, <2>1 DEF Typed, TypeOK
  <2>8. /\ LastMarks(cmds'[e]) \subseteq LastMarks(cmds[e])
        /\ ~Has(cmds'[e], "pipe_hwm") => Head(cmds[e]) \in LastMarks(cmds[e])
    BY <1>0, <2>1, <2>3, LastMarksTaken
  <2> HIDE DEF a, b
  <2>9. ~Has(cmds'[e], "pipe_hwm") => Fits(end'[e], end[p]) /\ Fits(end[p], end'[e])
    BY <1>0, <2>7, <2>8 DEF Settling, p, a, b
  <2>10. ASSUME NEW c \in LastMarks(cmds'[e])
         PROVE  LET q == set_hwms(e, end'[e], c[2], c[3])
                IN  Fits(q, end[p]) /\ Fits(end[p], q)
    <3> DEFINE q == set_hwms(e, end[e], c[2], c[3])
               r == set_hwms(e, end'[e], c[2], c[3])
    <3>1. Fits(q, end[p]) /\ Fits(end[p], q)
      BY <1>0, <2>8 DEF Settling, p
    <3>2. q.hwm = r.hwm /\ q.lwm = r.lwm
      <4>1. c[2] \in Int /\ c[3] \in Int
        BY <1>0, LastMarksTyped
      <4> QED
        BY <1>0, <1>2, <4>1, MarksFresh
    <3> HIDE DEF q, r
    <3>3. Fits(r, end[p]) /\ Fits(end[p], r)
      BY <3>1, <3>2 DEF Fits
    <3> QED
      BY <3>3 DEF r
  <2>11. Settling(e)'
    <3>1. \A c \in LastMarks(cmds'[e]) :
            set_hwms(e, end[e], c[2], c[3])' = set_hwms(e, end'[e], c[2], c[3])
      BY <1>0, <1>2, <1>3, LastMarksTyped
    <3> QED
      BY <1>0, <1>3, <2>5, <2>9, <2>10, <3>1 DEF Settling, p
  <2>12. Settling(p)'
    BY <1>0, <1>3, <2>3, <2>5, <2>6, <2>9 DEF Settling
  <2> QED
    BY <2>11, <2>12, Peers DEF p
<1>6. CASE /\ ~ \E in, out \in NewHwm : ChangeHwms(e, in, out)
           /\ ~process_pipe_hwm(e)
  <2>1. end'[e].hwm = end[e].hwm /\ end'[e].lwm = end[e].lwm
    BY <1>6, StepMarks
  <2>2. /\ Has(cmds'[e], "pipe_hwm") <=> Has(cmds[e], "pipe_hwm")
        /\ LastMarks(cmds'[e]) \subseteq LastMarks(cmds[e])
    <3>1. CASE Process(e)
      <4>1. cmds[e] # <<>> /\ cmds'[e] = Tail(cmds[e])
        BY <3>1, ProcessTells
      <4>2. Head(cmds[e])[1] # "pipe_hwm"
        BY <1>6, <3>1 DEF Process, process_activate_read, process_activate_write, process_hiccup,
                          process_pipe_term, process_pipe_term_ack, Receives
      <4> QED
        BY <1>0, <4>1, <4>2, HasTaken, LastMarksTaken
    <3>2. CASE ~Process(e)
      BY <3>2, UserTells
    <3> QED
      BY <3>1, <3>2
  <2>3. /\ Has(cmds'[p], "pipe_hwm") <=> Has(cmds[p], "pipe_hwm")
        /\ LastMarks(cmds'[p]) = LastMarks(cmds[p])
    <3>1. PICK c \in Command : \E s \in {<<>>, <<c>>} : Tells(e, c, s)
      BY StepTells
    <3>2. PICK s \in {<<>>, <<c>>} : Tells(e, c, s)
      BY <3>1
    <3>3. CASE s = <<>>
      BY <1>0, <3>2, <3>3, ConcatEmptySeq DEF Tells, p
    <3>4. CASE s # <<>>
      <4>1. cmds'[p] = cmds[p] \o <<c>> /\ c[1] # "pipe_hwm"
        BY <1>6, <3>2, <3>4 DEF Tells, p
      <4>2. Has(cmds'[p], "pipe_hwm") <=> Has(cmds[p], "pipe_hwm")
        BY <1>0, <4>1, HasTold
      <4> QED
        BY <1>0, <4>1, <4>2, LastMarksTold
    <3> QED
      BY <3>3, <3>4
  <2>4. ASSUME NEW c \in LastMarks(cmds[e])
        PROVE  LET q == set_hwms(e, end'[e], c[2], c[3])
               IN  Fits(q, end[p]) /\ Fits(end[p], q)
    <3> DEFINE q == set_hwms(e, end[e], c[2], c[3])
               r == set_hwms(e, end'[e], c[2], c[3])
    <3>1. Fits(q, end[p]) /\ Fits(end[p], q)
      BY <1>0 DEF Settling, p
    <3>2. q.hwm = r.hwm /\ q.lwm = r.lwm
      <4>1. c[2] \in Int /\ c[3] \in Int
        BY <1>0, LastMarksTyped
      <4> QED
        BY <1>0, <1>2, <4>1, MarksFresh
    <3> HIDE DEF q, r
    <3>3. Fits(r, end[p]) /\ Fits(end[p], r)
      BY <3>1, <3>2 DEF Fits
    <3> QED
      BY <3>3 DEF r
  <2>5. \A x : (Fits(end'[e], x) <=> Fits(end[e], x)) /\ (Fits(x, end'[e]) <=> Fits(x, end[e]))
    BY <2>1 DEF Fits
  <2>6. Settling(e)'
    <3>1. \A c \in LastMarks(cmds'[e]) :
            set_hwms(e, end[e], c[2], c[3])' = set_hwms(e, end'[e], c[2], c[3])
      BY <1>0, <1>2, <1>3, LastMarksTyped
    <3>2. (peer(e) \notin MaySetHwm => ~Has(cmds[e], "pipe_hwm"))'
      BY <1>3, <2>2, <1>0 DEF Settling, p
    <3>3. (~Has(cmds[e], "pipe_hwm") /\ ~Has(cmds[peer(e)], "pipe_hwm")
             => Fits(end[e], end[peer(e)]))'
      BY <1>0, <2>2, <2>3, <2>5 DEF Settling, p
    <3>4. (\A c \in LastMarks(cmds[e]) : LET q == set_hwms(e, end[e], c[2], c[3])
                                       IN  Fits(q, end[peer(e)]) /\ Fits(end[peer(e)], q))'
      BY <1>0, <2>2, <2>4, <3>1 DEF p
    <3> QED
      BY <3>2, <3>3, <3>4 DEF Settling
  <2>7. Settling(p)'
    <3>1. \A c \in LastMarks(cmds[p]) :
            set_hwms(p, end[p], c[2], c[3])' = set_hwms(p, end[p], c[2], c[3])
      BY <1>0, <1>3, LastMarksTyped
    <3>2. (peer(p) \notin MaySetHwm => ~Has(cmds[p], "pipe_hwm"))'
      BY <1>3, <2>3, <1>0 DEF Settling
    <3>3. (~Has(cmds[p], "pipe_hwm") /\ ~Has(cmds[peer(p)], "pipe_hwm")
             => Fits(end[p], end[peer(p)]))'
      BY <1>0, <2>2, <2>3, <2>5 DEF Settling
    <3>4. (\A c \in LastMarks(cmds[p]) : LET q == set_hwms(p, end[p], c[2], c[3])
                                       IN  Fits(q, end[peer(p)]) /\ Fits(end[peer(p)], q))'
      BY <1>0, <2>3, <2>5, <3>1 DEF Settling
    <3> QED
      BY <3>2, <3>3, <3>4 DEF Settling
  <2> QED
    BY <2>6, <2>7, Peers DEF p
<1> QED
  BY <1>4, <1>5, <1>6

LEMMA InitMarks == Init => \A e \in End : Settling(e)
<1> SUFFICES ASSUME Init, NEW e \in End PROVE Settling(e)
  OBVIOUS
<1>1. /\ cmds[e] = <<>> /\ cmds[peer(e)] = <<>> /\ peer(e) \in End /\ peer(peer(e)) = e
      /\ end[e].hwm = Hwm[e] /\ end[peer(e)].lwm = compute_lwm(Hwm[e])
  BY Peers DEF Init
<1>2. ~Has(<<>>, "pipe_hwm") /\ LastMarks(<<>>) = {}
  BY DEF Has, LastMarks
<1>3. Hwm[e] \in Int
  BY InitTyped, SettingFacts
<1>4. Fits(end[e], end[peer(e)])
  <2>1. CASE Hwm[e] >= 0
    BY <1>1, <1>3, <2>1, LowMark DEF Fits
  <2>2. CASE Hwm[e] < 0
    BY <1>1, <1>3, <2>2, LowMarkNone DEF Fits
  <2> QED
    BY <1>3, <2>1, <2>2
<1> QED
  BY <1>1, <1>2, <1>4 DEF Settling

LEMMA MarksInvariant == Spec => []MarksSettle
<1>1. HandshakeInv /\ HandshakeInv' /\ MarksSettle /\ [Next]_vars => MarksSettle'
  <2> SUFFICES ASSUME HandshakeInv, HandshakeInv', MarksSettle, [Next]_vars, OneSetter'
               PROVE  \A f \in End : Settling(f)'
    BY DEF MarksSettle
  <2>1. CASE UNCHANGED vars
    <3>1. UNCHANGED <<end, cmds, setting, MaySetHwm, InBoost, OutBoost>>
      BY <2>1 DEF vars, setting, MaySetHwm, InBoost, OutBoost
    <3>2. \A f \in End : Settling(f)
      BY <3>1 DEF MarksSettle, OneSetter
    <3>3. \A f \in End : Settling(f)' <=> Settling(f)
      BY <3>1 DEF Settling, set_hwms
    <3> QED
      BY <3>2, <3>3
  <2>2. CASE Next
    <3>1. PICK e \in End : Step(e)
      BY <2>2 DEF Next
    <3>2. OneSetter
      BY <3>1, StepKeepsSetting DEF OneSetter, MaySetHwm, InBoost, OutBoost
    <3>3. Typed'
      BY DEF HandshakeInv
    <3> QED
      BY <3>1, <3>2, <3>3, StepKeepsMarks DEF MarksSettle
  <2> QED
    BY <2>1, <2>2
<1>2. Init => MarksSettle
  BY InitMarks DEF MarksSettle
<1> QED
  BY <1>1, <1>2, HandshakeInvariant, PTL DEF Spec

(* Where one end changes the marks and the boosts match, the two ends      *)
(* agree on the marks of each ypipe as soon as no change is on its way.    *)
THEOREM MarksAgree == Spec => [](OneSetter => MarksFit)
<1>1. MarksSettle => (OneSetter => MarksFit)
  BY Peers DEF MarksSettle, MarksFit, Settling, Has
<1> QED
  BY <1>1, MarksInvariant, PTL
-----------------------------------------------------------------------------
(* The order of messages. *)

LEMMA Joined ==
  ASSUME NEW s \in Seq(Frame), NEW t \in Seq(Frame)
  PROVE  /\ s \o t \in Seq(Frame) /\ Len(s \o t) = Len(s) + Len(t)
         /\ Len(s) \in Nat /\ Len(t) \in Nat
         /\ \A i \in 1 .. Len(s) : (s \o t)[i] = s[i]
         /\ \A i \in 1 .. Len(t) : (s \o t)[Len(s) + i] = t[i]
<1>1. PICK c : c = s \o t
  OBVIOUS
<1>2. /\ c \in Seq(Frame) /\ Len(c) = Len(s) + Len(t)
      /\ \A i \in 1 .. Len(s) + Len(t) : c[i] = IF i <= Len(s) THEN s[i] ELSE t[i - Len(s)]
  BY <1>1, ConcatProperties
<1>3. PICK l \in Nat : l = Len(s)
  BY LenProperties
<1>4. PICK m \in Nat : m = Len(t)
  BY LenProperties
<1>5. \A i \in 1 .. l : c[i] = s[i]
  BY <1>2, <1>3, <1>4
<1>6. \A i \in 1 .. m : c[l + i] = t[i]
  <2> TAKE i \in 1 .. m
  <2>1. l + i \in 1 .. l + m /\ ~(l + i <= l) /\ (l + i) - l = i
    OBVIOUS
  <2> QED
    BY <1>2, <1>3, <1>4, <2>1
<1> QED
  BY <1>1, <1>2, <1>3, <1>4, <1>5, <1>6

LEMMA FramesFacts ==
  ASSUME NEW q \in Upipe
  PROVE  /\ Frames(q) \in Seq(Frame) /\ q.avail \in Seq(Frame) /\ q.held \in Seq(Frame)
         /\ Len(q.avail) \in Nat /\ Len(q.held) \in Nat
         /\ Len(Frames(q)) = Len(q.avail) + Len(q.held)
         /\ \A i \in 1 .. Len(q.avail) : Frames(q)[i] = q.avail[i]
         /\ \A i \in 1 .. Len(q.held) : Frames(q)[Len(q.avail) + i] = q.held[i]
<1>1. q.avail \in Seq(Frame) /\ q.held \in Seq(Frame)
  BY DEF Upipe
<1> QED
  BY ZenonT(30), <1>1, Joined DEF Frames

LEMMA JoinedThrice ==
  ASSUME NEW s \in Seq(Frame), NEW t \in Seq(Frame), NEW u \in Seq(Frame)
  PROVE  s \o (t \o u) = (s \o t) \o u
BY ConcatAssociative

(* A sequence cut after n frames. *)
LEMMA Cut ==
  ASSUME NEW s \in Seq(Frame), NEW n \in 0 .. Len(s)
  PROVE  LET a == SubSeq(s, 1, n)
             b == SubSeq(s, n + 1, Len(s))
         IN  /\ a \in Seq(Frame) /\ Len(a) = n /\ \A i \in 1 .. n : a[i] = s[i]
             /\ b \in Seq(Frame) /\ a \o b = s
<1>1. PICK l \in Nat : l = Len(s)
  BY LenProperties
<1>2. \A i \in 1 .. l : s[i] \in Frame
  BY <1>1
<1>3. SubSeq(s, 1, n) \in Seq(Frame) /\ Len(SubSeq(s, 1, n)) = n
      /\ \A i \in 1 .. n : SubSeq(s, 1, n)[i] = s[i]
  BY <1>1, <1>2, SubSeqProperties
<1>4. SubSeq(s, n + 1, l) \in Seq(Frame)
  BY <1>1, <1>2, SubSeqProperties
<1>5. SubSeq(s, 1, n) \o SubSeq(s, n + 1, l) = s
  <2>1. 1 \in 1 .. l + 1 /\ n \in 1 - 1 .. l /\ l \in n .. l
    BY <1>1
  <2>2. SubSeq(s, 1, n) \o SubSeq(s, n + 1, l) = SubSeq(s, 1, l)
    BY <1>1, <2>1, ConcatAdjacentSubSeq
  <2> QED
    BY <1>1, <2>2, SubSeqFull
<1> QED
  BY <1>1, <1>3, <1>4, <1>5

(* The first sequence and a beginning of the second are a beginning. *)
LEMMA JoinedCut ==
  ASSUME NEW s \in Seq(Frame), NEW t \in Seq(Frame), NEW n \in 0 .. Len(t)
  PROVE  s \o SubSeq(t, 1, n) = SubSeq(s \o t, 1, Len(s) + n)
<1>1. PICK c : c = s \o t
  OBVIOUS
<1>2. PICK a : a = SubSeq(t, 1, n)
  OBVIOUS
<1>3. PICK d : d = s \o a
  OBVIOUS
<1>4. PICK l \in Nat : l = Len(s)
  BY LenProperties
<1>5. PICK m \in Nat : m = Len(t)
  BY LenProperties
<1>6. a \in Seq(Frame) /\ Len(a) = n /\ \A i \in 1 .. n : a[i] = t[i]
  BY <1>2, Cut
<1>7. /\ c \in Seq(Frame) /\ Len(c) = l + m
      /\ \A i \in 1 .. l + m : c[i] = IF i <= l THEN s[i] ELSE t[i - l]
  BY <1>1, <1>4, <1>5, ConcatProperties
<1>8. /\ d \in Seq(Frame) /\ Len(d) = l + n
      /\ \A i \in 1 .. l + n : d[i] = IF i <= l THEN s[i] ELSE a[i - l]
  BY <1>3, <1>4, <1>6, ConcatProperties
<1>9. n \in Nat /\ n <= m /\ l + n \in 0 .. Len(c)
  BY <1>4, <1>5, <1>7
<1>10. /\ SubSeq(c, 1, l + n) \in Seq(Frame) /\ Len(SubSeq(c, 1, l + n)) = l + n
       /\ \A i \in 1 .. l + n : SubSeq(c, 1, l + n)[i] = c[i]
  BY <1>7, <1>9, Cut
<1>11. \A i \in 1 .. l + n : d[i] = c[i]
  <2> TAKE i \in 1 .. l + n
  <2>1. i \in 1 .. l + m
    BY <1>9
  <2>2. CASE i <= l
    BY <1>7, <1>8, <2>1, <2>2
  <2>3. CASE ~(i <= l)
    <3>1. i - l \in 1 .. n
      BY <2>3, <1>9
    <3> QED
      BY <1>6, <1>7, <1>8, <2>1, <2>3, <3>1
  <2> QED
    BY <2>2, <2>3
<1>12. d = SubSeq(c, 1, l + n)
  BY <1>8, <1>10, <1>11, SeqEqual
<1> QED
  BY <1>1, <1>2, <1>3, <1>4, <1>12

LEMMA JoinedTail ==
  ASSUME NEW s \in Seq(Frame), NEW t \in Seq(Frame), s # <<>>
  PROVE  Tail(s) \o t = Tail(s \o t)
<1>1. PICK c : c = s \o t
  OBVIOUS
<1>2. PICK a : a = Tail(s)
  OBVIOUS
<1>3. PICK d : d = a \o t
  OBVIOUS
<1>4. PICK l \in Nat : l = Len(s)
  BY LenProperties
<1>5. PICK m \in Nat : m = Len(t)
  BY LenProperties
<1>6. l # 0
  BY <1>4, EmptySeq
<1>7. a \in Seq(Frame) /\ Len(a) = l - 1 /\ \A i \in 1 .. l - 1 : a[i] = s[i + 1]
  BY <1>2, <1>4, HeadTailProperties
<1>8. /\ c \in Seq(Frame) /\ Len(c) = l + m
      /\ \A i \in 1 .. l + m : c[i] = IF i <= l THEN s[i] ELSE t[i - l]
  BY <1>1, <1>4, <1>5, ConcatProperties
<1>9. /\ d \in Seq(Frame) /\ Len(d) = (l - 1) + m
      /\ \A i \in 1 .. (l - 1) + m : d[i] = IF i <= l - 1 THEN a[i] ELSE t[i - (l - 1)]
  <2>1. PICK k \in Nat : k = Len(a)
    BY <1>7, LenProperties
  <2>2. /\ d \in Seq(Frame) /\ Len(d) = k + m
        /\ \A i \in 1 .. k + m : d[i] = IF i <= k THEN a[i] ELSE t[i - k]
    BY SMTT(30), <1>3, <1>5, <1>7, <2>1, ConcatProperties
  <2>3. k = l - 1
    BY <1>7, <2>1
  <2> QED
    BY <2>2, <2>3
<1>10. c # <<>>
  BY <1>6, <1>8, EmptySeq
<1>11. /\ Tail(c) \in Seq(Frame) /\ Len(Tail(c)) = (l + m) - 1
       /\ \A i \in 1 .. (l + m) - 1 : Tail(c)[i] = c[i + 1]
  BY <1>8, <1>10, HeadTailProperties
<1>12. \A i \in 1 .. (l + m) - 1 : d[i] = c[i + 1]
  <2> TAKE i \in 1 .. (l + m) - 1
  <2>1. i \in 1 .. (l - 1) + m /\ i + 1 \in 1 .. l + m
    BY <1>6
  <2>2. CASE i <= l - 1
    <3>1. i \in 1 .. l - 1 /\ i + 1 <= l
      BY <2>2
    <3>2. d[i] = a[i]
      BY <1>9, <2>1, <2>2
    <3>3. a[i] = s[i + 1]
      BY <1>7, <3>1
    <3>4. c[i + 1] = s[i + 1]
      BY <1>8, <2>1, <3>1
    <3> QED
      BY <3>2, <3>3, <3>4
  <2>3. CASE ~(i <= l - 1)
    <3>1. ~(i + 1 <= l) /\ i - (l - 1) = (i + 1) - l
      BY <2>3
    <3> QED
      BY <1>8, <1>9, <2>1, <2>3, <3>1
  <2> QED
    BY <2>2, <2>3
<1>13. d = Tail(c)
  <2>1. Len(d) = Len(Tail(c)) /\ \A i \in 1 .. Len(d) : d[i] = Tail(c)[i]
    BY <1>9, <1>11, <1>12
  <2> QED
    BY <1>9, <1>11, <2>1, SeqEqual
<1> QED
  BY <1>1, <1>2, <1>3, <1>13

(* What the operations of a ypipe do to its frames. *)
LEMMA FramesWritten ==
  ASSUME NEW q \in Upipe, NEW f \in Frame
  PROVE  LET r == [q EXCEPT !.held = Append(@, f)]
         IN  r.avail = q.avail /\ Frames(r) = Append(Frames(q), f)
<1>1. PICK s : s = q.avail
  OBVIOUS
<1>2. PICK t : t = q.held
  OBVIOUS
<1>3. s \in Seq(Frame) /\ t \in Seq(Frame) /\ <<f>> \in Seq(Frame) /\ s \o t \in Seq(Frame)
  BY <1>1, <1>2, ConcatProperties DEF Upipe
<1>4. s \o (t \o <<f>>) = (s \o t) \o <<f>>
  BY <1>3, JoinedThrice
<1>5. Append(t, f) = t \o <<f>> /\ Append(s \o t, f) = (s \o t) \o <<f>>
  BY <1>3, AppendIsConcat
<1> DEFINE r == [q EXCEPT !.held = Append(@, f)]
<1>6. r.avail = s /\ r.held = Append(t, f)
  BY <1>1, <1>2 DEF Upipe
<1> HIDE DEF r
<1>7. r.avail = q.avail /\ Frames(r) = Append(Frames(q), f)
  BY <1>1, <1>2, <1>4, <1>5, <1>6 DEF Frames
<1> QED
  BY <1>7 DEF r

LEMMA FramesFlushed ==
  ASSUME NEW q \in Upipe
  PROVE  /\ Frames(Flushed(q)) = Frames(q)
         /\ \/ Flushed(q).avail = q.avail
            \/ /\ Flushed(q).avail # <<>>
               /\ ~Flushed(q).avail[Len(Flushed(q).avail)].more
<1>1. PICK s : s = q.avail
  OBVIOUS
<1>2. PICK t : t = q.held
  OBVIOUS
<1>3. PICK n : n = LastWhole(t)
  OBVIOUS
<1>4. s \in Seq(Frame) /\ t \in Seq(Frame)
  BY <1>1, <1>2 DEF Upipe
<1>5. n \in 0 .. Len(t) /\ (n # 0 => ~t[n].more)
  BY <1>3, <1>4, LastComplete DEF Complete
<1>6. CASE n = 0
  BY <1>2, <1>3, <1>6 DEF Flushed
<1>7. CASE n # 0
  <2>1. PICK a : a = SubSeq(t, 1, n)
    OBVIOUS
  <2>2. PICK b : b = SubSeq(t, n + 1, Len(t))
    OBVIOUS
  <2>3. Flushed(q).avail = s \o a /\ Flushed(q).held = b
    BY <1>1, <1>2, <1>3, <1>7, <2>1, <2>2 DEF Flushed, Upipe
  <2>4. /\ a \in Seq(Frame) /\ Len(a) = n /\ \A i \in 1 .. n : a[i] = t[i]
        /\ b \in Seq(Frame) /\ a \o b = t
    BY <1>4, <1>5, <2>1, <2>2, Cut
  <2>5. Frames(Flushed(q)) = Frames(q)
    <3>1. s \o (a \o b) = (s \o a) \o b
      BY <1>4, <2>4, JoinedThrice
    <3> QED
      BY <1>1, <1>2, <2>3, <2>4, <3>1 DEF Frames
  <2>6. PICK c : c = s \o a
    OBVIOUS
  <2>7. c \in Seq(Frame) /\ Len(c) = Len(s) + n /\ Len(s) \in Nat /\ c[Len(s) + n] = a[n]
    <3>1. /\ c \in Seq(Frame) /\ Len(c) = Len(s) + Len(a) /\ Len(s) \in Nat
          /\ \A i \in 1 .. Len(a) : c[Len(s) + i] = a[i]
      BY <1>4, <2>4, <2>6, Joined
    <3>2. n \in 1 .. Len(a)
      BY <1>5, <1>7, <2>4
    <3> QED
      BY <2>4, <3>1, <3>2
  <2>8. c # <<>> /\ ~c[Len(c)].more
    BY <1>5, <1>7, <2>4, <2>7, EmptySeq
  <2> QED
    BY <2>3, <2>5, <2>6, <2>8
<1> QED
  BY <1>6, <1>7

(* A rollback cuts the frames behind the last whole message. *)
LEMMA FramesRolledBack ==
  ASSUME NEW q \in Upipe
  PROVE  /\ RolledBack(q).avail = q.avail
         /\ \E n \in Len(q.avail) .. Len(Frames(q)) :
              /\ Frames(RolledBack(q)) = SubSeq(Frames(q), 1, n)
              /\ n = Len(q.avail) \/ ~Frames(q)[n].more
              /\ \A i \in n + 1 .. Len(Frames(q)) : Frames(q)[i].more
<1>1. PICK s : s = q.avail
  OBVIOUS
<1>2. PICK t : t = q.held
  OBVIOUS
<1>3. PICK k : k = LastWhole(t)
  OBVIOUS
<1>4. s \in Seq(Frame) /\ t \in Seq(Frame)
  BY <1>1, <1>2 DEF Upipe
<1>5. PICK l \in Nat : l = Len(s)
  BY <1>4, LenProperties
<1>6. PICK m \in Nat : m = Len(t)
  BY <1>4, LenProperties
<1>7. k \in 0 .. m /\ (k # 0 => ~t[k].more) /\ \A i \in k + 1 .. m : t[i].more
  <2>1. /\ k \in 0 .. m /\ (k # 0 => Complete(t[k]))
        /\ \A i \in k + 1 .. m : ~Complete(t[i])
    BY <1>3, <1>4, <1>6, LastComplete
  <2> QED
    BY <2>1 DEF Complete
<1>8. PICK c : c = s \o t
  OBVIOUS
<1>9. /\ c \in Seq(Frame) /\ Len(c) = l + m
      /\ \A i \in 1 .. l : c[i] = s[i] 
      /\ \A i \in 1 .. m : c[l + i] = t[i]
  BY <1>4, <1>5, <1>6, <1>8, Joined
<1>10. RolledBack(q).avail = s /\ RolledBack(q).held = SubSeq(t, 1, k)
  BY <1>1, <1>2, <1>3 DEF RolledBack, Upipe
<1>11. Frames(RolledBack(q)) = SubSeq(c, 1, l + k)
  BY <1>4, <1>5, <1>6, <1>7, <1>8, <1>10, JoinedCut DEF Frames
<1>12. l + k \in l .. Len(c) /\ (l + k = l \/ ~c[l + k].more)
  <2>1. k # 0 => c[l + k] = t[k]
    BY <1>7, <1>9
  <2> QED
    BY <1>7, <1>9, <2>1
<1>13. \A i \in (l + k) + 1 .. Len(c) : c[i].more
  <2> TAKE i \in (l + k) + 1 .. Len(c)
  <2>1. i - l \in k + 1 .. m /\ i - l \in 1 .. m /\ l + (i - l) = i
    BY <1>7, <1>9
  <2> QED
    BY <1>7, <1>9, <2>1
<1>14. c = Frames(q) /\ l = Len(q.avail)
  BY <1>1, <1>2, <1>5, <1>8 DEF Frames
<1> QED
  BY <1>1, <1>10, <1>11, <1>12, <1>13, <1>14

LEMMA FramesDrained ==
  ASSUME NEW q \in Upipe, q.avail # <<>>
  PROVE  /\ Drained(q, 1).avail = Tail(q.avail)
         /\ Frames(Drained(q, 1)) = Tail(Frames(q))
<1>1. PICK s : s = q.avail
  OBVIOUS
<1>2. PICK t : t = q.held
  OBVIOUS
<1>3. s \in Seq(Frame) /\ t \in Seq(Frame) /\ s # <<>>
  BY <1>1, <1>2 DEF Upipe
<1>4. Tail(s) = SubSeq(s, 1 + 1, Len(s))
  BY <1>3, TailIsSubSeq
<1>5. Drained(q, 1).avail = Tail(s) /\ Drained(q, 1).held = t
  BY <1>1, <1>2, <1>4 DEF Drained, Upipe
<1>6. Tail(s) \o t = Tail(s \o t)
  BY <1>3, JoinedTail
<1> QED
  BY <1>1, <1>2, <1>5, <1>6 DEF Frames

-----------------------------------------------------------------------------
(* Sequences of frames that follow each other. *)

LEMMA FrameFields ==
  ASSUME NEW f \in Frame
  PROVE  /\ f.msg \in Nat /\ f.part \in Nat /\ f.more \in BOOLEAN
         /\ IsDelimiter(f) => ~IsCredential(f)
BY DEF Frame, IsDelimiter, IsCredential

(* One frame more. *)
LEMMA SequelTold ==
  ASSUME NEW s \in Seq(Frame), NEW f \in Frame, NEW w \in Nat, NEW v \in Nat, NEW d \in BOOLEAN,
         Sequel(s, w, FALSE), s # <<>> => Precedes(s[Len(s)], f),
         f.msg = w + 1, ~IsCredential(f),
         \/ ~IsDelimiter(f) /\ v = IF f.more THEN w ELSE w + 1
         \/ IsDelimiter(f) /\ ~f.more /\ v = w /\ d /\ (s # <<>> => ~s[Len(s)].more)
  PROVE  Sequel(Append(s, f), v, d)
<1>1. PICK l \in Nat : l = Len(s)
  BY LenProperties
<1>2. PICK t : t = Append(s, f)
  OBVIOUS
<1>3. /\ t \in Seq(Frame) /\ Len(t) = l + 1 /\ t[l + 1] = f
      /\ \A i \in 1 .. l : t[i] = s[i] /\ s[i] \in Frame
  BY <1>1, <1>2, AppendProperties
<1>4. l # 0 => s # <<>>
  BY <1>1
<1>5. \A i \in 1 .. l : s[i].msg \in Nat
  BY <1>3, FrameFields
<1>6. ASSUME NEW i \in 1 .. l PROVE Precedes(t[i], t[i + 1])
  <2>1. CASE i = l
    BY <1>1, <1>3, <1>4, <2>1
  <2>2. CASE i # l
    <3>1. i \in 1 .. l - 1 /\ i + 1 \in 1 .. l
      BY <2>2
    <3> QED
      BY <1>1, <1>3, <3>1 DEF Sequel
  <2> QED
    BY <2>1, <2>2
<1>7. ASSUME NEW i \in 1 .. l PROVE Placed(t, i, v)
  <2>1. Placed(s, i, w)
    BY <1>1 DEF Sequel
  <2>2. ~IsDelimiter(s[i])
    BY <1>1 DEF Sequel
  <2>3. CASE \A j \in i .. l + 1 : t[j].more
    <3>1. \A j \in i .. l : s[j].more
      BY <1>3, <2>3
    <3>2. l + 1 \in i .. l + 1
      OBVIOUS
    <3>3. f.more
      BY <1>3, <2>3, <3>2
    <3>4. v = w /\ s[i].msg = w + 1
      BY <1>1, <2>1, <3>1, <3>3 DEF Placed
    <3> QED
      BY <1>3, <2>3, <3>4 DEF Placed
  <2>4. CASE ~ (\A j \in i .. l + 1 : t[j].more)
    <3>1. CASE \A j \in i .. l : s[j].more
      <4>1. ~f.more
        BY <1>3, <2>4, <3>1
      <4>2. ~IsDelimiter(f)
        <5>1. l \in i .. l /\ l # 0
          OBVIOUS
        <5> QED
          BY <1>1, <1>4, <3>1, <5>1
      <4>3. s[i].msg = v
        BY <1>1, <2>1, <3>1, <4>1, <4>2 DEF Placed
      <4> QED
        BY <1>3, <1>5, <2>4, <4>3 DEF Placed
    <3>2. CASE ~ (\A j \in i .. l : s[j].more)
      <4>1. s[i].msg <= w /\ w <= v
        BY <1>1, <2>1, <2>2, <3>2 DEF Placed
      <4> QED
        BY <1>3, <1>5, <2>4, <4>1 DEF Placed
    <3> QED
      BY <3>1, <3>2
  <2> QED
    BY <2>3, <2>4
<1>8. Placed(t, l + 1, v)
  <2>1. \A j \in l + 1 .. l + 1 : j = l + 1
    OBVIOUS
  <2>2. (\A j \in l + 1 .. l + 1 : t[j].more) <=> f.more
    BY <1>3, <2>1
  <2>3. f.msg \in Nat
    BY FrameFields
  <2> QED
    BY <1>3, <2>2, <2>3 DEF Placed
<1>9. ASSUME NEW i \in 1 .. l + 1
      PROVE  /\ Placed(t, i, v) /\ ~IsCredential(t[i])
             /\ IsDelimiter(t[i]) => i = l + 1 /\ d /\ t[i].msg = v + 1 /\ ~t[i].more
  <2>1. CASE i = l + 1
    BY <1>3, <1>8, <2>1
  <2>2. CASE i # l + 1
    <3>1. i \in 1 .. l
      BY <2>2
    <3> QED
      BY <1>1, <1>3, <1>7, <3>1 DEF Sequel
  <2> QED
    BY <2>1, <2>2
<1>10. (l + 1) - 1 = l
  OBVIOUS
<1> QED
  BY <1>2, <1>3, <1>6, <1>9, <1>10 DEF Sequel

(* The beginning of the frames, up to the end of a message. *)
LEMMA SequelCut ==
  ASSUME NEW s \in Seq(Frame), NEW w \in Nat, NEW d \in BOOLEAN, Sequel(s, w, d),
         NEW n \in 0 .. Len(s), n # 0 => ~s[n].more
  PROVE  Sequel(SubSeq(s, 1, n), w, d)
<1>1. PICK l \in Nat : l = Len(s)
  BY LenProperties
<1>2. PICK t : t = SubSeq(s, 1, n)
  OBVIOUS
<1>3. t \in Seq(Frame) /\ Len(t) = n /\ n \in Nat /\ n <= l /\ \A i \in 1 .. n : t[i] = s[i]
  BY <1>1, <1>2, Cut
<1>4. ASSUME NEW i \in 1 .. n - 1 PROVE Precedes(t[i], t[i + 1])
  <2>1. i \in 1 .. n /\ i + 1 \in 1 .. n /\ i \in 1 .. l - 1
    BY <1>3
  <2> QED
    BY <1>1, <1>3, <2>1 DEF Sequel
<1>5. ASSUME NEW i \in 1 .. n
      PROVE  /\ Placed(t, i, w) /\ ~IsCredential(t[i])
             /\ IsDelimiter(t[i]) => i = n /\ d /\ t[i].msg = w + 1 /\ ~t[i].more
  <2>1. i \in 1 .. l /\ n \in i .. n /\ n \in i .. l /\ n \in 1 .. n /\ n # 0
    BY <1>3
  <2>2. Placed(s, i, w) /\ ~IsCredential(s[i])
        /\ (IsDelimiter(s[i]) => i = l /\ d /\ s[i].msg = w + 1 /\ ~s[i].more)
    BY <1>1, <2>1 DEF Sequel
  <2>3. ~ (\A j \in i .. n : t[j].more) /\ ~ (\A j \in i .. l : s[j].more)
    BY <1>3, <2>1
  <2>4. Placed(t, i, w)
    BY <1>1, <1>3, <2>2, <2>3 DEF Placed
  <2>5. i = l => i = n
    BY <1>3
  <2> QED
    BY <1>3, <2>2, <2>4, <2>5
<1> QED
  BY <1>2, <1>3, <1>4, <1>5 DEF Sequel

LEMMA SequelTail ==
  ASSUME NEW s \in Seq(Frame), NEW w \in Nat, NEW d \in BOOLEAN, Sequel(s, w, d), s # <<>>
  PROVE  Sequel(Tail(s), w, d)
<1>1. PICK l \in Nat : l = Len(s)
  BY LenProperties
<1>2. PICK t : t = Tail(s)
  OBVIOUS
<1>3. t \in Seq(Frame) /\ Len(t) = l - 1 /\ \A i \in 1 .. l - 1 : t[i] = s[i + 1]
  BY <1>1, <1>2, HeadTailProperties
<1>4. ASSUME NEW i \in 1 .. (l - 1) - 1 PROVE Precedes(t[i], t[i + 1])
  <2>1. i \in 1 .. l - 1 /\ i + 1 \in 1 .. l - 1
    OBVIOUS
  <2>2. Precedes(s[i + 1], s[(i + 1) + 1])
    BY <1>1, <2>1 DEF Sequel
  <2> QED
    BY <1>3, <2>1, <2>2
<1>5. ASSUME NEW i \in 1 .. l - 1
      PROVE  /\ Placed(t, i, w) /\ ~IsCredential(t[i])
             /\ IsDelimiter(t[i]) => i = l - 1 /\ d /\ t[i].msg = w + 1 /\ ~t[i].more
  <2>1. i + 1 \in 1 .. l
    OBVIOUS
  <2>2. Placed(s, i + 1, w) /\ ~IsCredential(s[i + 1])
        /\ (IsDelimiter(s[i + 1]) => i + 1 = l /\ d /\ s[i + 1].msg = w + 1 /\ ~s[i + 1].more)
    BY <1>1, <2>1 DEF Sequel
  <2>3. (\A j \in i .. l - 1 : t[j].more) <=> (\A j \in i + 1 .. l : s[j].more)
    <3>1. ASSUME \A j \in i .. l - 1 : t[j].more, NEW j \in i + 1 .. l PROVE s[j].more
      <4>1. j - 1 \in i .. l - 1 /\ j - 1 \in 1 .. l - 1 /\ (j - 1) + 1 = j
        OBVIOUS
      <4> QED
        BY <1>3, <3>1, <4>1
    <3>2. ASSUME \A j \in i + 1 .. l : s[j].more, NEW j \in i .. l - 1 PROVE t[j].more
      <4>1. j + 1 \in i + 1 .. l /\ j \in 1 .. l - 1
        OBVIOUS
      <4> QED
        BY <1>3, <3>2, <4>1
    <3> QED
      BY <3>1, <3>2
  <2>4. Placed(t, i, w)
    BY <1>1, <1>3, <2>2, <2>3 DEF Placed
  <2>5. i + 1 = l => i = l - 1
    OBVIOUS
  <2> QED
    BY <1>3, <2>2, <2>4, <2>5
<1> QED
  BY <1>2, <1>3, <1>4, <1>5 DEF Sequel
-----------------------------------------------------------------------------
(* What a line of frames s says, of which the frames a are flushed. *)

LastTold == [msg: Nat, part: Nat, more: BOOLEAN]

Follows(s, a, last, u, replaced, delimited) ==
  /\ Sequel(s, u.written, delimited)
  /\ s = <<>> => u.parts = 0 /\ (replaced \/ last.msg = u.written)
  /\ s # <<>> => /\ Precedes(last, s[1]) \/ (replaced /\ Skips(last, s[1]))
                 /\ GoesOn(s[Len(s)], u)
  /\ a = <<>> => ~last.more
  /\ a # <<>> => ~a[Len(a)].more

LEMMA LineFollows ==
  ASSUME NEW q, NEW last, NEW u, NEW replaced, NEW delimited
  PROVE  Line(q, last, u, replaced, delimited)
           <=> Follows(Frames(q), q.avail, last, u, replaced, delimited)
BY DEF Line, Follows

LEMMA LastFrame ==
  ASSUME NEW s \in Seq(Frame), s # <<>>
  PROVE  /\ Len(s) \in Nat /\ Len(s) # 0 /\ Len(s) \in 1 .. Len(s) /\ 1 \in 1 .. Len(s)
         /\ s[1] \in Frame /\ s[Len(s)] \in Frame
<1>1. PICK l \in Nat : l = Len(s)
  BY LenProperties
<1>2. l # 0
  BY <1>1, EmptySeq
<1> QED
  BY <1>1, <1>2

LEMMA FollowsSame ==
  ASSUME NEW s, NEW a, NEW last, NEW u, NEW v, NEW r1, NEW r2, NEW d1, NEW d2,
         Follows(s, a, last, u, r1, d1),
         v.written = u.written, v.parts = u.parts, r1 => r2, d1 => d2
  PROVE  Follows(s, a, last, v, r2, d2)
<1>1. Sequel(s, v.written, d2)
  BY DEF Follows, Sequel
<1>2. s # <<>> => GoesOn(s[Len(s)], v)
  BY DEF Follows, GoesOn
<1> QED
  BY <1>1, <1>2 DEF Follows

LEMMA FollowsFlushed ==
  ASSUME NEW s, NEW a, NEW b, NEW last, NEW u, NEW r, NEW d, Follows(s, a, last, u, r, d),
         b = a \/ (b # <<>> /\ ~b[Len(b)].more)
  PROVE  Follows(s, b, last, u, r, d)
BY DEF Follows

LEMMA FollowsNothing ==
  ASSUME NEW last, ~last.more, NEW u, u.parts = 0, NEW d
  PROVE  Follows(<<>>, <<>>, last, u, TRUE, d)
<1>1. Len(<<>>) = 0
  OBVIOUS
<1>2. Sequel(<<>>, u.written, d)
  BY <1>1 DEF Sequel
<1> QED
  BY <1>2 DEF Follows

(* The user writes one frame more. *)
LEMMA FollowsTold ==
  ASSUME NEW s \in Seq(Frame), NEW a, NEW last \in LastTold, NEW u \in User, NEW v \in User,
         NEW r \in BOOLEAN, Follows(s, a, last, u, r, FALSE), s = <<>> => a = <<>>,
         last.msg <= u.written,
         NEW f \in Frame, f.msg = u.written + 1, f.part = u.parts + 1,
         ~IsCredential(f), ~IsDelimiter(f),
         v.written = IF f.more THEN u.written ELSE u.written + 1,
         v.parts = IF f.more THEN u.parts + 1 ELSE 0
  PROVE  Follows(Append(s, f), a, last, v, r, FALSE)
<1>1. PICK l \in Nat : l = Len(s)
  BY LenProperties
<1>2. PICK t : t = Append(s, f)
  OBVIOUS
<1>3. /\ t \in Seq(Frame) /\ Len(t) = l + 1 /\ t[l + 1] = f
      /\ \A i \in 1 .. l : t[i] = s[i] /\ s[i] \in Frame
  BY <1>1, <1>2, AppendProperties
<1>4. (s = <<>> => l = 0) /\ (s # <<>> => l # 0)
  BY <1>1, EmptySeq
<1>5. /\ u.written \in Nat /\ u.parts \in Nat /\ v.written \in Nat /\ last.msg \in Nat
      /\ f.more \in BOOLEAN
  BY FrameFields DEF User, LastTold
<1>6. ASSUME s # <<>> PROVE Precedes(s[l], f)
  <2>1. l \in 1 .. l /\ s[l] \in Frame
    BY <1>3, <1>4, <1>6
  <2>2. Placed(s, l, u.written) /\ ~IsDelimiter(s[l]) /\ GoesOn(s[l], u)
    BY <1>1, <1>6, <2>1 DEF Follows, Sequel
  <2>3. s[l].more => s[l].msg = u.written + 1
    <3>1. \A j \in l .. l : j = l
      BY <2>1
    <3> QED
      BY <1>1, <2>2, <3>1 DEF Placed
  <2> QED
    BY <1>5, <2>2, <2>3 DEF GoesOn, Precedes
<1>7. Sequel(t, v.written, FALSE)
  <2>1. Sequel(s, u.written, FALSE)
    BY DEF Follows
  <2> QED
    BY <1>1, <1>2, <1>5, <1>6, <2>1, SequelTold
<1>8. Precedes(last, t[1]) \/ (r /\ Skips(last, t[1]))
  <2>1. CASE s = <<>>
    <3>1. t[1] = f /\ ~last.more /\ u.parts = 0 /\ (r \/ last.msg = u.written)
      BY <1>3, <1>4, <2>1 DEF Follows
    <3>2. last.msg < f.msg
      BY <1>5
    <3> QED
      BY <1>5, <3>1, <3>2 DEF Precedes, Skips
  <2>2. CASE s # <<>>
    <3>1. t[1] = s[1]
      BY <1>3, <1>4, <2>2
    <3> QED
      BY <2>2, <3>1 DEF Follows
  <2> QED
    BY <2>1, <2>2
<1>9. GoesOn(f, v)
  BY <1>5 DEF GoesOn
<1>10. t # <<>>
  BY <1>3, EmptySeq
<1>11. (a = <<>> => ~last.more) /\ (a # <<>> => ~a[Len(a)].more)
  BY DEF Follows
<1> QED
  BY <1>2, <1>3, <1>7, <1>8, <1>9, <1>10, <1>11 DEF Follows

(* A rollback leaves whole messages. *)
LEMMA FollowsCut ==
  ASSUME NEW s \in Seq(Frame), NEW a \in Seq(Frame), NEW last \in LastTold,
         NEW u \in User, NEW v \in User, NEW r \in BOOLEAN, NEW d \in BOOLEAN,
         Follows(s, a, last, u, r, d), v.written = u.written, v.parts = 0,
         \A i \in 1 .. Len(a) : s[i] = a[i], NEW n \in Len(a) .. Len(s),
         n = Len(a) \/ ~s[n].more, \A i \in n + 1 .. Len(s) : s[i].more
  PROVE  /\ Follows(SubSeq(s, 1, n), a, last, v, r, d)
         /\ n # 0 => ~s[n].more
<1>1. PICK l \in Nat : l = Len(s)
  BY LenProperties
<1>2. PICK m \in Nat : m = Len(a)
  BY LenProperties
<1>3. n \in Nat /\ m <= n /\ n <= l /\ n \in 0 .. Len(s)
  BY <1>1, <1>2
<1>4. n # 0 => ~s[n].more
  <2>1. ASSUME n = m, n # 0 PROVE ~s[n].more
    <3>1. a # <<>> /\ m \in 1 .. m
      BY <1>2, <2>1, EmptySeq
    <3>2. ~a[m].more /\ s[m] = a[m]
      BY <1>2, <3>1 DEF Follows
    <3> QED
      BY <2>1, <3>2
  <2> QED
    BY <1>2, <2>1
<1>5. PICK t : t = SubSeq(s, 1, n)
  OBVIOUS
<1>6. t \in Seq(Frame) /\ Len(t) = n /\ \A i \in 1 .. n : t[i] = s[i]
  BY <1>3, <1>5, Cut
<1>7. Sequel(t, v.written, d)
  <2>1. Sequel(s, u.written, d) /\ u.written \in Nat
    BY DEF Follows, User
  <2> QED
    BY <1>3, <1>4, <1>5, <2>1, SequelCut
<1>8. u.written \in Nat /\ last.msg \in Nat /\ \A i \in 1 .. l : s[i].msg \in Nat
  BY <1>1, FrameFields DEF User, LastTold
<1>9. ASSUME t = <<>> PROVE r \/ last.msg = v.written
  <2>1. n = 0 /\ m = 0
    BY <1>3, <1>6, <1>9
  <2>2. CASE l = 0
    <3>1. s = <<>>
      BY <1>1, <2>2, EmptySeq
    <3> QED
      BY <3>1 DEF Follows
  <2>3. CASE l # 0
    <3>1. s # <<>> /\ 1 \in 1 .. l
      BY <1>1, <2>3, EmptySeq
    <3>2. \A j \in 1 .. l : s[j].more
      <4>1. 0 + 1 = 1
        OBVIOUS
      <4> QED
        BY <1>1, <2>1, <4>1
    <3>3. Placed(s, 1, u.written)
      BY <1>1, <3>1 DEF Follows, Sequel
    <3>4. s[1].msg = u.written + 1
      BY <1>1, <3>2, <3>3 DEF Placed
    <3>5. a = <<>>
      BY <1>2, <2>1, EmptySeq
    <3>6. ~last.more /\ (Precedes(last, s[1]) \/ r)
      BY <3>1, <3>5 DEF Follows
    <3> QED
      BY <1>8, <3>4, <3>6 DEF Precedes
  <2> QED
    BY <2>2, <2>3
<1>10. ASSUME t # <<>>
       PROVE  (Precedes(last, t[1]) \/ (r /\ Skips(last, t[1]))) /\ GoesOn(t[n], v)
  <2>1. n # 0 /\ n \in 1 .. n /\ 1 \in 1 .. n
    BY <1>3, <1>6, <1>10, EmptySeq
  <2>2. s # <<>> /\ t[1] = s[1] /\ t[n] = s[n] /\ ~s[n].more
    BY <1>1, <1>3, <1>4, <1>6, <2>1, EmptySeq
  <2>3. s[n].msg = u.written \/ IsDelimiter(s[n])
    <3>1. CASE n = l
      <4>1. GoesOn(s[n], u)
        BY <1>1, <2>2, <3>1 DEF Follows
      <4> QED
        BY <2>2, <4>1 DEF GoesOn
    <3>2. CASE n # l
      <4>1. n + 1 \in 1 .. l /\ n \in 1 .. l - 1 /\ n \in 1 .. l
        BY <1>3, <2>1, <3>2
      <4>2. s[n + 1].msg = u.written + 1
        <5>1. Placed(s, n + 1, u.written)
          BY <1>1, <4>1 DEF Follows, Sequel
        <5> QED
          BY <1>1, <5>1 DEF Placed
      <4>3. Precedes(s[n], s[n + 1])
        BY <1>1, <4>1 DEF Follows, Sequel
      <4> QED
        BY <1>8, <2>2, <4>1, <4>2, <4>3 DEF Precedes
    <3> QED
      BY <3>1, <3>2
  <2>4. GoesOn(s[n], v)
    BY <2>2, <2>3 DEF GoesOn
  <2> QED
    BY <2>2, <2>4 DEF Follows
<1>11. (a = <<>> => ~last.more) /\ (a # <<>> => ~a[Len(a)].more)
  BY DEF Follows
<1>12. Follows(t, a, last, v, r, d)
  BY <1>6, <1>7, <1>9, <1>10, <1>11 DEF Follows
<1> QED
  BY <1>4, <1>5, <1>12

(* The delimiter comes behind whole messages. *)
LEMMA FollowsDelimited ==
  ASSUME NEW s \in Seq(Frame), NEW a, NEW last \in LastTold, NEW u \in User,
         NEW r \in BOOLEAN, Follows(s, a, last, u, r, FALSE), s = <<>> => a = <<>>,
         last.msg <= u.written, u.parts = 0, s # <<>> => ~s[Len(s)].more,
         NEW f \in Frame, IsDelimiter(f), f.msg = u.written + 1, f.part = 1, ~f.more
  PROVE  Follows(Append(s, f), a, last, u, r, TRUE)
<1>1. PICK l \in Nat : l = Len(s)
  BY LenProperties
<1>2. PICK t : t = Append(s, f)
  OBVIOUS
<1>3. /\ t \in Seq(Frame) /\ Len(t) = l + 1 /\ t[l + 1] = f
      /\ \A i \in 1 .. l : t[i] = s[i] /\ s[i] \in Frame
  BY <1>1, <1>2, AppendProperties
<1>4. (s = <<>> => l = 0) /\ (s # <<>> => l # 0)
  BY <1>1, EmptySeq
<1>5. u.written \in Nat /\ last.msg \in Nat
  BY DEF User, LastTold
<1>6. ASSUME s # <<>> PROVE Precedes(s[l], f)
  <2>1. l \in 1 .. l /\ s[l] \in Frame
    BY <1>3, <1>4, <1>6
  <2>2. ~IsDelimiter(s[l]) /\ GoesOn(s[l], u) /\ ~s[l].more
    BY <1>1, <1>6, <2>1 DEF Follows, Sequel
  <2> QED
    BY <2>2 DEF GoesOn, Precedes
<1>7. Sequel(t, u.written, TRUE)
  <2>1. Sequel(s, u.written, FALSE) /\ ~IsCredential(f)
    BY FrameFields DEF Follows
  <2> QED
    BY <1>1, <1>2, <1>5, <1>6, <2>1, SequelTold
<1>8. Precedes(last, t[1]) \/ (r /\ Skips(last, t[1]))
  <2>1. CASE s = <<>>
    <3>1. t[1] = f /\ ~last.more /\ (r \/ last.msg = u.written)
      BY <1>3, <1>4, <2>1 DEF Follows
    <3>2. last.msg < f.msg
      BY <1>5
    <3> QED
      BY <1>5, <3>1, <3>2 DEF Precedes, Skips
  <2>2. CASE s # <<>>
    <3>1. t[1] = s[1]
      BY <1>3, <1>4, <2>2
    <3> QED
      BY <2>2, <3>1 DEF Follows
  <2> QED
    BY <2>1, <2>2
<1>9. GoesOn(f, u)
  BY DEF GoesOn
<1>10. t # <<>>
  BY <1>3, EmptySeq
<1>11. (a = <<>> => ~last.more) /\ (a # <<>> => ~a[Len(a)].more)
  BY DEF Follows
<1> QED
  BY <1>2, <1>3, <1>7, <1>8, <1>9, <1>10, <1>11 DEF Follows

(* The reader takes the first frame, unless it is the delimiter, which it  *)
(* finds behind the last message.                                          *)
LEMMA FollowsTaken ==
  ASSUME NEW s \in Seq(Frame), NEW a \in Seq(Frame), NEW last \in LastTold, NEW u \in User,
         NEW r \in BOOLEAN, NEW d \in BOOLEAN, Follows(s, a, last, u, r, d),
         last.msg <= u.written,
         a # <<>>, Len(a) <= Len(s), \A i \in 1 .. Len(a) : s[i] = a[i]
  PROVE  /\ s[1] = a[1] /\ (Precedes(last, s[1]) \/ (r /\ Skips(last, s[1])))
         /\ ~IsDelimiter(s[1]) =>
              LET next == [msg |-> s[1].msg, part |-> s[1].part, more |-> s[1].more]
              IN  Follows(Tail(s), Tail(a), next, u, r, d) /\ s[1].msg <= u.written
         /\ IsDelimiter(s[1]) /\ ~r => last.msg = u.written /\ ~last.more
<1>1. PICK l \in Nat : l = Len(s)
  BY LenProperties
<1>2. PICK m \in Nat : m = Len(a)
  BY LenProperties
<1>3. m # 0 /\ m <= l /\ l # 0 /\ 1 \in 1 .. m /\ 1 \in 1 .. l /\ m \in 1 .. m /\ m \in 1 .. l
  BY <1>1, <1>2, EmptySeq
<1>4. s # <<>>
  BY <1>1, <1>3
<1>5. s[1] = a[1] /\ ~a[m].more /\ s[m] = a[m] /\ s[1] \in Frame
  BY <1>1, <1>2, <1>3 DEF Follows
<1>6. Precedes(last, s[1]) \/ (r /\ Skips(last, s[1]))
  BY <1>4 DEF Follows
<1>7. u.written \in Nat /\ last.msg \in Nat /\ s[1].msg \in Nat
  BY <1>5, FrameFields DEF User, LastTold
<1>8. ASSUME IsDelimiter(s[1]), ~r PROVE last.msg = u.written /\ ~last.more
  <2>1. s[1].msg = u.written + 1
    BY <1>1, <1>3, <1>8 DEF Follows, Sequel
  <2> QED
    BY <1>6, <1>7, <1>8, <2>1 DEF Precedes
<1>9. ASSUME ~IsDelimiter(s[1])
      PROVE  LET next == [msg |-> s[1].msg, part |-> s[1].part, more |-> s[1].more]
             IN  Follows(Tail(s), Tail(a), next, u, r, d) /\ s[1].msg <= u.written
  <2>1. s[1].msg <= u.written
    <3>1. Placed(s, 1, u.written)
      BY <1>1, <1>3 DEF Follows, Sequel
    <3>2. ~ (\A j \in 1 .. l : s[j].more)
      BY <1>3, <1>5
    <3> QED
      BY <1>1, <1>9, <3>1, <3>2 DEF Placed
  <2>2. PICK next : next = [msg |-> s[1].msg, part |-> s[1].part, more |-> s[1].more]
    OBVIOUS
  <2>3. next.msg = s[1].msg /\ next.part = s[1].part /\ next.more = s[1].more
    BY <2>2
  <2>4. PICK t : t = Tail(s)
    OBVIOUS
  <2>5. PICK b : b = Tail(a)
    OBVIOUS
  <2>6. t \in Seq(Frame) /\ Len(t) = l - 1 /\ \A i \in 1 .. l - 1 : t[i] = s[i + 1]
    BY <1>1, <1>4, <2>4, HeadTailProperties
  <2>7. b \in Seq(Frame) /\ Len(b) = m - 1 /\ \A i \in 1 .. m - 1 : b[i] = a[i + 1]
    BY <1>2, <2>5, HeadTailProperties
  <2>8. Sequel(t, u.written, d)
    <3>1. Sequel(s, u.written, d)
      BY DEF Follows
    <3> QED
      BY <1>4, <1>7, <2>4, <3>1, SequelTail
  <2>9. ASSUME t = <<>> PROVE u.parts = 0 /\ next.msg = u.written
    <3>1. l = 1 /\ m = 1
      BY <1>3, <2>6, <2>9
    <3>2. GoesOn(s[1], u) /\ ~s[1].more
      BY <1>1, <1>4, <1>5, <3>1 DEF Follows
    <3> QED
      BY <1>9, <2>3, <3>2 DEF GoesOn
  <2>10. ASSUME t # <<>> PROVE Precedes(next, t[1]) /\ GoesOn(t[Len(t)], u)
    <3>1. l - 1 # 0 /\ l - 1 \in 1 .. l - 1 /\ 1 \in 1 .. l - 1 /\ (l - 1) + 1 = l /\ 1 + 1 = 2
      BY <1>3, <2>6, <2>10, EmptySeq
    <3>2. t[1] = s[2] /\ t[l - 1] = s[l]
      BY <2>6, <3>1
    <3>3. Precedes(s[1], s[2])
      BY <1>1, <3>1 DEF Follows, Sequel
    <3>4. GoesOn(s[l], u)
      BY <1>1, <1>4 DEF Follows
    <3> QED
      BY <2>3, <2>6, <3>2, <3>3, <3>4 DEF Precedes
  <2>11. b = <<>> => ~next.more
    BY <1>3, <1>5, <2>3, <2>7
  <2>12. b # <<>> => ~b[Len(b)].more
    <3>1. ASSUME b # <<>> PROVE ~b[m - 1].more
      <4>1. m - 1 \in 1 .. m - 1 /\ (m - 1) + 1 = m
        BY <1>3, <2>7, <3>1, EmptySeq
      <4> QED
        BY <1>5, <2>7, <4>1
    <3> QED
      BY <2>7, <3>1
  <2>13. Follows(t, b, next, u, r, d)
    BY <2>8, <2>9, <2>10, <2>11, <2>12 DEF Follows
  <2> QED
    BY <2>1, <2>2, <2>4, <2>5, <2>13
<1> QED
  BY <1>5, <1>6, <1>8, <1>9
-----------------------------------------------------------------------------
(* What a step leaves alone of the states and the users. *)

LEMMA StepPhase ==
  ASSUME HandshakeInv, NEW e \in End, Step(e)
  PROVE  /\ Waits(end'[e].state) => Waits(end[e].state)
         /\ end[e].state = "term_req_sent1" =>
              end'[e].state \notin Open /\ (finishing'[e] => finishing[e])
         /\ finishing'[peer(e)] = finishing[peer(e)]
<1>0. Typed /\ Handshake(e) /\ peer(e) \in End /\ peer(e) # e /\ end[e] \in Pipe
  BY EndsMeet, PipeFacts
<1> DEFINE Same == end'[e].state = end[e].state /\ UNCHANGED finishing
<1>1. Same => /\ Waits(end'[e].state) => Waits(end[e].state)
              /\ end[e].state = "term_req_sent1" =>
                   end'[e].state \notin Open /\ (finishing'[e] => finishing[e])
              /\ finishing'[peer(e)] = finishing[peer(e)]
  BY DEF Open
<1>2. ASSUME NEW a \in Int, NEW b \in Int, end' = [end EXCEPT ![e] = set_hwms(e, @, a, b)]
      PROVE  end'[e].state = end[e].state
  BY <1>0, <1>2 DEF set_hwms, Typed, TypeOK, Pipe
<1>3. ASSUME NEW kind \in Kind[e] \cup {"data"}, NEW more \in BOOLEAN, Write(e, kind, more)
      PROVE  Same
  BY <1>0, <1>3 DEF Write, Typed, TypeOK, Pipe
<1>4. CASE WriteFails(e) \/ rollback(e) \/ flush(e) \/ ReadEmpty(e) \/ hiccup(e)
  <2>1. CASE WriteFails(e) \/ rollback(e) \/ flush(e)
    <3>1. Same
      BY <1>0, <2>1 DEF WriteFails, rollback, flush, Typed, TypeOK, Pipe
    <3> QED
      BY <1>1, <3>1
  <2>2. CASE ReadEmpty(e) \/ hiccup(e)
    <3>1. Same
      BY <1>0, <2>2 DEF ReadEmpty, hiccup, Typed, TypeOK, Pipe
    <3> QED
      BY <1>1, <3>1
  <2> QED
    BY <1>4, <2>1, <2>2
<1>5. CASE ReadMessage(e)
  <2> DEFINE frame == In(e).avail[NextItem(In(e).avail)]
             p == IF frame.more \/ frame.kind = "identity" THEN end[e]
                  ELSE [end[e] EXCEPT !.msgs_read = @ + 1]
  <2>1. end' = [end EXCEPT ![e] = p] /\ UNCHANGED finishing
    BY <1>5 DEF ReadMessage
  <2>2. p.state = end[e].state
    BY <1>0 DEF Pipe
  <2> HIDE DEF p
  <2>3. Same
    BY <1>0, <2>1, <2>2 DEF Typed, TypeOK
  <2> QED
    BY <1>1, <2>3
<1>6. CASE ReadDelimiter(e)
  <2>1. /\ UNCHANGED finishing /\ end[e].state # "term_req_sent1"
        /\ end'[e].state \in {"delimiter_received", "term_ack_sent"}
    BY <1>0, <1>6 DEF ReadDelimiter, Readable, Typed, TypeOK, Pipe
  <2> QED
    BY <2>1 DEF Waits
<1>7. ASSUME NEW in \in NewHwm, NEW out \in NewHwm, ChangeHwms(e, in, out)
      PROVE  Same
  BY <1>0, <1>2, <1>7, SettingFacts DEF ChangeHwms
<1>8. CASE TerminateFinish(e)
  <2>1. /\ end'[e].state = end[e].state /\ finishing[e]
        /\ finishing'[peer(e)] = finishing[peer(e)]
    BY <1>0, <1>8 DEF TerminateFinish, Typed, TypeOK, Pipe
  <2> QED
    BY <2>1 DEF Open
<1>9. ASSUME NEW delay \in BOOLEAN, TerminateIgnored(e, delay)
      PROVE  Same
  BY <1>0, <1>9 DEF TerminateIgnored, Typed, TypeOK, Pipe
<1>10. ASSUME NEW delay \in BOOLEAN, TerminateRequest(e, delay) \/ TerminateWaiting(e, delay)
       PROVE  /\ Waits(end'[e].state) => Waits(end[e].state)
              /\ end[e].state # "term_req_sent1"
              /\ finishing'[peer(e)] = finishing[peer(e)]
  BY <1>0, <1>10 DEF TerminateRequest, TerminateWaiting, Waits, Typed, TypeOK, Pipe
<1>11. CASE terminate(e)
  BY <1>1, <1>9, <1>10, <1>11 DEF terminate
<1>12. CASE Process(e)
  <2>0. UNCHANGED finishing
    BY <1>12, ProcessTells
  <2>1. CASE process_pipe_hwm(e)
    <3>1. Head(cmds[e])[2] \in Int /\ Head(cmds[e])[3] \in Int
      BY <1>0, <2>1, ReceivedTyped, ProcessTells, <1>12 DEF process_pipe_hwm
    <3>2. Same
      BY <1>2, <2>0, <2>1, <3>1 DEF process_pipe_hwm
    <3> QED
      BY <1>1, <3>2
  <2>2. CASE process_activate_read(e) \/ process_activate_write(e) \/ process_hiccup(e)
    <3>1. Same
      BY <1>0, <2>0, <2>2 DEF process_activate_read, process_activate_write, process_hiccup,
                        Typed, TypeOK, Pipe
    <3> QED
      BY <1>1, <3>1
  <2>3. CASE process_pipe_term_ack(e)
    <3>1. end'[e].state = "deleted"
      BY <1>0, <2>3 DEF process_pipe_term_ack, Typed, TypeOK, Pipe
    <3> QED
      BY <2>0, <3>1 DEF Waits, Open
  <2>4. CASE process_pipe_term(e)
    <3>1. \/ end[e].state = "active"
          \/ end'[e].state \in {"term_req_sent2", "term_ack_sent"}
      BY <1>0, <2>4 DEF process_pipe_term, Typed, TypeOK, Pipe
    <3> QED
      BY <2>0, <3>1 DEF Waits, Open
  <2> QED
    BY <1>12, <2>1, <2>2, <2>3, <2>4 DEF Process
<1> HIDE DEF Same
<1> QED
  BY <1>1, <1>3, <1>4, <1>5, <1>6, <1>7, <1>8, <1>11, <1>12 DEF Step, Read

(* Only a read tells the user something, and only writing, rolling back    *)
(* and the delimiter change what it has written.                           *)
LEMMA StepUsers ==
  ASSUME HandshakeInv, NEW e \in End, Step(e)
  PROVE  /\ user'[peer(e)] = user[peer(e)]
         /\ user'[e].last # user[e].last => ReadMessage(e)
         /\ \/ user'[e].written = user[e].written /\ user'[e].parts = user[e].parts
            \/ user'[e].parts = 0
            \/ \E kind \in Kind[e] \cup {"data"}, more \in BOOLEAN : Write(e, kind, more)
         /\ used.hiccups \in Nat /\ used'.hiccups \in Nat /\ used'.hiccups >= used.hiccups
<1>0. /\ Typed /\ peer(e) \in End /\ peer(e) # e /\ user \in [End -> User] /\ user[e] \in User
      /\ used.hiccups \in Nat
  <2>1. Typed
    BY EndsMeet
  <2> QED
    BY <2>1, EndsMeet, PipeFacts, SettingFacts DEF Typed
<1>1. \A u : [user EXCEPT ![e] = u][peer(e)] = user[peer(e)] /\ [user EXCEPT ![e] = u][e] = u
  BY <1>0
<1>2. ASSUME NEW kind \in Kind[e] \cup {"data"}, NEW more \in BOOLEAN, Write(e, kind, more)
      PROVE  user'[peer(e)] = user[peer(e)] /\ user'[e].last = user[e].last /\ UNCHANGED used
  BY <1>0, <1>2 DEF Write, User
<1>3. CASE WriteFails(e) \/ flush(e) \/ ReadDelimiter(e) \/ ReadEmpty(e)
           \/ \E in, out \in NewHwm : ChangeHwms(e, in, out)
  <2>1. UNCHANGED user
    BY <1>3 DEF WriteFails, flush, ReadDelimiter, ReadEmpty, ChangeHwms
  <2>2. used'.hiccups = used.hiccups
    BY <1>0, <1>3 DEF WriteFails, flush, ReadDelimiter, ReadEmpty, ChangeHwms, Typed, TypeOK
  <2> QED
    BY <1>0, <2>1, <2>2
<1>4. CASE rollback(e) \/ TerminateFinish(e)
  BY <1>0, <1>4 DEF rollback, TerminateFinish, User
<1>5. CASE ReadMessage(e)
  <2>1. UNCHANGED used /\ \E last : user' = [user EXCEPT ![e].last = last]
    BY <1>5 DEF ReadMessage
  <2>2. PICK last : user' = [user EXCEPT ![e].last = last]
    BY <2>1
  <2>3. /\ user'[e].written = user[e].written /\ user'[e].parts = user[e].parts
        /\ user'[peer(e)] = user[peer(e)]
    BY <1>0, <2>2 DEF User
  <2> QED
    BY <1>0, <1>5, <2>1, <2>3
<1>6. CASE hiccup(e)
  <2>1. used'.hiccups = used.hiccups + 1 /\ UNCHANGED user
    BY <1>0, <1>6 DEF hiccup, Typed, TypeOK
  <2> QED
    BY <1>0, <2>1
<1>7. CASE terminate(e)
  BY <1>0, <1>7 DEF terminate, TerminateIgnored, TerminateRequest, TerminateWaiting, Terminates,
                    User
<1>8. CASE Process(e)
  <2>1. UNCHANGED <<user, used>>
    BY <1>8, ProcessTells DEF Process, process_activate_read, process_activate_write,
       process_hiccup, process_pipe_hwm, process_pipe_term, process_pipe_term_ack
  <2> QED
    BY <1>0, <2>1
<1> QED
  BY <1>0, <1>2, <1>3, <1>4, <1>5, <1>6, <1>7, <1>8 DEF Step, Read

(* While an end reads, its peer has an outpipe. *)
LEMMA ReadersMeet ==
  ASSUME HandshakeInv, NEW f \in End, Waits(end[peer(f)].state)
  PROVE  /\ end[f].outpipe # NULL /\ end[f].outpipe \in Ypipe /\ Out(f) \in Upipe
         /\ end[peer(f)].inpipe # NULL /\ end[peer(f)].inpipe \in Ypipe
         /\ end[f].state \in Open \cup {"term_req_sent1"}
         /\ user[f] \in User /\ user[peer(f)].last \in LastTold
<1>1. Typed /\ Handshake(f) /\ Handshake(peer(f)) /\ peer(f) \in End
  BY EndsMeet
<1>2. end[f].state \in Open \cup {"term_req_sent1"}
  BY <1>1 DEF Handshake, Meet, Open, Acked, Asked, Waits
<1>3. end[f].outpipe # NULL /\ end[peer(f)].inpipe # NULL
  BY <1>1, <1>2, EndsMeet DEF Handshake, Open, Acked, Waits
<1>4. end[f].outpipe \in Ypipe /\ end[peer(f)].inpipe \in Ypipe /\ Out(f) \in Upipe
  BY <1>1, <1>3, PipeFacts DEF Out
<1>5. user[f] \in User /\ user[peer(f)] \in User
  BY <1>1, PipeFacts
<1>6. user[peer(f)].last \in LastTold
  BY <1>5 DEF User, LastTold
<1> QED
  BY <1>2, <1>3, <1>4, <1>5, <1>6

LEMMA ReadersMeetAfter ==
  ASSUME HandshakeInv', NEW f \in End, Waits(end'[peer(f)].state)
  PROVE  /\ end'[f].outpipe # NULL /\ end'[peer(f)].inpipe # NULL
         /\ end'[f].state \in Open \cup {"term_req_sent1"}
<1>1. Handshake(f)' /\ Handshake(peer(f))' /\ peer(f) \in End
  BY Peers DEF HandshakeInv
<1>2. end'[f].state \in Open \cup {"term_req_sent1"}
  BY <1>1 DEF Handshake, Meet, Open, Acked, Asked, Waits
<1> QED
  BY <1>1, <1>2, Peers DEF Handshake, Open, Acked, Waits

LEMMA StreamMeans ==
  ASSUME NEW f \in End, Stream(f), Waits(end[peer(f)].state)
  PROVE  /\ user[peer(f)].last.msg <= user[f].written
         /\ IF end[f].outpipe = end[peer(f)].inpipe
            THEN Follows(Frames(Out(f)), Out(f).avail, user[peer(f)].last, user[f],
                         used.hiccups > 0, Delimited(f))
            ELSE ~user[peer(f)].last.more
BY LineFollows DEF Stream, Waits

LEMMA StreamAfter ==
  ASSUME NEW f \in End,
         Waits(end'[peer(f)].state) =>
           /\ user'[peer(f)].last.msg <= user'[f].written
           /\ IF end'[f].outpipe = end'[peer(f)].inpipe
              THEN Follows(Frames(Out(f)'), Out(f)'.avail, user'[peer(f)].last, user'[f],
                           used'.hiccups > 0, Delimited(f)')
              ELSE ~user'[peer(f)].last.more
  PROVE  Stream(f)'
<1>1. Waits(end'[peer(f)].state) /\ end'[f].outpipe = end'[peer(f)].inpipe =>
        Line(Out(f)', user'[peer(f)].last, user'[f], used'.hiccups > 0, Delimited(f)')
  BY LineFollows
<1> QED
  BY <1>1 DEF Stream, Waits

(* The direction of a writer that a step leaves alone. *)
LEMMA StreamUntouched ==
  ASSUME HandshakeInv, HandshakeInv', Ownership, NEW f \in End, Stream(f),
         Waits(end'[peer(f)].state) => Waits(end[peer(f)].state),
         \A y \in Conduit(f) : ypipe'[y].avail = ypipe[y].avail /\ ypipe'[y].held = ypipe[y].held,
         end'[f].outpipe \in {end[f].outpipe, NULL},
         end'[peer(f)].inpipe \in {end[peer(f)].inpipe, NULL},
         user'[f].written = user[f].written, user'[f].parts = user[f].parts,
         user'[peer(f)].last = user[peer(f)].last,
         used.hiccups \in Nat, used'.hiccups \in Nat, used'.hiccups >= used.hiccups,
         end[f].state = "term_req_sent1" =>
           end'[f].state \notin Open /\ (finishing'[f] => finishing[f])
  PROVE  Stream(f)'
<1> SUFFICES ASSUME Waits(end'[peer(f)].state)
             PROVE  /\ user'[peer(f)].last.msg <= user'[f].written
                    /\ IF end'[f].outpipe = end'[peer(f)].inpipe
                       THEN Follows(Frames(Out(f)'), Out(f)'.avail, user'[peer(f)].last, user'[f],
                                    used'.hiccups > 0, Delimited(f)')
                       ELSE ~user'[peer(f)].last.more
  BY StreamAfter
<1>1. Waits(end[peer(f)].state)
  OBVIOUS
<1>2. /\ end'[f].outpipe = end[f].outpipe /\ end'[peer(f)].inpipe = end[peer(f)].inpipe
      /\ end'[f].state \in Open \cup {"term_req_sent1"} /\ end[f].outpipe # NULL
  BY ReadersMeetAfter
<1>3. user'[peer(f)].last.msg <= user'[f].written
  BY <1>1, StreamMeans
<1>4. CASE end[f].outpipe = end[peer(f)].inpipe
  <2>1. Follows(Frames(Out(f)), Out(f).avail, user[peer(f)].last, user[f],
                used.hiccups > 0, Delimited(f))
    BY <1>1, <1>4, StreamMeans
  <2>2. end[f].outpipe \in Conduit(f)
    BY <1>2, ConduitFacts
  <2>3. Out(f)'.avail = Out(f).avail /\ Out(f)'.held = Out(f).held
    BY <1>2, <2>2 DEF Out
  <2>4. Frames(Out(f)') = Frames(Out(f))
    BY <2>3 DEF Frames
  <2>5. (used.hiccups > 0) => (used'.hiccups > 0)
    OBVIOUS
  <2>6. Delimited(f) => Delimited(f)'
    BY <1>2 DEF Delimited
  <2>7. Follows(Frames(Out(f)), Out(f).avail, user[peer(f)].last, user'[f],
                used'.hiccups > 0, Delimited(f)')
    <3>1. PICK v : v = user'[f]
      OBVIOUS
    <3>2. PICK u : u = user[f]
      OBVIOUS
    <3>3. PICK r1, r2 : r1 = (used.hiccups > 0) /\ r2 = (used'.hiccups > 0)
      OBVIOUS
    <3>4. PICK d1, d2 : d1 = Delimited(f) /\ d2 = Delimited(f)'
      OBVIOUS
    <3>5. PICK s, a, last : s = Frames(Out(f)) /\ a = Out(f).avail /\ last = user[peer(f)].last
      OBVIOUS
    <3>6. Follows(s, a, last, u, r1, d1)
      BY <2>1, <3>2, <3>3, <3>4, <3>5
    <3>7. v.written = u.written /\ v.parts = u.parts
      BY <3>1, <3>2
    <3>8. (r1 => r2) /\ (d1 => d2)
      BY <2>5, <2>6, <3>3, <3>4
    <3>9. Follows(s, a, last, v, r2, d2)
      BY <3>6, <3>7, <3>8, FollowsSame
    <3> QED
      BY <3>1, <3>3, <3>4, <3>5, <3>9
  <2> QED
    BY <1>2, <1>3, <1>4, <2>3, <2>4, <2>7
<1>5. CASE end[f].outpipe # end[peer(f)].inpipe
  BY <1>1, <1>2, <1>3, <1>5, StreamMeans
<1> QED
  BY <1>4, <1>5

(* The writer changes what is in its ypipe, and what it has written. *)
LEMMA StreamWritten ==
  ASSUME HandshakeInv, NEW e \in End, Stream(e),
         end[e].outpipe # NULL, NEW q \in Upipe, ypipe' = [ypipe EXCEPT ![end[e].outpipe] = q],
         end'[e].outpipe = end[e].outpipe, end'[peer(e)] = end[peer(e)],
         user'[peer(e)] = user[peer(e)], used'.hiccups = used.hiccups,
         user[e].written \in Nat, user'[e].written \in Nat, user[e].written <= user'[e].written,
         /\ Waits(end[peer(e)].state) /\ user[peer(e)].last.msg <= user[e].written
         /\ Follows(Frames(Out(e)), Out(e).avail, user[peer(e)].last, user[e],
                    used.hiccups > 0, Delimited(e))
         => Follows(Frames(q), q.avail, user[peer(e)].last, user'[e],
                    used.hiccups > 0, Delimited(e)')
  PROVE  Stream(e)'
<1> SUFFICES ASSUME Waits(end'[peer(e)].state)
             PROVE  /\ user'[peer(e)].last.msg <= user'[e].written
                    /\ IF end'[e].outpipe = end'[peer(e)].inpipe
                       THEN Follows(Frames(Out(e)'), Out(e)'.avail, user'[peer(e)].last, user'[e],
                                    used'.hiccups > 0, Delimited(e)')
                       ELSE ~user'[peer(e)].last.more
  BY StreamAfter
<1>1. Waits(end[peer(e)].state)
  OBVIOUS
<1>2. user[peer(e)].last.msg <= user[e].written /\ user[peer(e)].last \in LastTold
  BY <1>1, StreamMeans, ReadersMeet
<1>3. user'[peer(e)].last.msg <= user'[e].written
  <2>1. user[peer(e)].last.msg \in Nat
    BY <1>2 DEF LastTold
  <2> QED
    BY <1>2, <2>1
<1>4. Out(e)' = q
  <2>1. Typed /\ end[e].outpipe \in Ypipe
    BY <1>1, EndsMeet, ReadersMeet
  <2> QED
    BY <2>1, UpipeUpdated DEF Out
<1>5. CASE end[e].outpipe = end[peer(e)].inpipe
  <2>1. Follows(Frames(Out(e)), Out(e).avail, user[peer(e)].last, user[e],
                used.hiccups > 0, Delimited(e))
    BY <1>1, <1>5, StreamMeans
  <2> QED
    BY <1>1, <1>2, <1>3, <1>4, <1>5, <2>1
<1>6. CASE end[e].outpipe # end[peer(e)].inpipe
  BY <1>1, <1>3, <1>6, StreamMeans
<1> QED
  BY <1>5, <1>6

(* The reader takes from its ypipe, which its writer need not have yet. *)
LEMMA StreamRead ==
  ASSUME HandshakeInv, NEW e \in End, NEW p \in End, p = peer(e), Stream(p),
         Waits(end'[e].state) => Waits(end[e].state),
         end[e].inpipe # NULL, NEW q \in Upipe, ypipe' = [ypipe EXCEPT ![end[e].inpipe] = q],
         end'[p] = end[p], end'[e].inpipe = end[e].inpipe, finishing'[p] = finishing[p],
         user'[p] = user[p], used'.hiccups = used.hiccups,
         /\ Waits(end'[e].state) /\ Waits(end[e].state) /\ end[p].outpipe = end[e].inpipe
         /\ user[e].last.msg <= user[p].written
         /\ Follows(Frames(In(e)), In(e).avail, user[e].last, user[p],
                    used.hiccups > 0, Delimited(p))
         => /\ Follows(Frames(q), q.avail, user'[e].last, user[p], used.hiccups > 0, Delimited(p))
            /\ user'[e].last.msg <= user[p].written,
         Waits(end[e].state) /\ end[p].outpipe # end[e].inpipe => user'[e].last = user[e].last
  PROVE  Stream(p)'
<1>0. peer(p) = e /\ Typed /\ end[e].inpipe \in Ypipe
  BY EndsMeet, PipeFacts
<1> SUFFICES ASSUME Waits(end'[e].state)
             PROVE  /\ user'[e].last.msg <= user'[p].written
                    /\ IF end'[p].outpipe = end'[e].inpipe
                       THEN Follows(Frames(Out(p)'), Out(p)'.avail, user'[e].last, user'[p],
                                    used'.hiccups > 0, Delimited(p)')
                       ELSE ~user'[e].last.more
  BY <1>0, StreamAfter
<1>1. Waits(end[e].state) /\ user[e].last.msg <= user[p].written
  BY <1>0, StreamMeans
<1>2. CASE end[p].outpipe = end[e].inpipe
  <2>1. Follows(Frames(Out(p)), Out(p).avail, user[e].last, user[p],
                used.hiccups > 0, Delimited(p))
    BY <1>0, <1>1, <1>2, StreamMeans
  <2>2. Out(p) = In(e) /\ Out(p)' = q
    <3>1. ypipe'[end[e].inpipe] = q
      BY <1>0, UpipeUpdated
    <3> QED
      BY <1>2, <3>1 DEF Out, In
  <2>3. Delimited(p)' <=> Delimited(p)
    BY DEF Delimited
  <2>4. /\ Follows(Frames(q), q.avail, user'[e].last, user[p], used.hiccups > 0, Delimited(p))
        /\ user'[e].last.msg <= user[p].written
    BY <1>1, <1>2, <2>1, <2>2
  <2>5. Follows(Frames(q), q.avail, user'[e].last, user[p], used.hiccups > 0, Delimited(p)')
    BY <2>3, <2>4, FollowsSame
  <2> QED
    BY <1>2, <2>2, <2>4, <2>5
<1>3. CASE end[p].outpipe # end[e].inpipe
  BY <1>0, <1>1, <1>3, StreamMeans
<1> QED
  BY <1>2, <1>3

(* A step that makes and passes on no ypipe, seen from the direction of    *)
(* which it changes nothing.                                               *)
LEMMA StepStreamKept ==
  ASSUME HandshakeInv, HandshakeInv', Ownership, NEW e \in End, Step(e),
         ~hiccup(e), ~process_hiccup(e), ~process_pipe_term_ack(e),
         NEW f \in End, Stream(f),
         \A y \in Conduit(f) : ypipe'[y].avail = ypipe[y].avail /\ ypipe'[y].held = ypipe[y].held,
         f = e => user'[e].written = user[e].written /\ user'[e].parts = user[e].parts,
         f # e => user'[e].last = user[e].last
  PROVE  Stream(f)'
<1>0. Typed /\ peer(e) \in End /\ peer(e) # e /\ peer(peer(e)) = e
  BY EndsMeet
<1>1. /\ used.hiccups \in Nat /\ used'.hiccups \in Nat /\ used'.hiccups >= used.hiccups
      /\ user'[peer(e)] = user[peer(e)]
  BY StepUsers
<1>2. /\ Waits(end'[e].state) => Waits(end[e].state)
      /\ end[e].state = "term_req_sent1" =>
           end'[e].state \notin Open /\ (finishing'[e] => finishing[e])
      /\ finishing'[peer(e)] = finishing[peer(e)]
  BY StepPhase
<1>3. /\ end'[peer(e)] = end[peer(e)] /\ end'[e].inpipe = end[e].inpipe
      /\ end'[e].outpipe \in {end[e].outpipe, NULL}
  BY StepRenewals
<1>4. CASE f = e
  BY <1>0, <1>1, <1>2, <1>3, <1>4, StreamUntouched
<1>5. CASE f = peer(e)
  <2>1. end[f].state = "term_req_sent1" => end'[f].state \notin Open
    BY <1>3, <1>5 DEF Open
  <2> QED
    BY <1>0, <1>1, <1>2, <1>3, <1>5, <2>1, StreamUntouched
<1> QED
  BY <1>4, <1>5, Peers

LEMMA QuietStreams ==
  ASSUME HandshakeInv, HandshakeInv', Ownership, \A f \in End : Stream(f), NEW e \in End, Step(e),
         ~hiccup(e), ~process_hiccup(e), ~process_pipe_term_ack(e), UNCHANGED ypipe,
         user'[e].written = user[e].written, user'[e].parts = user[e].parts,
         user'[e].last = user[e].last
  PROVE  \A f \in End : Stream(f)'
BY StepStreamKept

LEMMA WriterStreams ==
  ASSUME HandshakeInv, HandshakeInv', Ownership, \A f \in End : Stream(f), NEW e \in End, Step(e),
         ~hiccup(e), ~Process(e),
         end[e].outpipe # NULL, NEW q \in Upipe, ypipe' = [ypipe EXCEPT ![end[e].outpipe] = q],
         end'[e].outpipe = end[e].outpipe, used' = used,
         user'[e].last = user[e].last, user[e].written <= user'[e].written,
         /\ Waits(end[peer(e)].state) /\ user[peer(e)].last.msg <= user[e].written
         /\ Follows(Frames(Out(e)), Out(e).avail, user[peer(e)].last, user[e],
                    used.hiccups > 0, Delimited(e))
         => Follows(Frames(q), q.avail, user[peer(e)].last, user'[e],
                    used.hiccups > 0, Delimited(e)')
  PROVE  \A f \in End : Stream(f)'
<1> DEFINE p == peer(e)
<1>0. /\ Typed /\ p \in End /\ p # e /\ peer(p) = e /\ end[e].outpipe \in Ypipe
      /\ ~process_hiccup(e) /\ ~process_pipe_term_ack(e)
      /\ end'[p] = end[p] /\ user'[p] = user[p]
  BY EndsMeet, PipeFacts, StepShape, StepUsers DEF Process
<1>1. user[e].written \in Nat /\ user'[e].written \in Nat
  BY PipeFacts, <1>0 DEF HandshakeInv, Typed, User
<1>2. Stream(e)'
  BY <1>0, <1>1, StreamWritten
<1>3. \A y \in Conduit(p) : ypipe'[y] = ypipe[y]
  <2>1. end[e].outpipe \in Conduit(e) /\ Conduit(e) \cap Conduit(p) = {} /\ Conduit(p) \subseteq Ypipe
    BY <1>0, ConduitFacts
  <2> QED
    BY <1>0, <2>1, UpipeUpdated
<1>4. Stream(p)'
  BY <1>0, <1>3, StepStreamKept
<1> QED
  BY <1>2, <1>4, Peers

LEMMA ReaderStreams ==
  ASSUME HandshakeInv, HandshakeInv', Ownership, \A f \in End : Stream(f), NEW e \in End, Step(e),
         ~hiccup(e), ~Process(e), NEW p \in End, p = peer(e),
         end[e].inpipe # NULL, NEW q \in Upipe, ypipe' = [ypipe EXCEPT ![end[e].inpipe] = q],
         used' = used, user'[e].written = user[e].written, user'[e].parts = user[e].parts,
         /\ Waits(end'[e].state) /\ Waits(end[e].state) /\ end[p].outpipe = end[e].inpipe
         /\ user[e].last.msg <= user[p].written
         /\ Follows(Frames(In(e)), In(e).avail, user[e].last, user[p],
                    used.hiccups > 0, Delimited(p))
         => /\ Follows(Frames(q), q.avail, user'[e].last, user[p], used.hiccups > 0, Delimited(p))
            /\ user'[e].last.msg <= user[p].written,
         Waits(end[e].state) /\ end[p].outpipe # end[e].inpipe => user'[e].last = user[e].last
  PROVE  \A f \in End : Stream(f)'
<1>0. /\ Typed /\ p # e /\ peer(p) = e /\ end[e].inpipe \in Ypipe
      /\ ~process_hiccup(e) /\ ~process_pipe_term_ack(e)
      /\ end'[p] = end[p] /\ user'[p] = user[p]
  BY EndsMeet, PipeFacts, StepShape, StepUsers DEF Process
<1>1. Stream(p)'
  <2>1. /\ Waits(end'[e].state) => Waits(end[e].state)
        /\ finishing'[p] = finishing[p] /\ end'[e].inpipe = end[e].inpipe
    BY <1>0, StepPhase, StepRenewals
  <2> QED
    BY <1>0, <2>1, StreamRead
<1>2. \A y \in Conduit(e) : ypipe'[y] = ypipe[y]
  <2>1. end[e].inpipe \in Conduit(p) /\ Conduit(e) \cap Conduit(p) = {} /\ Conduit(e) \subseteq Ypipe
    BY <1>0, ConduitFacts
  <2> QED
    BY <1>0, <2>1, UpipeUpdated
<1>3. Stream(e)'
  BY <1>0, <1>2, StepStreamKept
<1> QED
  BY <1>1, <1>3, Peers

-----------------------------------------------------------------------------
(* The calls of a user. *)

LEMMA NothingFlushed ==
  ASSUME NEW q \in Upipe
  PROVE  Frames(q) = <<>> => q.avail = <<>>
<1>1. PICK s : s = q.avail
  OBVIOUS
<1>2. s \in Seq(Frame) /\ Len(s) \in Nat /\ Len(q.held) \in Nat
      /\ Len(Frames(q)) = Len(s) + Len(q.held)
  BY <1>1, FramesFacts
<1>3. Frames(q) = <<>> => Len(s) = 0
  BY <1>2
<1> QED
  BY <1>1, <1>2, <1>3, EmptySeq

LEMMA WriteStreams ==
  ASSUME HandshakeInv, HandshakeInv', Ownership, KeepsOrder(setting), \A f \in End : Stream(f),
         NEW e \in End, Step(e), ~hiccup(e), ~Process(e),
         NEW kind \in Kind[e] \cup {"data"}, NEW more \in BOOLEAN, Write(e, kind, more)
  PROVE  \A f \in End : Stream(f)'
<1> DEFINE frame == [msg |-> user[e].written + 1, part |-> user[e].parts + 1,
                     more |-> more, kind |-> kind]
           q == [Out(e) EXCEPT !.held = Append(@, frame)]
<1>0. /\ Typed /\ Handshake(e) /\ end[e] \in Pipe /\ user[e] \in User /\ user'[e] \in User
  <2>1. Typed /\ Typed'
    BY DEF HandshakeInv
  <2> QED
    BY <2>1, EndsMeet, PipeFacts DEF Typed
<1>1. end[e].outpipe # NULL /\ end[e].outpipe \in Ypipe /\ Out(e) \in Upipe
  <2>1. end[e].outpipe # NULL
    BY <1>0 DEF Write, CanWrite, Handshake, Acked
  <2> QED
    BY <1>0, <2>1, PipeFacts DEF Out
<1>2. /\ frame \in Frame /\ ~IsCredential(frame) /\ ~IsDelimiter(frame)
      /\ frame.msg = user[e].written + 1 /\ frame.part = user[e].parts + 1 /\ frame.more = more
  <2>1. kind \in {"data", "identity"}
    BY <1>0, SettingFacts DEF KeepsOrder, Kind
  <2> QED
    BY <1>0, <2>1 DEF Frame, User, IsCredential, IsDelimiter
<1>3. /\ ypipe' = [ypipe EXCEPT ![end[e].outpipe] = q]
      /\ end[e].state = "active" /\ end'[e].outpipe = end[e].outpipe
      /\ end'[e].state = "active" /\ UNCHANGED used
  BY <1>0, <1>1 DEF Write, CanWrite, Out, Typed, TypeOK, Pipe
<1>4. /\ user'[e].written = IF more THEN user[e].written ELSE user[e].written + 1
      /\ user'[e].parts = IF more THEN user[e].parts + 1 ELSE 0
      /\ user'[e].last = user[e].last
  BY <1>0 DEF Write, Typed, User
<1>5. user[e].written <= user'[e].written
  BY <1>0, <1>4 DEF User
<1> HIDE DEF frame
<1>6. q \in Upipe /\ q.avail = Out(e).avail /\ Frames(q) = Append(Frames(Out(e)), frame)
  BY <1>1, <1>2, UpipeTypes, FramesWritten
<1> HIDE DEF q
<1>7. ASSUME Waits(end[peer(e)].state), user[peer(e)].last.msg <= user[e].written,
             Follows(Frames(Out(e)), Out(e).avail, user[peer(e)].last, user[e],
                     used.hiccups > 0, Delimited(e))
      PROVE  Follows(Frames(q), q.avail, user[peer(e)].last, user'[e],
                     used.hiccups > 0, Delimited(e)')
  <2>1. PICK s, a, last : s = Frames(Out(e)) /\ a = Out(e).avail /\ last = user[peer(e)].last
    OBVIOUS
  <2>2. PICK r : r = (used.hiccups > 0)
    OBVIOUS
  <2>3. PICK u, v : u = user[e] /\ v = user'[e]
    OBVIOUS
  <2>4. s \in Seq(Frame) /\ (s = <<>> => a = <<>>) /\ last \in LastTold /\ r \in BOOLEAN
    <3>1. s \in Seq(Frame) /\ (s = <<>> => a = <<>>)
      BY <1>1, <2>1, FramesFacts, NothingFlushed
    <3>2. last \in LastTold
      BY <1>7, <2>1, ReadersMeet
    <3> QED
      BY <2>2, <3>1, <3>2
  <2>5. Delimited(e) = FALSE /\ Delimited(e)' = FALSE
    BY <1>3 DEF Delimited
  <2>6. Follows(s, a, last, u, r, FALSE)
    BY <1>7, <2>1, <2>2, <2>3, <2>5
  <2>7. /\ u \in User /\ v \in User /\ last.msg <= u.written
        /\ frame.msg = u.written + 1 /\ frame.part = u.parts + 1
        /\ v.written = IF frame.more THEN u.written ELSE u.written + 1
        /\ v.parts = IF frame.more THEN u.parts + 1 ELSE 0
    BY <1>0, <1>2, <1>4, <1>7, <2>1, <2>3
  <2>8. Follows(Append(s, frame), a, last, v, r, FALSE)
    BY <1>2, <2>4, <2>6, <2>7, FollowsTold
  <2> QED
    BY <1>6, <2>1, <2>2, <2>3, <2>5, <2>8
<1> QED
  BY <1>1, <1>3, <1>4, <1>5, <1>6, <1>7, WriterStreams

(* A ypipe that is rolled back. *)
LEMMA RolledBackFollows ==
  ASSUME NEW q \in Upipe, NEW last \in LastTold, NEW u \in User, NEW v \in User,
         NEW r \in BOOLEAN, NEW d \in BOOLEAN,
         Follows(Frames(q), q.avail, last, u, r, d), v.written = u.written, v.parts = 0
  PROVE  LET b == RolledBack(q)
         IN  /\ Follows(Frames(b), b.avail, last, v, r, d)
             /\ Frames(b) # <<>> => ~Frames(b)[Len(Frames(b))].more
<1>1. PICK s, a, b : s = Frames(q) /\ a = q.avail /\ b = RolledBack(q)
  OBVIOUS
<1>2. s \in Seq(Frame) /\ a \in Seq(Frame) /\ \A i \in 1 .. Len(a) : s[i] = a[i]
  BY <1>1, FramesFacts
<1>3. PICK n \in Len(a) .. Len(s) :
        /\ Frames(b) = SubSeq(s, 1, n) /\ (n = Len(a) \/ ~s[n].more)
        /\ \A i \in n + 1 .. Len(s) : s[i].more
  BY <1>1, FramesRolledBack
<1>4. b.avail = a
  BY <1>1, FramesRolledBack
<1>5. Follows(SubSeq(s, 1, n), a, last, v, r, d) /\ (n # 0 => ~s[n].more)
  <2>1. Follows(s, a, last, u, r, d)
    BY <1>1
  <2>2. n = Len(a) \/ ~s[n].more
    BY <1>3
  <2>3. \A i \in n + 1 .. Len(s) : s[i].more
    BY <1>3
  <2> QED
    BY SMTT(30), <1>2, <2>1, <2>2, <2>3, FollowsCut
<1>6. Frames(b) # <<>> => ~Frames(b)[Len(Frames(b))].more
  <2>1. PICK t : t = SubSeq(s, 1, n)
    OBVIOUS
  <2>2. n \in 0 .. Len(s) /\ n \in Nat
    BY <1>2, LenProperties
  <2>3. t \in Seq(Frame) /\ Len(t) = n /\ \A i \in 1 .. n : t[i] = s[i]
    BY <1>2, <2>1, <2>2, Cut
  <2>4. t # <<>> => n # 0 /\ n \in 1 .. n
    BY <2>2, <2>3, EmptySeq
  <2> QED
    BY <1>3, <1>5, <2>1, <2>3, <2>4
<1> QED
  BY <1>1, <1>3, <1>4, <1>5, <1>6

LEMMA rollbackStreams ==
  ASSUME HandshakeInv, HandshakeInv', Ownership, \A f \in End : Stream(f),
         NEW e \in End, Step(e), ~hiccup(e), ~Process(e), rollback(e)
  PROVE  \A f \in End : Stream(f)'
<1>0. /\ Typed /\ Handshake(e) /\ end[e] \in Pipe /\ user[e] \in User /\ user'[e] \in User
      /\ peer(e) \in End /\ peer(peer(e)) = e /\ peer(e) # e
  <2>1. Typed /\ Typed'
    BY DEF HandshakeInv
  <2> QED
    BY <2>1, EndsMeet, PipeFacts DEF Typed
<1>1. /\ UNCHANGED <<end, finishing, used>>
      /\ user'[e].written = user[e].written /\ user'[e].parts = 0 /\ user'[e].last = user[e].last
  BY <1>0 DEF rollback, Typed, User
<1>2. CASE end[e].outpipe = NULL
  <2>1. UNCHANGED ypipe /\ ~process_hiccup(e) /\ ~process_pipe_term_ack(e)
    BY <1>2 DEF rollback, Process
  <2>2. ~Waits(end'[peer(e)].state)
    BY <1>1, <1>2, ReadersMeet
  <2>3. Stream(e)'
    BY <2>2, StreamAfter
  <2>4. Stream(peer(e))'
    BY <1>0, <1>1, <2>1, StepStreamKept
  <2> QED
    BY <2>3, <2>4, Peers
<1>3. CASE end[e].outpipe # NULL
  <2>1. Out(e) \in Upipe /\ ypipe' = [ypipe EXCEPT ![end[e].outpipe] = RolledBack(Out(e))]
    BY <1>0, <1>3, PipeFacts DEF rollback, Out
  <2>2. PICK q : q = RolledBack(Out(e))
    OBVIOUS
  <2>3. q \in Upipe /\ q.avail = Out(e).avail
    BY <2>1, <2>2, UpipeTypes, FramesRolledBack
  <2>4. ASSUME Waits(end[peer(e)].state),
               Follows(Frames(Out(e)), Out(e).avail, user[peer(e)].last, user[e],
                       used.hiccups > 0, Delimited(e))
        PROVE  Follows(Frames(q), q.avail, user[peer(e)].last, user'[e],
                       used.hiccups > 0, Delimited(e)')
    <3>1. Delimited(e)' = Delimited(e)
      BY <1>1 DEF Delimited
    <3>2. Follows(Frames(q), q.avail, user[peer(e)].last, user'[e], used.hiccups > 0, Delimited(e))
      <4>1. PICK r, d : r = (used.hiccups > 0) /\ d = Delimited(e)
        OBVIOUS
      <4>2. PICK o, last : o = Out(e) /\ last = user[peer(e)].last
        OBVIOUS
      <4>3. PICK u, v : u = user[e] /\ v = user'[e]
        OBVIOUS
      <4>4. r \in BOOLEAN /\ d \in BOOLEAN
        BY <1>0, <4>1 DEF Delimited, Typed, TypeOK
      <4>5. last \in LastTold
        BY <2>4, <4>2, ReadersMeet
      <4>6. Follows(Frames(o), o.avail, last, u, r, d)
        BY <2>4, <4>1, <4>2, <4>3
      <4>7. o \in Upipe /\ u \in User /\ v \in User /\ v.written = u.written /\ v.parts = 0
        BY <1>0, <1>1, <2>1, <4>2, <4>3
      <4>8. q = RolledBack(o)
        BY <2>2, <4>2
      <4>9. Follows(Frames(q), q.avail, last, v, r, d)
        BY <4>4, <4>5, <4>6, <4>7, <4>8, RolledBackFollows
      <4> QED
        BY <4>1, <4>2, <4>3, <4>9
    <3> QED
      BY <3>1, <3>2
  <2>5. user[e].written <= user'[e].written
    BY <1>0, <1>1 DEF User
  <2> QED
    BY <1>1, <1>3, <2>1, <2>2, <2>3, <2>4, <2>5, WriterStreams
<1> QED
  BY <1>2, <1>3

LEMMA flushStreams ==
  ASSUME HandshakeInv, HandshakeInv', Ownership, \A f \in End : Stream(f),
         NEW e \in End, Step(e), ~hiccup(e), ~Process(e), flush(e)
  PROVE  \A f \in End : Stream(f)'
<1>0. /\ Typed /\ user[e] \in User
  BY EndsMeet, PipeFacts
<1>1. /\ UNCHANGED <<end, finishing, used, user>> /\ end[e].outpipe # NULL
  BY DEF flush
<1>2. Out(e) \in Upipe /\ ypipe' = [ypipe EXCEPT ![end[e].outpipe] = Flushed(Out(e))]
  BY <1>0, <1>1, PipeFacts DEF flush, Out
<1>3. PICK q : q = Flushed(Out(e))
  OBVIOUS
<1>4. /\ q \in Upipe /\ Frames(q) = Frames(Out(e))
      /\ q.avail = Out(e).avail \/ (q.avail # <<>> /\ ~q.avail[Len(q.avail)].more)
  BY <1>2, <1>3, UpipeTypes, FramesFlushed
<1>5. ASSUME Follows(Frames(Out(e)), Out(e).avail, user[peer(e)].last, user[e],
                     used.hiccups > 0, Delimited(e))
      PROVE  Follows(Frames(q), q.avail, user[peer(e)].last, user'[e],
                     used.hiccups > 0, Delimited(e)')
  <2>1. Delimited(e)' = Delimited(e) /\ user'[e] = user[e]
    BY <1>1 DEF Delimited
  <2>2. Follows(Frames(Out(e)), q.avail, user[peer(e)].last, user[e],
                used.hiccups > 0, Delimited(e))
    BY <1>4, <1>5, FollowsFlushed
  <2> QED
    BY <1>4, <2>1, <2>2
<1>6. user[e].written <= user'[e].written
  BY <1>0, <1>1 DEF User
<1> QED
  BY <1>1, <1>2, <1>3, <1>4, <1>5, <1>6, WriterStreams

LEMMA TerminateFinishStreams ==
  ASSUME HandshakeInv, HandshakeInv', Ownership, \A f \in End : Stream(f),
         NEW e \in End, Step(e), ~hiccup(e), ~Process(e), TerminateFinish(e)
  PROVE  \A f \in End : Stream(f)'
<1>0. /\ Typed /\ Handshake(e) /\ end[e] \in Pipe /\ user[e] \in User /\ user'[e] \in User
  <2>1. Typed /\ Typed'
    BY DEF HandshakeInv
  <2> QED
    BY <2>1, EndsMeet, PipeFacts DEF Typed
<1>1. PICK b : b = RolledBack(Out(e))
  OBVIOUS
<1>2. PICK f : f = Delimiter(e)
  OBVIOUS
<1>3. PICK t : t = [b EXCEPT !.held = Append(@, f)]
  OBVIOUS
<1>4. PICK q : q = Flushed(t)
  OBVIOUS
<1>5. /\ finishing[e] /\ finishing'[e] = FALSE /\ ypipe' = [ypipe EXCEPT ![end[e].outpipe] = q]
      /\ end'[e].outpipe = end[e].outpipe /\ end'[e].state = end[e].state /\ UNCHANGED used
      /\ user'[e].written = user[e].written /\ user'[e].parts = 0 /\ user'[e].last = user[e].last
  <2>1. finishing[e] /\ finishing'[e] = FALSE /\ UNCHANGED used
    BY <1>0 DEF TerminateFinish, Typed, TypeOK
  <2>2. ypipe' = [ypipe EXCEPT ![end[e].outpipe] = q]
    BY <1>1, <1>2, <1>3, <1>4 DEF TerminateFinish
  <2>3. end'[e].outpipe = end[e].outpipe /\ end'[e].state = end[e].state
    BY <1>0 DEF TerminateFinish, Typed, TypeOK, Pipe
  <2>4. /\ user'[e].written = user[e].written /\ user'[e].parts = 0
        /\ user'[e].last = user[e].last
    BY <1>0 DEF TerminateFinish, Typed, User
  <2> QED
    BY <2>1, <2>2, <2>3, <2>4
<1>6. end[e].outpipe # NULL /\ Out(e) \in Upipe
  <2>1. end[e].outpipe # NULL
    BY <1>0, <1>5 DEF Handshake, Acked
  <2> QED
    BY <1>0, <2>1, PipeFacts DEF Out
<1>7. /\ f \in Frame /\ IsDelimiter(f) /\ f.msg = user[e].written + 1 /\ f.part = 1 /\ ~f.more
  BY <1>0, <1>2 DEF Delimiter, Frame, User, IsDelimiter
<1>8. b \in Upipe /\ t \in Upipe /\ q \in Upipe
  <2>1. b \in Upipe
    BY <1>1, <1>6, UpipeTypes
  <2>2. t \in Upipe
    BY <1>3, <1>7, <2>1, UpipeTypes
  <2> QED
    BY <1>4, <2>1, <2>2, UpipeTypes
<1>9. /\ t.avail = b.avail /\ Frames(t) = Append(Frames(b), f)
      /\ Frames(q) = Frames(t)
      /\ q.avail = t.avail \/ (q.avail # <<>> /\ ~q.avail[Len(q.avail)].more)
  <2>1. t.avail = b.avail /\ Frames(t) = Append(Frames(b), f)
    BY <1>3, <1>7, <1>8, FramesWritten
  <2> QED
    BY <1>4, <1>8, <2>1, FramesFlushed
<1>10. ASSUME Waits(end[peer(e)].state), user[peer(e)].last.msg <= user[e].written,
              Follows(Frames(Out(e)), Out(e).avail, user[peer(e)].last, user[e],
                      used.hiccups > 0, Delimited(e))
       PROVE  Follows(Frames(q), q.avail, user[peer(e)].last, user'[e],
                      used.hiccups > 0, Delimited(e)')
  <2>1. Delimited(e) = FALSE
    BY <1>5 DEF Delimited
  <2>2. Delimited(e)' = TRUE
    <3>1. end[e].state \in Open \cup {"term_req_sent1"}
      BY <1>10, ReadersMeet
    <3>2. end[e].state = "term_req_sent1"
      BY <1>0, <1>5, <3>1 DEF Handshake, Open
    <3> QED
      BY <1>5, <3>2 DEF Delimited
  <2>3. PICK r : r = (used.hiccups > 0)
    OBVIOUS
  <2>4. PICK o, last : o = Out(e) /\ last = user[peer(e)].last
    OBVIOUS
  <2>5. PICK u, v : u = user[e] /\ v = user'[e]
    OBVIOUS
  <2>6. last \in LastTold
    BY <1>10, <2>4, ReadersMeet
  <2>7. /\ o \in Upipe /\ u \in User /\ v \in User /\ v.written = u.written /\ v.parts = 0
        /\ b = RolledBack(o) /\ r \in BOOLEAN /\ last.msg <= v.written
        /\ f.msg = v.written + 1
    BY <1>0, <1>1, <1>5, <1>6, <1>7, <1>10, <2>3, <2>4, <2>5
  <2>8. Follows(Frames(o), o.avail, last, u, r, FALSE)
    BY <1>10, <2>1, <2>3, <2>4, <2>5
  <2>9. /\ Follows(Frames(b), b.avail, last, v, r, FALSE)
        /\ Frames(b) # <<>> => ~Frames(b)[Len(Frames(b))].more
    BY <2>6, <2>7, <2>8, RolledBackFollows
  <2>10. PICK s, a : s = Frames(b) /\ a = b.avail
    OBVIOUS
  <2>11. s \in Seq(Frame) /\ (s = <<>> => a = <<>>)
    BY <1>8, <2>10, FramesFacts, NothingFlushed
  <2>12. Follows(Append(s, f), a, last, v, r, TRUE)
    BY <1>7, <2>6, <2>7, <2>9, <2>10, <2>11, FollowsDelimited
  <2>13. Follows(Frames(q), q.avail, last, v, r, TRUE)
    BY <1>9, <2>10, <2>12, FollowsFlushed
  <2> QED
    BY <2>2, <2>3, <2>4, <2>5, <2>13
<1>11. user[e].written <= user'[e].written
  BY <1>0, <1>5 DEF User
<1> QED
  BY <1>5, <1>6, <1>8, <1>10, <1>11, WriterStreams

(* A reader that waits for something finds the next frame of its peer, or  *)
(* has a ypipe that its peer does not know of yet, which is empty.         *)
LEMMA ItemFollows ==
  ASSUME HandshakeInv, Ownership, \A f \in End : Filled(f) /\ Stream(f),
         NEW e \in End, NEW p \in End, p = peer(e), Waits(end[e].state), NextItem(In(e).avail) # 0
  PROVE  /\ NextItem(In(e).avail) = 1 /\ In(e).avail # <<>> /\ In(e) \in Upipe
         /\ end[p].outpipe = end[e].inpipe
         /\ user[e].last \in LastTold /\ user[p] \in User /\ user[e].last.msg <= user[p].written
         /\ Follows(Frames(In(e)), In(e).avail, user[e].last, user[p],
                    used.hiccups > 0, Delimited(p))
<1>0. Typed /\ peer(p) = e /\ Ascending(cmds[p])
  BY EndsMeet DEF Ownership, Succession
<1>1. /\ end[p].outpipe # NULL /\ end[e].inpipe # NULL /\ end[e].inpipe \in Ypipe
      /\ user[p] \in User /\ user[e].last \in LastTold
  BY <1>0, ReadersMeet
<1>2. PICK a : a = In(e).avail
  OBVIOUS
<1>3. In(e) \in Upipe /\ a \in Seq(Frame)
  BY <1>0, <1>1, <1>2, PipeFacts DEF In, Upipe
<1>4. PICK n : n = NextItem(a)
  OBVIOUS
<1>5. n \in 1 .. Len(a) /\ Len(a) \in Nat /\ \A i \in 1 .. n - 1 : IsCredential(a[i])
  BY <1>2, <1>3, <1>4, FirstItem
<1>6. a # <<>>
  BY <1>5
<1>7. end[p].outpipe = end[e].inpipe
  <2>1. end[e].inpipe \in {end[p].outpipe} \cup Renewals(cmds[p])
    BY <1>0, <1>1 DEF Ownership, Succession
  <2>2. \A y \in Renewals(cmds[p]) : ypipe[y].avail = <<>>
    BY DEF Filled, Empty
  <2> QED
    BY <1>2, <1>6, <2>1, <2>2 DEF In
<1>8. In(e) = Out(p)
  BY <1>7 DEF In, Out
<1>9. /\ user[e].last.msg <= user[p].written
      /\ Follows(Frames(In(e)), a, user[e].last, user[p], used.hiccups > 0, Delimited(p))
  BY <1>0, <1>2, <1>7, <1>8, StreamMeans
<1>10. n = 1
  <2>1. PICK s : s = Frames(In(e))
    OBVIOUS
  <2>2. s \in Seq(Frame) /\ Len(a) <= Len(s) /\ Len(s) \in Nat /\ \A i \in 1 .. Len(a) : s[i] = a[i]
    <3>1. /\ s \in Seq(Frame) /\ Len(s) = Len(a) + Len(In(e).held) /\ Len(In(e).held) \in Nat
          /\ \A i \in 1 .. Len(a) : s[i] = a[i]
      BY <1>2, <1>3, <2>1, FramesFacts
    <3> QED
      BY <1>5, <3>1
  <2>3. 1 \in 1 .. Len(a) /\ 1 \in 1 .. Len(s)
    BY <1>5, <2>2
  <2>4. ~IsCredential(s[1])
    BY <1>9, <2>1, <2>3 DEF Follows, Sequel
  <2>5. ~IsCredential(a[1])
    BY <2>2, <2>3, <2>4
  <2>6. ~(1 \in 1 .. n - 1)
    BY <1>5, <2>5
  <2> QED
    BY <1>5, <2>6
<1> QED
  BY <1>1, <1>2, <1>3, <1>4, <1>6, <1>7, <1>9, <1>10

(* What the reader takes. *)
LEMMA ItemTaken ==
  ASSUME NEW q \in Upipe, q.avail # <<>>, NEW last \in LastTold, NEW u \in User,
         NEW r \in BOOLEAN, NEW d \in BOOLEAN, last.msg <= u.written,
         Follows(Frames(q), q.avail, last, u, r, d),
         NEW f, f = q.avail[1]
  PROVE  /\ Precedes(last, f) \/ (r /\ Skips(last, f))
         /\ ~IsDelimiter(f) =>
              LET next == [msg |-> f.msg, part |-> f.part, more |-> f.more]
              IN  /\ Follows(Frames(Drained(q, 1)), Drained(q, 1).avail, next, u, r, d)
                  /\ f.msg <= u.written
         /\ IsDelimiter(f) /\ ~r => last.msg = u.written /\ ~last.more
<1>1. PICK s, a : s = Frames(q) /\ a = q.avail
  OBVIOUS
<1>2. /\ s \in Seq(Frame) /\ a \in Seq(Frame) /\ Len(s) = Len(a) + Len(q.held)
      /\ Len(a) \in Nat /\ Len(q.held) \in Nat /\ \A i \in 1 .. Len(a) : s[i] = a[i]
  BY <1>1, FramesFacts
<1>3. Len(a) <= Len(s)
  BY <1>2
<1>4. a # <<>> /\ Follows(s, a, last, u, r, d) /\ f = a[1]
  BY <1>1
<1>5. /\ s[1] = f /\ (Precedes(last, f) \/ (r /\ Skips(last, f)))
      /\ ~IsDelimiter(f) =>
           LET next == [msg |-> f.msg, part |-> f.part, more |-> f.more]
           IN  Follows(Tail(s), Tail(a), next, u, r, d) /\ f.msg <= u.written
      /\ IsDelimiter(f) /\ ~r => last.msg = u.written /\ ~last.more
  BY <1>2, <1>3, <1>4, FollowsTaken
<1>6. Frames(Drained(q, 1)) = Tail(s) /\ Drained(q, 1).avail = Tail(a)
  BY <1>1, FramesDrained
<1> QED
  BY <1>5, <1>6

LEMMA ReadMessageStreams ==
  ASSUME HandshakeInv, HandshakeInv', Ownership, \A f \in End : Filled(f) /\ Stream(f),
         NEW e \in End, Step(e), ~hiccup(e), ~Process(e), ReadMessage(e)
  PROVE  /\ \A f \in End : Stream(f)'
         /\ \/ Precedes(user[e].last, user'[e].last)
            \/ used.hiccups > 0 /\ Skips(user[e].last, user'[e].last)
<1> DEFINE p == peer(e)
           f == In(e).avail[1]
           q == Drained(In(e), 1)
           next == [msg |-> f.msg, part |-> f.part, more |-> f.more]
<1>0. Typed /\ p \in End /\ user[e] \in User /\ user \in [End -> User]
  BY EndsMeet, PipeFacts DEF Typed
<1>1. /\ NextItem(In(e).avail) # 0 /\ Readable(e) /\ UNCHANGED used
      /\ Waits(end[e].state)
  BY DEF ReadMessage, Readable, Waits
<1>2. /\ NextItem(In(e).avail) = 1 /\ In(e).avail # <<>> /\ In(e) \in Upipe
      /\ end[p].outpipe = end[e].inpipe
      /\ user[e].last \in LastTold /\ user[p] \in User /\ user[e].last.msg <= user[p].written
      /\ Follows(Frames(In(e)), In(e).avail, user[e].last, user[p],
                 used.hiccups > 0, Delimited(p))
  BY <1>0, <1>1, ItemFollows
<1>3. /\ ypipe' = [ypipe EXCEPT ![end[e].inpipe] = q] /\ ~IsDelimiter(f)
      /\ user' = [user EXCEPT ![e].last = next]
  BY <1>2 DEF ReadMessage, In
<1>4. /\ user'[e].last = next /\ user'[e].written = user[e].written
      /\ user'[e].parts = user[e].parts
  BY <1>0, <1>3 DEF User
<1>5. q \in Upipe /\ f.msg = next.msg /\ f.part = next.part /\ f.more = next.more
  <2>1. 1 \in 0 .. Len(In(e).avail)
    <3>1. In(e).avail \in Seq(Frame)
      BY <1>2 DEF Upipe
    <3> QED
      BY <1>2, <3>1, LastFrame
  <2> QED
    BY <1>2, <2>1, UpipeTypes
<1>6. end[e].inpipe # NULL
  BY <1>1, RunsFacts DEF Readable, Runs
<1>7. /\ Precedes(user[e].last, f) \/ (used.hiccups > 0 /\ Skips(user[e].last, f))
      /\ Follows(Frames(q), q.avail, next, user[p], used.hiccups > 0, Delimited(p))
      /\ f.msg <= user[p].written
  <2>1. PICK r, d : r = (used.hiccups > 0) /\ d = Delimited(p)
    OBVIOUS
  <2>2. PICK last, u : last = user[e].last /\ u = user[p]
    OBVIOUS
  <2>3. r \in BOOLEAN /\ d \in BOOLEAN
    BY <1>0, <2>1 DEF Delimited, Typed, TypeOK
  <2>4. /\ Follows(Frames(In(e)), In(e).avail, last, u, r, d)
        /\ last \in LastTold /\ u \in User /\ last.msg <= u.written
    BY <1>2, <2>1, <2>2
  <2>5. PICK o, g : o = In(e) /\ g = f
    OBVIOUS
  <2>6. o \in Upipe /\ o.avail # <<>> /\ g = o.avail[1] /\ ~IsDelimiter(g)
        /\ Follows(Frames(o), o.avail, last, u, r, d)
    BY <1>2, <1>3, <2>4, <2>5
  <2>7. /\ Precedes(last, g) \/ (r /\ Skips(last, g))
        /\ Follows(Frames(Drained(o, 1)), Drained(o, 1).avail,
                   [msg |-> g.msg, part |-> g.part, more |-> g.more], u, r, d)
        /\ g.msg <= u.written
    BY <2>3, <2>4, <2>6, ItemTaken
  <2> QED
    BY <2>1, <2>2, <2>5, <2>7
<1>8. Precedes(user[e].last, next) \/ (used.hiccups > 0 /\ Skips(user[e].last, next))
  BY <1>5, <1>7 DEF Precedes, Skips
<1>9. user'[e].last.msg <= user[p].written
  BY <1>4, <1>5, <1>7
<1> HIDE DEF p, f, q, next
<1>10. \A g \in End : Stream(g)'
  BY <1>0, <1>1, <1>2, <1>3, <1>4, <1>5, <1>6, <1>7, <1>9, ReaderStreams DEF p
<1> QED
  BY <1>4, <1>8, <1>10

LEMMA ReadDelimiterStreams ==
  ASSUME HandshakeInv, HandshakeInv', Ownership, \A f \in End : Stream(f),
         NEW e \in End, Step(e), ~hiccup(e), ~Process(e), ReadDelimiter(e)
  PROVE  \A f \in End : Stream(f)'
<1> DEFINE n == NextItem(In(e).avail)
           q == Drained(In(e), n)
<1>0. Typed /\ end[e] \in Pipe /\ peer(e) \in End /\ user' = user /\ used' = used
  BY EndsMeet, PipeFacts DEF ReadDelimiter
<1>1. /\ ypipe' = [ypipe EXCEPT ![end[e].inpipe] = q] /\ n # 0 /\ Readable(e)
  BY DEF ReadDelimiter, In
<1>2. end[e].inpipe # NULL
  BY <1>1, RunsFacts DEF Readable, Runs
<1>3. q \in Upipe
  BY <1>0, <1>1, <1>2, ItemTyped
<1>4. ~Waits(end'[e].state)
  BY <1>0 DEF ReadDelimiter, Waits, Typed, TypeOK, Pipe
<1> HIDE DEF q
<1> QED
  BY <1>0, <1>1, <1>2, <1>3, <1>4, ReaderStreams

LEMMA ReadEmptyStreams ==
  ASSUME HandshakeInv, HandshakeInv', Ownership, \A f \in End : Stream(f),
         NEW e \in End, Step(e), ~hiccup(e), ~Process(e), ReadEmpty(e)
  PROVE  \A f \in End : Stream(f)'
<1> DEFINE p == peer(e)
           q == FoundEmpty(In(e))
<1>0. Typed /\ p \in End /\ user' = user /\ used' = used
  BY EndsMeet DEF ReadEmpty
<1>1. /\ ypipe' = [ypipe EXCEPT ![end[e].inpipe] = q] /\ Readable(e)
      /\ \A i \in DOMAIN In(e).avail : IsCredential(In(e).avail[i])
  BY DEF ReadEmpty, In
<1>2. end[e].inpipe # NULL /\ In(e) \in Upipe
  BY <1>0, <1>1, RunsFacts, PipeFacts DEF Readable, Runs, In
<1>3. q \in Upipe
  BY <1>2, UpipeTypes
<1>4. PICK a, s : a = In(e).avail /\ s = Frames(In(e))
  OBVIOUS
<1>5. /\ a \in Seq(Frame) /\ s \in Seq(Frame) /\ Len(s) = Len(a) + Len(In(e).held)
      /\ Len(a) \in Nat /\ Len(In(e).held) \in Nat /\ \A i \in 1 .. Len(a) : s[i] = a[i]
  BY <1>2, <1>4, FramesFacts
<1>6. ASSUME Follows(s, a, user[e].last, user[p], used.hiccups > 0, Delimited(p))
      PROVE  Follows(Frames(q), q.avail, user[e].last, user[p], used.hiccups > 0, Delimited(p))
  <2>1. a = <<>>
    <3>1. SUFFICES ASSUME a # <<>> PROVE FALSE
      OBVIOUS
    <3>2. 1 \in 1 .. Len(a)
      BY <1>5, <3>1, LastFrame
    <3>3. 1 \in 1 .. Len(s)
      BY <1>5, <3>2
    <3>4. IsCredential(a[1])
      BY <1>1, <1>4, <1>5, <3>2
    <3>5. ~IsCredential(s[1])
      BY <1>6, <3>3 DEF Follows, Sequel
    <3> QED
      BY <1>5, <3>2, <3>4, <3>5
  <2>2. q.avail = a /\ q.held = In(e).held
    BY <1>2, <2>1 DEF FoundEmpty, Upipe
  <2>3. Frames(q) = s
    BY <1>4, <2>2 DEF Frames
  <2> QED
    BY <1>6, <2>2, <2>3
<1> HIDE DEF p, q
<1> QED
  BY <1>0, <1>1, <1>2, <1>3, <1>4, <1>6, ReaderStreams DEF p

LEMMA UserStreams ==
  ASSUME HandshakeInv, HandshakeInv', Ownership, KeepsOrder(setting),
         \A f \in End : Filled(f) /\ Stream(f),
         NEW e \in End, Step(e), ~hiccup(e), ~Process(e)
  PROVE  \A f \in End : Stream(f)'
<1>0. /\ Typed /\ user \in [End -> User] /\ user[e] \in User
      /\ ~process_hiccup(e) /\ ~process_pipe_term_ack(e)
  BY EndsMeet, PipeFacts DEF Typed, Process
<1>1. CASE WriteFails(e) \/ \E in, out \in NewHwm : ChangeHwms(e, in, out)
  <2>1. UNCHANGED <<ypipe, user>>
    BY <1>1 DEF WriteFails, ChangeHwms
  <2> QED
    BY <1>0, <2>1, QuietStreams
<1>2. CASE terminate(e)
  <2>1. UNCHANGED ypipe /\ user' = [user EXCEPT ![e].terms = @ + 1]
    BY <1>2 DEF terminate, TerminateIgnored, TerminateRequest, TerminateWaiting, Terminates
  <2>2. /\ user'[e].written = user[e].written /\ user'[e].parts = user[e].parts
        /\ user'[e].last = user[e].last
    BY <1>0, <2>1 DEF User
  <2> QED
    BY <1>0, <2>1, <2>2, QuietStreams
<1> QED
  BY <1>1, <1>2, WriteStreams, rollbackStreams, flushStreams, ReadMessageStreams,
     ReadDelimiterStreams, ReadEmptyStreams, TerminateFinishStreams DEF Step, Read
-----------------------------------------------------------------------------
(* The hiccup and the commands. *)

(* The reader changes to a ypipe that the writer does not know of yet. *)
LEMMA HiccupStreams ==
  ASSUME HandshakeInv, HandshakeInv', Ownership, \A f \in End : Stream(f),
         NEW e \in End, Step(e), hiccup(e)
  PROVE  \A f \in End : Stream(f)'
<1> DEFINE p == peer(e)
           new == 3 + used.hiccups
<1>0. /\ Typed /\ p \in End /\ p # e /\ peer(p) = e /\ end'[p] = end[p] /\ end[e] \in Pipe
      /\ user'[p] = user[p] /\ used'.hiccups \in Nat
  BY EndsMeet, StepShape, StepUsers, PipeFacts
<1>1. /\ ypipe' = [ypipe EXCEPT ![new] = NewYpipe] /\ UNCHANGED <<user, finishing>>
      /\ end' = [end EXCEPT ![e].inpipe = new, ![e].in_active = TRUE]
      /\ used.hiccups < MaxHiccup /\ used' = [used EXCEPT !.hiccups = @ + 1]
      /\ end[e].state = "active" /\ ~user[e].last.more
  BY DEF hiccup
<1>2. /\ used.hiccups \in Nat /\ used'.hiccups >= used.hiccups
      /\ new \in Ypipe /\ new \in Int /\ Ypipe \subseteq Int /\ NULL \notin Ypipe
  <2>1. /\ MaxHiccup \in Nat /\ used.hiccups \in 0 .. MaxHiccup /\ Ypipe = 1 .. 2 + MaxHiccup
        /\ NULL \notin Ypipe
    BY <1>0, SettingFacts
  <2>2. used'.hiccups = used.hiccups + 1
    BY <1>0, <1>1 DEF Typed, TypeOK
  <2> QED
    BY <1>1, <2>1, <2>2
<1>3. /\ \A y \in Ypipe : y # new => ypipe'[y] = ypipe[y]
      /\ end'[e].state = end[e].state /\ end'[e].outpipe = end[e].outpipe
      /\ end'[e].inpipe = new
  BY <1>0, <1>1, <1>2 DEF Typed, TypeOK, Pipe
<1> HIDE DEF p
<1>4. \A f \in End : /\ Conduit(f) \subseteq Ypipe
                     /\ end[f].outpipe # NULL => end[f].outpipe \in Conduit(f)
                     /\ \A y \in Conduit(f) : y <= 2 + used.hiccups
  BY ConduitFacts
<1>5. \A f \in End : \A y \in Conduit(f) : y \in Ypipe /\ y # new
  <2>1. \A f \in End : \A y \in Conduit(f) : y \in Int /\ y \in Ypipe /\ y <= 2 + used.hiccups
    BY <1>2, <1>4
  <2> QED
    BY <1>2, <2>1
<1>6. \A f \in End : \A y \in Conduit(f) : ypipe'[y] = ypipe[y]
  BY <1>3, <1>5
<1> HIDE DEF new
<1>7. Stream(e)'
  <2>1. /\ end'[e].outpipe \in {end[e].outpipe, NULL}
        /\ end'[peer(e)].inpipe \in {end[peer(e)].inpipe, NULL}
        /\ Waits(end'[peer(e)].state) => Waits(end[peer(e)].state)
        /\ user'[peer(e)].last = user[peer(e)].last
    BY <1>0, <1>3 DEF p
  <2>2. end[e].state = "term_req_sent1" =>
           end'[e].state \notin Open /\ (finishing'[e] => finishing[e])
    BY <1>1
  <2> QED
    BY <1>0, <1>1, <1>2, <1>6, <2>1, <2>2, StreamUntouched
<1>8. Stream(p)'
  <2>1. user[e].last.msg <= user[p].written
    BY <1>0, <1>1, StreamMeans DEF Waits
  <2>2. end'[p].outpipe # end'[e].inpipe
    BY <1>0, <1>2, <1>3, <1>4, <1>5
  <2>3. user'[e].last.msg <= user'[p].written /\ ~user'[e].last.more
    BY <1>1, <2>1
  <2> QED
    BY <1>0, <2>2, <2>3, StreamAfter
<1> QED
  BY <1>7, <1>8, Peers DEF p

(* The writer goes on to the next ypipe, which may still not be the one    *)
(* that its peer reads.                                                    *)
LEMMA HiccupTakenStreams ==
  ASSUME HandshakeInv, HandshakeInv', Ownership, \A f \in End : Filled(f) /\ Stream(f),
         NEW e \in End, Step(e), process_hiccup(e),
         MayHiccup # {} => user[e].parts = 0, used.hiccups = 0 => Renewals(cmds[e]) = {}
  PROVE  \A f \in End : Stream(f)'
<1> DEFINE p == peer(e)
           old == end[e].outpipe
           new == Head(cmds[e])[2]
<1>0. /\ Typed /\ Handshake(e) /\ p \in End /\ p # e /\ peer(p) = e /\ end'[p] = end[p]
      /\ cmds[e] \in Seq(Command) /\ Ascending(cmds[e]) /\ end[e] \in Pipe
  BY EndsMeet, StepShape, PipeFacts DEF Ownership, Succession
<1>1. /\ Process(e) /\ Head(cmds[e])[1] = "hiccup" /\ cmds[e] # <<>>
      /\ ypipe' = [ypipe EXCEPT ![old].status = "freed"] /\ UNCHANGED <<user, used, finishing>>
  BY DEF process_hiccup, Process, Receives
<1>2. new \in Renewals(cmds[e])
  BY <1>0, <1>1, RenewalsTaken
<1>3. old # NULL /\ old \in Ypipe
  <2>1. Has(cmds[e], "hiccup")
    BY <1>0, <1>1, HasTaken
  <2>2. old # NULL
    BY <1>0, <2>1 DEF Handshake, Open, Acked
  <2> QED
    BY <1>0, <2>2, PipeFacts
<1>4. /\ end'[e].outpipe = new /\ end'[e].inpipe = end[e].inpipe /\ end'[e].state = end[e].state
  BY <1>0 DEF process_hiccup, Typed, TypeOK, Pipe
<1>5. /\ Conduit(p) \subseteq Ypipe /\ Conduit(e) \subseteq Ypipe
      /\ Renewals(cmds[e]) \subseteq Conduit(e) /\ old \in Conduit(e)
      /\ Conduit(e) \cap Conduit(p) = {}
      /\ Ypipe \subseteq Int
  <2>1. Ypipe \subseteq Int
    BY SMTT(30), <1>0, SettingFacts
  <2> QED
    BY <1>0, <1>3, <2>1, ConduitFacts
<1>6. \A y \in Ypipe : y # old => ypipe'[y] = ypipe[y]
  BY <1>0, <1>1 DEF Typed, TypeOK
<1>7. used.hiccups > 0 /\ user[e].parts = 0 /\ Empty(ypipe[new]) /\ used.hiccups \in Nat
  <2>1. p \in MayHiccup /\ Empty(ypipe[new])
    BY <1>2 DEF Filled
  <2>2. used.hiccups \in Nat /\ used.hiccups # 0
    BY <1>2, StepUsers
  <2> QED
    BY <2>1, <2>2
<1> HIDE DEF p, old, new
<1>8. old < new /\ new # old /\ old # end[p].inpipe
  <2>1. old < new /\ new <= end[p].inpipe /\ end[p].inpipe \in {old} \cup Renewals(cmds[e])
    BY <1>2, <1>3 DEF Ownership, Succession, p, old
  <2>2. old \in Int /\ new \in Int /\ end[p].inpipe \in Int
    BY <1>2, <1>3, <1>5, <2>1
  <2> QED
    BY <2>1, <2>2
<1>9. Stream(p)'
  <2>1. \A y \in Conduit(p) : ypipe'[y] = ypipe[y]
    BY <1>5, <1>6
  <2>2. /\ end'[p].outpipe \in {end[p].outpipe, NULL}
        /\ end'[peer(p)].inpipe \in {end[peer(p)].inpipe, NULL}
        /\ Waits(end'[peer(p)].state) => Waits(end[peer(p)].state)
    BY <1>0, <1>4
  <2>3. end[p].state = "term_req_sent1" =>
           end'[p].state \notin Open /\ (finishing'[p] => finishing[p])
    BY <1>0, <1>1 DEF Open
  <2>4. used'.hiccups \in Nat /\ used'.hiccups >= used.hiccups
    BY <1>1, <1>7
  <2> QED
    BY <1>0, <1>1, <1>7, <2>1, <2>2, <2>3, <2>4, StreamUntouched
<1>10. Stream(e)'
  <2> SUFFICES ASSUME Waits(end'[p].state)
               PROVE  /\ user'[p].last.msg <= user'[e].written
                      /\ IF end'[e].outpipe = end'[p].inpipe
                         THEN Follows(Frames(Out(e)'), Out(e)'.avail, user'[p].last, user'[e],
                                      used'.hiccups > 0, Delimited(e)')
                         ELSE ~user'[p].last.more
    BY StreamAfter DEF p
  <2>1. user[p].last.msg <= user[e].written /\ ~user[p].last.more
    BY <1>0, <1>8, StreamMeans DEF p, old
  <2>2. CASE new = end[p].inpipe
    <3>1. Out(e)' = ypipe[new]
      BY <1>2, <1>4, <1>5, <1>6, <1>8 DEF Out
    <3>2. Out(e)'.avail = <<>> /\ Frames(Out(e)') = <<>>
      BY <1>7, <3>1 DEF Empty, Frames
    <3>3. PICK last, u : last = user'[p].last /\ u = user'[e]
      OBVIOUS
    <3>4. PICK r, d : r = (used'.hiccups > 0) /\ d = Delimited(e)'
      OBVIOUS
    <3>5. ~last.more /\ u.parts = 0 /\ r = TRUE
      BY <1>1, <1>7, <2>1, <3>3, <3>4
    <3>6. Follows(<<>>, <<>>, last, u, r, d)
      BY <3>5, FollowsNothing
    <3> QED
      BY <1>0, <1>1, <1>4, <2>1, <2>2, <3>2, <3>3, <3>4, <3>6
  <2>3. CASE new # end[p].inpipe
    BY <1>0, <1>1, <1>4, <2>1, <2>3
  <2> QED
    BY <2>2, <2>3
<1> QED
  BY <1>9, <1>10, Peers DEF p

(* A command takes nothing from a user's call. *)
LEMMA ProcessAlone ==
  ASSUME HandshakeInv, NEW e \in End, Process(e)
  PROVE  ~ReadMessage(e) /\ ~ReadDelimiter(e) /\ ~hiccup(e)
<1>0. Typed /\ peer(e) \in End /\ peer(e) # e
  BY EndsMeet
<1>1. cmds'[e] = Tail(cmds[e]) /\ cmds[e] # <<>> /\ cmds[e] \in Seq(Command)
  BY <1>0, ProcessTells, EndsMeet
<1>2. Len(Tail(cmds[e])) = Len(cmds[e]) - 1 /\ Len(cmds[e]) \in Nat
  BY <1>1, HeadTailProperties, LenProperties
<1>3. cmds'[e] # cmds[e]
  <2>1. Len(cmds'[e]) = Len(cmds[e]) - 1
    BY <1>1, <1>2
  <2> QED
    BY <1>2, <2>1
<1>4. ReadMessage(e) \/ ReadDelimiter(e) \/ hiccup(e) => cmds'[e] = cmds[e]
  BY <1>0 DEF ReadMessage, ReadDelimiter, hiccup, Send, Typed, TypeOK
<1> QED
  BY <1>3, <1>4

LEMMA ProcessStreams ==
  ASSUME HandshakeInv, HandshakeInv', Ownership, \A f \in End : Filled(f) /\ Stream(f),
         NEW e \in End, Step(e), Process(e),
         MayHiccup # {} => user[e].parts = 0, used.hiccups = 0 => Renewals(cmds[e]) = {}
  PROVE  \A f \in End : Stream(f)'
<1> DEFINE p == peer(e)
<1>0. /\ Typed /\ p \in End /\ p # e /\ peer(p) = e /\ end'[p] = end[p] /\ end[e] \in Pipe
      /\ ~hiccup(e) /\ UNCHANGED <<user, used, finishing>>
  <2>1. UNCHANGED <<user, used, finishing>>
    BY ProcessTells DEF Process, process_activate_read, process_activate_write,
       process_hiccup, process_pipe_hwm, process_pipe_term, process_pipe_term_ack
  <2> QED
    BY <2>1, EndsMeet, StepShape, PipeFacts, ProcessAlone
<1>1. CASE process_hiccup(e)
  BY <1>1, HiccupTakenStreams
<1>2. CASE process_pipe_term_ack(e)
  <2>1. /\ \A y \in Ypipe : ypipe'[y].avail = ypipe[y].avail /\ ypipe'[y].held = ypipe[y].held
        /\ end'[e].outpipe = NULL /\ end'[e].inpipe = NULL /\ end'[e].state = "deleted"
    BY SMTT(30), <1>0, <1>2 DEF process_pipe_term_ack, Typed, TypeOK, Pipe, Upipe
  <2>2. Conduit(e) \subseteq Ypipe /\ Conduit(p) \subseteq Ypipe
    BY <1>0, ConduitFacts
  <2>3. used.hiccups \in Nat /\ used'.hiccups \in Nat /\ used'.hiccups >= used.hiccups
    BY StepUsers
  <2>4. ~Waits("deleted") /\ "deleted" \notin Open
    BY DEF Waits, Open
  <2>5. Stream(e)'
    BY <1>0, <2>1, <2>2, <2>3, <2>4, StreamUntouched
  <2>6. Stream(p)'
    <3>1. end[p].state = "term_req_sent1" => end'[p].state \notin Open
      BY <1>0 DEF Open
    <3> QED
      BY <1>0, <2>1, <2>2, <2>3, <2>4, <3>1, StreamUntouched
  <2> QED
    BY <2>5, <2>6, Peers
<1>3. CASE ~process_hiccup(e) /\ ~process_pipe_term_ack(e)
  <2>1. UNCHANGED ypipe
    BY <1>3, ProcessKeepsYpipes
  <2> QED
    BY <1>0, <1>3, <2>1, QuietStreams
<1> QED
  BY <1>1, <1>2, <1>3
-----------------------------------------------------------------------------
(* The order of messages is kept. *)

(* What Orderly says besides the streams. *)
LEMMA StepWhole ==
  ASSUME HandshakeInv, Ownership, Orderly, KeepsOrder(setting), NEW e \in End, Step(e)
  PROVE  /\ used'.hiccups # 0 => MayHiccup # {}
         /\ MayHiccup # {} => \A f \in End : user'[f].parts = 0
         /\ used'.hiccups = 0 => \A f \in End : Renewals(cmds'[f]) = {}
<1> DEFINE p == peer(e)
<1>0. /\ Typed /\ p \in End /\ p # e /\ cmds[e] \in Seq(Command)
      /\ user'[p] = user[p] /\ user \in [End -> User]
      /\ used.hiccups \in Nat /\ used'.hiccups \in Nat /\ used'.hiccups >= used.hiccups
  BY EndsMeet, StepUsers DEF Typed
<1>1. /\ used.hiccups # 0 => MayHiccup # {}
      /\ MayHiccup # {} => \A f \in End : user[f].parts = 0
      /\ used.hiccups = 0 => \A f \in End : Renewals(cmds[f]) = {}
  BY DEF Orderly
<1>2. hiccup(e) => MayHiccup # {} /\ used'.hiccups # used.hiccups
  <2> SUFFICES ASSUME hiccup(e) PROVE MayHiccup # {} /\ used'.hiccups # used.hiccups
    OBVIOUS
  <2>1. e \in MayHiccup
    BY DEF hiccup
  <2>2. used'.hiccups = used.hiccups + 1
    BY <1>0 DEF hiccup, Typed, TypeOK
  <2> QED
    BY <1>0, <2>1, <2>2
<1>3. ~hiccup(e) => used'.hiccups = used.hiccups
  <2> SUFFICES ASSUME ~hiccup(e) PROVE used'.hiccups = used.hiccups
    OBVIOUS
  <2>1. CASE process_hiccup(e) \/ process_pipe_term_ack(e)
    BY <2>1 DEF process_hiccup, process_pipe_term_ack, Receives
  <2>2. CASE ~process_hiccup(e) /\ ~process_pipe_term_ack(e)
    BY <2>2, UserKeepsYpipes, ProcessKeepsYpipes DEF KeepsYpipes
  <2> QED
    BY <2>1, <2>2
<1>4. ASSUME MayHiccup # {} PROVE user'[e].parts = 0
  <2>1. MaxPart \in Nat /\ MaxPart <= 1
    <3>1. setting \in Settings
      BY <1>0, SettingFacts
    <3> QED
      BY <1>4, <3>1, PipePairAssumption DEF KeepsOrder, MaxPart, MayHiccup
  <2>2. user[e].parts = 0
    BY <1>1, <1>4
  <2>3. ASSUME NEW kind \in Kind[e] \cup {"data"}, NEW more \in BOOLEAN, Write(e, kind, more)
        PROVE  user'[e].parts = 0
    <3>1. ~more
      <4>1. Kind[e] \subseteq {"identity", "credential"}
        BY <1>0, SettingFacts
      <4>2. kind # "data" => ~more
        BY <2>3, <4>1 DEF Write
      <4>3. kind = "data" => (more => user[e].parts + 1 < MaxPart)
        BY <2>3 DEF Write
      <4> QED
        BY <2>1, <2>2, <4>2, <4>3
    <3> QED
      BY <1>0, <2>3, <3>1 DEF Write, User
  <2> QED
    BY <2>2, <2>3, StepUsers
<1>5. ASSUME used'.hiccups = 0 PROVE Renewals(cmds'[e]) = {} /\ Renewals(cmds'[p]) = {}
  <2>1. /\ used.hiccups = 0 /\ used'.hiccups = used.hiccups
        /\ Renewals(cmds[e]) = {} /\ Renewals(cmds[p]) = {}
    <3>1. used.hiccups = 0
      BY <1>0, <1>5
    <3> QED
      BY <1>0, <1>1, <1>5, <3>1
  <2>2. \A f \in End : Ascending(cmds[f])
    BY DEF Ownership, Succession
  <2>3. Renewals(cmds'[p]) = {}
    BY <2>1, <2>2, RenewalsKept
  <2>4. ~(Process(e) /\ Head(cmds[e])[1] = "hiccup")
    <3> SUFFICES ASSUME Process(e), Head(cmds[e])[1] = "hiccup" PROVE FALSE
      OBVIOUS
    <3>1. cmds[e] # <<>>
      BY ProcessTells
    <3>2. Renewals(cmds[e]) = Renewals(Tail(cmds[e])) \cup {Head(cmds[e])[2]}
      BY <1>0, <2>2, <3>1, RenewalsTaken
    <3> QED
      BY <2>1, <3>2
  <2> QED
    BY <2>1, <2>2, <2>3, <2>4, RenewalsKept
<1> QED
  BY <1>0, <1>1, <1>2, <1>3, <1>4, <1>5, Peers

LEMMA StepKeepsOrderly ==
  ASSUME HandshakeInv, HandshakeInv', Ownership, \A f \in End : Filled(f), Orderly,
         NEW e \in End, Step(e)
  PROVE  Orderly'
<1>1. setting' = setting /\ MayHiccup' = MayHiccup
  BY StepKeepsSetting DEF MayHiccup
<1> SUFFICES ASSUME KeepsOrder(setting)
             PROVE  /\ used'.hiccups # 0 => MayHiccup # {}
                    /\ MayHiccup # {} => \A f \in End : user'[f].parts = 0
                    /\ used'.hiccups = 0 => \A f \in End : Renewals(cmds'[f]) = {}
                    /\ \A f \in End : Stream(f)'
  BY <1>1 DEF Orderly
<1>2. /\ MayHiccup # {} => user[e].parts = 0
      /\ used.hiccups = 0 => Renewals(cmds[e]) = {}
      /\ \A f \in End : Stream(f)
  BY DEF Orderly
<1>3. \A f \in End : Stream(f)'
  BY <1>2, UserStreams, HiccupStreams, ProcessStreams
<1> QED
  BY <1>3, StepWhole

LEMMA InitOrderly == Init => Orderly
<1> SUFFICES ASSUME Init PROVE Orderly
  OBVIOUS
<1>0. Typed
  BY InitTyped
<1>1. \A f \in End : user[f].parts = 0 /\ Renewals(cmds[f]) = {}
  BY DEF Init, Renewals
<1>2. used.hiccups = 0
  BY DEF Init
<1>3. ASSUME NEW f \in End PROVE Stream(f)
  <2>1. /\ end[f].outpipe \in {1, 2} /\ end[peer(f)].inpipe = end[f].outpipe
        /\ user[f].written = 0 /\ user[f].parts = 0
        /\ user[peer(f)].last = [msg |-> 0, part |-> 1, more |-> FALSE]
    <3>1. end[f].outpipe \in {1, 2} /\ end[peer(f)].inpipe = end[f].outpipe
      BY DEF Init, End, peer
    <3>2. peer(f) \in End
      BY Peers
    <3> QED
      BY <3>1, <3>2 DEF Init
  <2>2. Out(f).avail = <<>> /\ Out(f).held = <<>>
    <3>1. {1, 2} \subseteq Ypipe
      <4>1. Ypipe = 1 .. 2 + MaxHiccup /\ MaxHiccup \in Nat
        BY <1>0, SettingFacts
      <4> QED
        BY <4>1
    <3> QED
      BY <2>1, <3>1 DEF Init, NewYpipe, Out
  <2>3. Frames(Out(f)) = <<>>
    BY <2>2 DEF Frames
  <2>4. PICK q, last, u : q = Out(f) /\ last = user[peer(f)].last /\ u = user[f]
    OBVIOUS
  <2>5. Sequel(<<>>, u.written, Delimited(f))
    <3>1. Len(<<>>) = 0
      OBVIOUS
    <3> QED
      BY <3>1 DEF Sequel
  <2>6. Line(q, last, u, used.hiccups > 0, Delimited(f))
    BY <2>1, <2>2, <2>3, <2>4, <2>5 DEF Line
  <2> QED
    BY <2>1, <2>4, <2>6 DEF Stream
<1> QED
  BY <1>1, <1>2, <1>3 DEF Orderly

(* What a reader was given last, the frames of its ypipe and what the      *)
(* writer has begun are one sequence, wherever a hiccup tears no message.  *)
THEOREM OrderlyInvariant == Spec => []Orderly
<1>1. /\ HandshakeInv /\ HandshakeInv' /\ Ownership /\ Counts /\ Orderly /\ [Next]_vars
      => Orderly'
  <2> SUFFICES ASSUME HandshakeInv, HandshakeInv', Ownership, Counts, Orderly, [Next]_vars
               PROVE  Orderly'
    OBVIOUS
  <2>1. CASE UNCHANGED vars
    <3>1. UNCHANGED <<ypipe, end, cmds, finishing, user, used>>
      BY <2>1 DEF vars
    <3>2. \A f \in End : Stream(f)' <=> Stream(f)
      BY <3>1 DEF Stream, Out, Delimited
    <3>3. UNCHANGED <<setting, MayHiccup>>
      BY <3>1 DEF setting, MayHiccup
    <3> QED
      BY <3>1, <3>2, <3>3 DEF Orderly
  <2>2. CASE Next
    BY <2>2, CountsParts, StepKeepsOrderly DEF Next
  <2> QED
    BY <2>1, <2>2
<1> QED
  BY <1>1, InitOrderly, HandshakeInvariant, OwnershipInvariant, CountsInvariant, PTL DEF Spec
-----------------------------------------------------------------------------
(* Only a read tells the user something, and it tells the next frame. *)
LEMMA StepReads ==
  ASSUME HandshakeInv, HandshakeInv', Ownership, \A f \in End : Filled(f), Orderly,
         KeepsOrder(setting), NEW e \in End, Step(e), user'[e].last # user[e].last
  PROVE  Precedes(user[e].last, user'[e].last)
           \/ (used.hiccups > 0 /\ Skips(user[e].last, user'[e].last))
<1>1. ReadMessage(e)
  BY StepUsers
<1>2. ~Process(e)
  BY <1>1, ProcessAlone
<1>3. ~hiccup(e)
  <2>1. UNCHANGED used /\ (hiccup(e) => used'.hiccups = used.hiccups + 1) /\ used.hiccups \in Nat
    BY <1>1, EndsMeet, StepUsers DEF ReadMessage, hiccup, Typed, TypeOK
  <2> QED
    BY <2>1
<1>4. \A g \in End : Filled(g) /\ Stream(g)
  BY DEF Orderly
<1>5. /\ \A f \in End : Stream(f)'
      /\ \/ Precedes(user[e].last, user'[e].last)
         \/ used.hiccups > 0 /\ Skips(user[e].last, user'[e].last)
  BY <1>1, <1>2, <1>3, <1>4, ReadMessageStreams
<1> QED
  BY <1>5

(* The frames that a user reads form whole messages in the order written,  *)
(* none of them torn or left out by what the writer rolls back, by         *)
(* terminate or by the commands that cross, and only a hiccup skips some.  *)
(* A hiccup in the middle of a message is what the assumption leaves out.  *)
THEOREM MessagesInOrder ==
  ASSUME \A s \in Settings : KeepsOrder(s)
  PROVE  Spec => InOrder
<1>1. /\ HandshakeInv /\ HandshakeInv' /\ Ownership /\ Counts /\ Orderly /\ [Next]_vars
      => [\A e \in End : user'[e].last # user[e].last =>
            LET old == user[e].last
                new == user'[e].last
            IN  IF old.more THEN new.msg = old.msg /\ new.part = old.part + 1
                ELSE /\ new.part = 1 /\ new.msg > old.msg
                     /\ used.hiccups = 0 => new.msg = old.msg + 1]_vars
  <2> SUFFICES ASSUME HandshakeInv, HandshakeInv', Ownership, Counts, Orderly,
                      NEW e \in End, Step(e), NEW f \in End, user'[f].last # user[f].last
               PROVE  IF user[f].last.more
                      THEN /\ user'[f].last.msg = user[f].last.msg
                           /\ user'[f].last.part = user[f].last.part + 1
                      ELSE /\ user'[f].last.part = 1 /\ user'[f].last.msg > user[f].last.msg
                           /\ used.hiccups = 0 => user'[f].last.msg = user[f].last.msg + 1
    BY DEF Next
  <2>1. Typed
    BY DEF HandshakeInv
  <2>2. KeepsOrder(setting) /\ user[f] \in User /\ used.hiccups \in Nat
    <3>1. setting \in Settings /\ user[f] \in User
      BY <2>1, PipeFacts, SettingFacts
    <3>2. used.hiccups \in Nat
      BY StepUsers
    <3> QED
      BY <3>1, <3>2
  <2>3. \A g \in End : Filled(g)
    BY CountsParts
  <2>4. f = e
    BY StepUsers, Peers
  <2>5. \/ Precedes(user[e].last, user'[e].last)
        \/ used.hiccups > 0 /\ Skips(user[e].last, user'[e].last)
    BY <2>2, <2>3, <2>4, StepReads
  <2>6. user[f].last.msg \in Nat
    BY <2>2 DEF User
  <2> QED
    BY <2>2, <2>4, <2>5, <2>6 DEF Precedes, Skips
<1> QED
  BY <1>1, OrderlyInvariant, HandshakeInvariant, OwnershipInvariant, CountsInvariant, PTL
     DEF Spec, InOrder

(* An end leaves waiting_for_delimiter for term_ack_sent at the delimiter, *)
(* unless its user calls terminate.                                        *)
LEMMA StepAcks ==
  ASSUME HandshakeInv, NEW e \in End, Step(e), NEW f \in End,
         end[f].state = "waiting_for_delimiter", end'[f].state = "term_ack_sent",
         user'[f].terms = user[f].terms
  PROVE  f = e /\ ReadDelimiter(e)
<1>0. Typed /\ Handshake(e) /\ end[e] \in Pipe /\ user[e] \in User /\ user \in [End -> User]
  BY EndsMeet, PipeFacts DEF Typed
<1>1. f = e
  BY StepShape, Peers
<1> DEFINE Same == end'[e].state = end[e].state
<1>2. ~Same
  BY <1>1
<1>3. ASSUME NEW kind \in Kind[e] \cup {"data"}, NEW more \in BOOLEAN, Write(e, kind, more)
      PROVE  Same
  BY <1>0, <1>3 DEF Write, Typed, TypeOK, Pipe
<1>4. CASE WriteFails(e) \/ rollback(e) \/ flush(e)
  BY <1>0, <1>4, <1>2 DEF WriteFails, rollback, flush, Typed, TypeOK, Pipe
<1>5. CASE ReadMessage(e)
  BY <1>0, <1>5, <1>2 DEF ReadMessage, Typed, TypeOK, Pipe
<1>6. CASE ReadEmpty(e)
  BY <1>0, <1>6, <1>2 DEF ReadEmpty, Typed, TypeOK, Pipe
<1>7. CASE hiccup(e)
  BY <1>0, <1>7, <1>2 DEF hiccup, Typed, TypeOK, Pipe
<1>8. ASSUME NEW in \in NewHwm, NEW out \in NewHwm, ChangeHwms(e, in, out) PROVE Same
  BY <1>0, <1>8 DEF ChangeHwms, set_hwms, Typed, TypeOK, Pipe
<1>9. CASE TerminateFinish(e)
  BY <1>0, <1>9, <1>2 DEF TerminateFinish, Typed, TypeOK, Pipe
<1>10. ~terminate(e)
  <2> SUFFICES ASSUME terminate(e) PROVE FALSE
    OBVIOUS
  <2>1. user' = [user EXCEPT ![e].terms = @ + 1]
    BY DEF terminate, TerminateIgnored, TerminateRequest, TerminateWaiting, Terminates
  <2>2. user'[e].terms = user[e].terms + 1 /\ user[e].terms \in Nat
    BY <1>0, <2>1 DEF User
  <2> QED
    BY <1>1, <2>2
<1>11. CASE Process(e)
  <2>1. CASE process_activate_read(e)
    BY <1>0, <1>2, <2>1 DEF process_activate_read, Typed, TypeOK, Pipe
  <2>2. CASE process_activate_write(e)
    BY <1>0, <1>2, <2>2 DEF process_activate_write, Typed, TypeOK, Pipe
  <2>3. CASE process_hiccup(e)
    BY <1>0, <1>2, <2>3 DEF process_hiccup, Typed, TypeOK, Pipe
  <2>4. CASE process_pipe_hwm(e)
    BY <1>0, <1>2, <2>4 DEF process_pipe_hwm, set_hwms, Typed, TypeOK, Pipe
  <2>5. CASE process_pipe_term(e)
    <3>1. Has(cmds[e], "pipe_term")
      <4>1. cmds[e] \in Seq(Command) /\ cmds[e] # <<>> /\ Head(cmds[e])[1] = "pipe_term"
        BY <2>5, EndsMeet DEF process_pipe_term, Receives
      <4> QED
        BY <4>1, HasTaken
    <3> QED
      BY <1>0, <1>1, <3>1 DEF Handshake, Open
  <2>6. CASE process_pipe_term_ack(e)
    BY <1>0, <1>1, <2>6 DEF process_pipe_term_ack, Typed, TypeOK, Pipe
  <2> QED
    BY <1>11, <2>1, <2>2, <2>3, <2>4, <2>5, <2>6 DEF Process
<1> HIDE DEF Same
<1> QED
  BY <1>1, <1>2, <1>3, <1>4, <1>5, <1>6, <1>7, <1>8, <1>9, <1>10, <1>11 DEF Step, Read

(* What comes before the delimiter has been read. *)
LEMMA DelimiterTaken ==
  ASSUME NEW q \in Upipe, q.avail # <<>>, NEW last \in LastTold, NEW u \in User,
         NEW r \in BOOLEAN, NEW d \in BOOLEAN, last.msg <= u.written,
         Follows(Frames(q), q.avail, last, u, r, d), IsDelimiter(q.avail[1]), ~r
  PROVE  last.msg = u.written /\ ~last.more
<1>1. PICK f, s : f = q.avail[1] /\ s = r
  OBVIOUS
<1>2. s \in BOOLEAN /\ Follows(Frames(q), q.avail, last, u, s, d)
  BY <1>1
<1>3. /\ Precedes(last, f) \/ (s /\ Skips(last, f))
      /\ ~IsDelimiter(f) =>
           LET next == [msg |-> f.msg, part |-> f.part, more |-> f.more]
           IN  /\ Follows(Frames(Drained(q, 1)), Drained(q, 1).avail, next, u, s, d)
               /\ f.msg <= u.written
      /\ IsDelimiter(f) /\ ~s => last.msg = u.written /\ ~last.more
  BY <1>1, <1>2, ItemTaken
<1>4. IsDelimiter(f) /\ ~s
  BY <1>1
<1> QED
  BY <1>3, <1>4

(* An end that waits for the delimiter is torn down only when its user has *)
(* read all that its peer finished writing, or calls terminate.  A hiccup, *)
(* which drops what the old ypipe holds, is left out.                      *)
THEOREM ReadBeforeTeardown ==
  ASSUME \A s \in Settings : KeepsOrder(s) /\ s.MayHiccup = {}
  PROVE  Spec => DelayedUntilRead
<1>1. /\ HandshakeInv /\ Ownership /\ Counts /\ Orderly /\ [Next]_vars
      => [\A e \in End :
            /\ end[e].state = "waiting_for_delimiter"
            /\ end'[e].state = "term_ack_sent"
            /\ user'[e].terms = user[e].terms
            => user[e].last.msg = user[peer(e)].written /\ ~user[e].last.more]_vars
  <2> SUFFICES ASSUME HandshakeInv, Ownership, Counts, Orderly, Next, NEW e \in End,
                      end[e].state = "waiting_for_delimiter", end'[e].state = "term_ack_sent",
                      user'[e].terms = user[e].terms
               PROVE  user[e].last.msg = user[peer(e)].written /\ ~user[e].last.more
    OBVIOUS
  <2>1. ReadDelimiter(e)
    BY StepAcks DEF Next
  <2>2. Typed /\ setting \in Settings /\ peer(e) \in End
    BY EndsMeet, SettingFacts
  <2>3. KeepsOrder(setting) /\ MayHiccup = {}
    BY <2>2 DEF MayHiccup
  <2>4. used.hiccups = 0 /\ \A f \in End : Filled(f) /\ Stream(f)
    BY <2>3, CountsParts DEF Orderly
  <2>5. Waits(end[e].state)
    BY DEF Waits
  <2>6. PICK p : p = peer(e)
    OBVIOUS
  <2>7. PICK n : n = NextItem(In(e).avail)
    OBVIOUS
  <2>8. n # 0 /\ IsDelimiter(In(e).avail[n])
    BY <2>1, <2>7 DEF ReadDelimiter
  <2>9. /\ n = 1 /\ In(e).avail # <<>> /\ In(e) \in Upipe
        /\ user[e].last \in LastTold /\ user[p] \in User /\ user[e].last.msg <= user[p].written
        /\ Follows(Frames(In(e)), In(e).avail, user[e].last, user[p],
                   used.hiccups > 0, Delimited(p))
    BY <2>2, <2>4, <2>5, <2>6, <2>7, <2>8, ItemFollows
  <2>10. PICK q, last, u : q = In(e) /\ last = user[e].last /\ u = user[p]
    OBVIOUS
  <2>11. PICK r, d : r = (used.hiccups > 0) /\ d = Delimited(p)
    OBVIOUS
  <2>12. r \in BOOLEAN /\ d \in BOOLEAN
    <3>1. d \in BOOLEAN
      BY <2>2, <2>6, <2>11 DEF Delimited, Typed, TypeOK
    <3>2. r \in BOOLEAN
      BY <2>11
    <3> QED
      BY <3>1, <3>2
  <2>13. ~r
    <3>1. ~(used.hiccups > 0)
      BY <2>4
    <3> QED
      BY Zenon, <2>11, <3>1
  <2>14. /\ q \in Upipe /\ q.avail # <<>> /\ IsDelimiter(q.avail[1])
         /\ last \in LastTold /\ u \in User /\ last.msg <= u.written
         /\ Follows(Frames(q), q.avail, last, u, r, d)
    BY <2>8, <2>9, <2>10, <2>11
  <2>15. last.msg = u.written /\ ~last.more
    BY <2>12, <2>13, <2>14, DelimiterTaken
  <2> QED
    BY <2>6, <2>10, <2>15
<1> QED
  BY <1>1, OrderlyInvariant, HandshakeInvariant, OwnershipInvariant, CountsInvariant, PTL
     DEF Spec, DelayedUntilRead
=============================================================================
