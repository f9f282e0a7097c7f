----------------------------- MODULE OwnProofs -----------------------------
(***************************************************************************)
(* For any objects, launches, requests and announced commands: nothing     *)
(* meets an object that is gone, every command arrives in a state that     *)
(* expects it, and the acks an object waits for are those that will come.  *)
(* That the whole tree goes when the socket closes is left to TLC.         *)
(***************************************************************************)
EXTENDS Own, FiniteSetTheorems, TLAPS

(* Commands by type. *)
Types == {"plug", "attach", "bind", "term", "term_ack", "own", "term_req"}

LEMMA CommandTypes ==
  /\ \A e \in Commands : e[1] \in Types
  /\ \A e \in Commands : e[1] \in {"own", "term_req"} => e[2] \in Object /\ e = <<e[1], e[2]>>
  /\ \A c \in Object : /\ <<"own", c>> \in Commands /\ <<"own", c>>[1] = "own"
                       /\ <<"own", c>>[2] = c
                       /\ <<"term_req", c>> \in Commands /\ <<"term_req", c>>[1] = "term_req"
  /\ \A t \in {"plug", "attach", "bind", "term", "term_ack"} :
       <<t>> \in Commands /\ <<t>>[1] = t /\ \A e \in Commands : e[1] = t => e = <<t>>
  /\ \A e : \A c : e = <<"own", c>> => e[1] = "own" /\ e[2] = c
<1>1. \A e \in Commands : \/ \E t \in {"plug", "attach", "bind", "term", "term_ack"} : e = <<t>>
                          \/ \E t \in {"own", "term_req"}, c \in Object : e = <<t, c>>
  BY DEF Commands
<1>2. \A e \in Commands : e[1] \in Types
  BY <1>1 DEF Types
<1>3. \A e \in Commands : e[1] \in {"own", "term_req"} => e[2] \in Object /\ e = <<e[1], e[2]>>
  BY <1>1
<1>4. \A t \in {"plug", "attach", "bind", "term", "term_ack"} : <<t>> \in Commands /\ <<t>>[1] = t
  BY DEF Commands
<1>6. \A t \in {"plug", "attach", "bind", "term", "term_ack"} : \A e \in Commands : e[1] = t => e = <<t>>
  BY <1>1
<1>5. \A c \in Object : /\ <<"own", c>> \in Commands /\ <<"own", c>>[1] = "own"
                        /\ <<"own", c>>[2] = c
                        /\ <<"term_req", c>> \in Commands /\ <<"term_req", c>>[1] = "term_req"
  BY DEF Commands
<1> QED
  BY <1>2, <1>3, <1>4, <1>5, <1>6

(* Mailboxes from which a command is taken, and to which one is added. *)
LEMMA Taken ==
  ASSUME NEW box \in Seq(Commands), box # <<>>
  PROVE  /\ Tail(box) \in Seq(Commands) /\ Head(box) \in Commands
         /\ 1 \in DOMAIN box /\ Head(box) = box[1]
         /\ DOMAIN box \subseteq Nat \ {0}
         /\ \A i \in DOMAIN Tail(box) : i \in Nat /\ i + 1 \in DOMAIN box /\ Tail(box)[i] = box[i + 1]
         /\ \A i \in DOMAIN box : i # 1 => i - 1 \in DOMAIN Tail(box) /\ Tail(box)[i - 1] = box[i]
  OBVIOUS

LEMMA Added ==
  ASSUME NEW box \in Seq(Commands), NEW e \in Commands
  PROVE  /\ Append(box, e) \in Seq(Commands)
         /\ Len(box) + 1 \in Nat /\ Len(box) + 1 \notin DOMAIN box
         /\ DOMAIN Append(box, e) = DOMAIN box \cup {Len(box) + 1}
         /\ \A i \in DOMAIN box : Append(box, e)[i] = box[i] /\ i \in Nat /\ i < Len(box) + 1
         /\ Append(box, e)[Len(box) + 1] = e
  OBVIOUS

(* Counting commands in a mailbox. *)
LEMMA CountType ==
  ASSUME NEW box \in Seq(Commands), NEW types
  PROVE  /\ IsFiniteSet(Places(box, types))
         /\ Count(box, types) \in Nat
         /\ Count(box, types) = 0 => \A i \in DOMAIN box : box[i][1] \notin types
<1>1. IsFiniteSet(1 .. Len(box)) /\ Places(box, types) \subseteq 1 .. Len(box)
  BY FS_Interval DEF Places
<1>2. IsFiniteSet(Places(box, types))
  BY <1>1, FS_Subset
<1> QED
  BY <1>2, FS_CardinalityType, FS_EmptySet DEF Count, Places

LEMMA CountNone == ASSUME NEW types PROVE Count(<<>>, types) = 0
<1>1. Places(<<>>, types) = {}
  BY DEF Places
<1> QED
  BY <1>1, FS_EmptySet DEF Count

LEMMA CountAdded ==
  ASSUME NEW box \in Seq(Commands), NEW e \in Commands, NEW types
  PROVE  Count(Append(box, e), types) = Count(box, types) + (IF e[1] \in types THEN 1 ELSE 0)
<1> DEFINE n == Len(box) + 1
<1>1. IsFiniteSet(Places(box, types)) /\ Count(box, types) \in Nat
  BY CountType
<1>2. n \notin Places(box, types)
  BY Added DEF Places
<1>3. CASE e[1] \in types
  <2>1. Places(Append(box, e), types) = Places(box, types) \cup {n}
    BY <1>3, Added DEF Places
  <2>2. Cardinality(Places(box, types) \cup {n}) = Cardinality(Places(box, types)) + 1
    BY <1>1, <1>2, FS_AddElement
  <2> QED
    BY <1>3, <2>1, <2>2 DEF Count
<1>4. CASE e[1] \notin types
  <2>1. Places(Append(box, e), types) = Places(box, types)
    BY <1>4, Added DEF Places
  <2> QED
    BY <1>1, <1>4, <2>1 DEF Count
<1> QED
  BY <1>3, <1>4

LEMMA CountTaken ==
  ASSUME NEW box \in Seq(Commands), box # <<>>, NEW types
  PROVE  Count(box, types) = Count(Tail(box), types) + (IF Head(box)[1] \in types THEN 1 ELSE 0)
<1> DEFINE A == Places(box, types)
           B == Places(Tail(box), types)
<1>1. Tail(box) \in Seq(Commands) /\ IsFiniteSet(A) /\ IsFiniteSet(B)
  BY CountType, Taken
<1>2. Cardinality(A \ {1}) = Cardinality(B)
  <2> DEFINE up == [i \in B |-> i + 1]
  <2>1. up \in [B -> A \ {1}]
    BY Taken DEF Places
  <2>2. up \in Injection(B, A \ {1})
    BY <2>1, Taken DEF Injection, IsInjective, Places
  <2>3. \A j \in A \ {1} : \E i \in B : up[i] = j
    <3> TAKE j \in A \ {1}
    <3>1. j \in DOMAIN box /\ j # 1 /\ box[j][1] \in types
      BY DEF Places
    <3>2. j \in Nat /\ j - 1 \in DOMAIN Tail(box) /\ Tail(box)[j - 1] = box[j]
      BY <3>1, Taken
    <3>3. j - 1 \in B /\ up[j - 1] = j
      BY <3>1, <3>2 DEF Places
    <3> QED
      BY <3>3
  <2>4. up \in Surjection(B, A \ {1})
    BY <2>1, <2>3 DEF Surjection
  <2>5. ExistsBijection(B, A \ {1})
    BY <2>2, <2>4 DEF ExistsBijection, Bijection
  <2> QED
    BY <1>1, <2>5, FS_Bijection
<1>3. 1 \in A <=> Head(box)[1] \in types
  BY Taken DEF Places
<1>4. Cardinality(A) \in Nat /\ Cardinality(B) \in Nat /\ (1 \in A => Cardinality(A) # 0)
  BY <1>1, FS_CardinalityType, FS_EmptySet
<1>5. Cardinality(A \ {1}) = IF 1 \in A THEN Cardinality(A) - 1 ELSE Cardinality(A)
  BY <1>1, FS_RemoveElement
<1> QED
  BY <1>2, <1>3, <1>4, <1>5 DEF Count
(* What a command more, or the first one less, does to what is in the      *)
(* mailbox.                                                                *)
LEMMA HasAdded ==
  ASSUME NEW box \in Seq(Commands), NEW e \in Commands, NEW f
  PROVE  /\ Has(Append(box, e), f) <=> Has(box, f) \/ e = f
         /\ Once(box, f) /\ (e = f => ~Has(box, f)) => Once(Append(box, e), f)
<1>1. Has(Append(box, e), f) <=> Has(box, f) \/ e = f
  BY Added DEF Has
<1>2. Once(box, f) /\ (e = f => ~Has(box, f)) => Once(Append(box, e), f)
  BY Added DEF Has, Once
<1> QED
  BY <1>1, <1>2

LEMMA HasTaken ==
  ASSUME NEW box \in Seq(Commands), box # <<>>, NEW f
  PROVE  /\ Has(box, f) <=> Has(Tail(box), f) \/ Head(box) = f
         /\ Once(box, f) => Once(Tail(box), f) /\ (Head(box) = f => ~Has(Tail(box), f))
<1>1. ASSUME Has(box, f) PROVE Has(Tail(box), f) \/ Head(box) = f
  <2>1. PICK i \in DOMAIN box : box[i] = f
    BY <1>1 DEF Has
  <2>2. CASE i = 1
    BY <2>1, <2>2, Taken
  <2>3. CASE i # 1
    <3>1. i - 1 \in DOMAIN Tail(box) /\ Tail(box)[i - 1] = f
      BY <2>1, <2>3, Taken
    <3> QED
      BY <3>1 DEF Has
  <2> QED
    BY <2>2, <2>3
<1>2. Has(Tail(box), f) \/ Head(box) = f => Has(box, f)
  BY Taken DEF Has
<1>3. ASSUME Once(box, f) PROVE Once(Tail(box), f)
  <2> SUFFICES ASSUME NEW i \in DOMAIN Tail(box), NEW j \in DOMAIN Tail(box),
                      Tail(box)[i] = f, Tail(box)[j] = f
               PROVE  i = j
    BY DEF Once
  <2>1. i + 1 = j + 1 /\ i \in Nat /\ j \in Nat
    BY <1>3, Taken DEF Once
  <2> QED
    BY <2>1
<1>4. ASSUME Once(box, f), Head(box) = f, Has(Tail(box), f) PROVE FALSE
  <2>1. PICK i \in DOMAIN Tail(box) : Tail(box)[i] = f
    BY <1>4 DEF Has
  <2>2. i \in Nat /\ i + 1 \in DOMAIN box /\ box[i + 1] = f /\ 1 \in DOMAIN box /\ box[1] = f
    BY <1>4, <2>1, Taken
  <2>3. i + 1 = 1
    BY <1>4, <2>2 DEF Once
  <2>4. i # 0
    BY <2>1
  <2> QED
    BY <2>2, <2>3, <2>4
<1> QED
  BY <1>1, <1>2, <1>3, <1>4

LEMMA AnsweredAdded ==
  ASSUME NEW box \in Seq(Commands), NEW e \in Commands
  PROVE  /\ Answered(box) /\ e[1] # "term_req" => Answered(Append(box, e))
         /\ e[1] = "term_ack" => Answered(Append(box, e))
<1>1. ASSUME Answered(box), e[1] # "term_req" PROVE Answered(Append(box, e))
  BY <1>1, Added DEF Answered
<1>2. ASSUME e[1] = "term_ack" PROVE Answered(Append(box, e))
  BY <1>2, Added DEF Answered
<1> QED
  BY <1>1, <1>2

LEMMA AnsweredTaken ==
  ASSUME NEW box \in Seq(Commands), box # <<>>, Answered(box)
  PROVE  Answered(Tail(box))
<1> SUFFICES ASSUME NEW i \in DOMAIN Tail(box), Tail(box)[i][1] = "term_req"
             PROVE  \E j \in DOMAIN Tail(box) : j > i /\ Tail(box)[j][1] = "term_ack"
  BY DEF Answered
<1>1. i \in Nat /\ i + 1 \in DOMAIN box /\ box[i + 1][1] = "term_req"
  BY Taken
<1>2. PICK j \in DOMAIN box : j > i + 1 /\ box[j][1] = "term_ack"
  BY <1>1 DEF Answered
<1>3. j \in Nat /\ j # 1
  BY <1>1, <1>2, Taken
<1>4. j - 1 \in DOMAIN Tail(box) /\ Tail(box)[j - 1] = box[j] /\ j - 1 > i
  BY <1>1, <1>2, <1>3, Taken
<1> QED
  BY <1>2, <1>4

(* The mailbox as a handler leaves it: with or without its first command.  *)
Rest(box, after) == after = box \/ (box # <<>> /\ after = Tail(box))

LEMMA Rests ==
  ASSUME NEW box \in Seq(Commands), NEW rest, Rest(box, rest)
  PROVE  /\ rest \in Seq(Commands)
         /\ \A f : Has(rest, f) => Has(box, f)
         /\ \A f : Once(box, f) => Once(rest, f)
         /\ Answered(box) => Answered(rest)
<1>1. CASE rest = box
  BY <1>1
<1>2. CASE box # <<>> /\ rest = Tail(box)
  BY <1>2, Taken, HasTaken, AnsweredTaken
<1> QED
  BY <1>1, <1>2 DEF Rest

(* Nothing is in a mailbox whose commands all have types that are not.     *)
LEMMA NothingIn ==
  ASSUME NEW box \in Seq(Commands),
         \A i \in DOMAIN box : box[i][1] \notin Types
  PROVE  box = <<>>
<1>1. \A i \in DOMAIN box : box[i] \in Commands
  OBVIOUS
<1>2. DOMAIN box = {}
  BY <1>1, CommandTypes
<1> QED
  BY <1>2
-----------------------------------------------------------------------------
(* Nobody is its own owner. *)
LEMMA NoCycle ==
  ASSUME TypeOK, Parents, NEW o \in Live
  PROVE  /\ own[o].owner # o
         /\ o # Root => own[o].owner \in Live
<1>1. CASE o = Root
  BY <1>1, OwnAssumption DEF Parents
<1>2. CASE o # Root
  <2>1. own[o].owner = o => Root \in {o}
    BY <1>2 DEF Parents
  <2> QED
    BY <1>2, <2>1 DEF Parents
<1> QED
  BY <1>1, <1>2

(* What Become does to the mailboxes. *)
LEMMA Becomes ==
  ASSUME TypeOK, NEW o \in Object, NEW p \in Records, NEW rest \in Seq(Commands),
         NEW T \in SUBSET Object, o \notin T, p.owner # o, CanFinish(p) => T = {},
         Become(o, p, rest, Terms(T))
  PROVE  /\ mbox' \in [Object -> Seq(Commands)]
         /\ mbox'[o] = rest
         /\ \A x \in T : mbox'[x] = Append(mbox[x], <<"term">>)
         /\ CanFinish(p) => \A x \in Object \ {o} : mbox'[x] =
              IF x = p.owner THEN Append(mbox[x], <<"term_ack">>) ELSE mbox[x]
         /\ ~CanFinish(p) => \A x \in Object \ ({o} \cup T) : mbox'[x] = mbox[x]
<1>1. \A s \in Seq(Commands) : \A e \in Commands : s \o <<>> = s /\ s \o <<e>> = Append(s, e)
  OBVIOUS
<1>2. <<"term">> \in Commands /\ <<"term_ack">> \in Commands
  BY CommandTypes
<1>3. \A x \in Object : (IF x = o THEN rest ELSE mbox[x]) \in Seq(Commands)
  BY DEF TypeOK
<1>4. \A x \in Object : mbox'[x] = (IF x = o THEN rest ELSE mbox[x])
           \o (IF x \in T THEN <<<<"term">>>> ELSE <<>>)
           \o (IF CanFinish(p) /\ x = p.owner THEN <<<<"term_ack">>>> ELSE <<>>)
  BY DEF Become, Terms
<1>5. \A x \in T : mbox'[x] = Append(mbox[x], <<"term">>)
  <2> TAKE x \in T
  <2>1. mbox[x] \in Seq(Commands) /\ Append(mbox[x], <<"term">>) \in Seq(Commands)
    BY <1>2 DEF TypeOK
  <2>2. mbox'[x] = (mbox[x] \o <<<<"term">>>>) \o <<>>
    BY <1>4
  <2> QED
    BY <1>1, <1>2, <2>1, <2>2
<1>6. ASSUME NEW x \in Object \ T, ~CanFinish(p) \/ x # p.owner
      PROVE  mbox'[x] = IF x = o THEN rest ELSE mbox[x]
  <2>1. mbox'[x] = ((IF x = o THEN rest ELSE mbox[x]) \o <<>>) \o <<>>
    BY <1>4, <1>6
  <2> QED
    BY <1>1, <1>2, <1>3, <2>1
<1>7. ASSUME NEW x \in Object, CanFinish(p), x = p.owner
      PROVE  mbox'[x] = Append(mbox[x], <<"term_ack">>)
  <2>1. mbox'[x] = (mbox[x] \o <<>>) \o <<<<"term_ack">>>> /\ mbox[x] \in Seq(Commands)
    BY <1>4, <1>7 DEF TypeOK
  <2> QED
    BY <1>1, <1>2, <2>1
<1>8. \A x \in Object : mbox'[x] \in Seq(Commands)
  <2> TAKE x \in Object
  <2>1. CASE x \in T
    <3>1. mbox[x] \in Seq(Commands) /\ mbox'[x] = Append(mbox[x], <<"term">>)
      BY <1>5, <2>1 DEF TypeOK
    <3> QED
      BY <1>2, <3>1
  <2>2. CASE x \notin T /\ (~CanFinish(p) \/ x # p.owner)
    BY <1>3, <1>6, <2>2
  <2>3. CASE CanFinish(p) /\ x = p.owner
    <3>1. mbox[x] \in Seq(Commands) /\ mbox'[x] = Append(mbox[x], <<"term_ack">>)
      BY <1>7, <2>3 DEF TypeOK
    <3> QED
      BY <1>2, <3>1
  <2> QED
    BY <2>1, <2>2, <2>3
<1>9. mbox' \in [Object -> Seq(Commands)]
  BY <1>8 DEF Become
<1>10. mbox'[o] = rest
  BY <1>6
<1>11. CanFinish(p) => \A x \in Object \ {o} : mbox'[x] =
              IF x = p.owner THEN Append(mbox[x], <<"term_ack">>) ELSE mbox[x]
  BY <1>6, <1>7
<1>12. ~CanFinish(p) => \A x \in Object \ ({o} \cup T) : mbox'[x] = mbox[x]
  BY <1>6
<1> QED
  BY <1>5, <1>9, <1>10, <1>11, <1>12
-----------------------------------------------------------------------------
(* What a handler of o may make of o: the object becomes p, its mailbox    *)
(* rest, and the children in T are asked to terminate.                     *)
Expected(o, p, rest) == {c \in Children(o) : c \notin p.owned /\ ~Has(rest, <<"own", c>>)}

Fits(o, p, rest, T) ==
  /\ o \in Live /\ own[o].launching = NULL
  /\ p \in Records /\ p.status = "live" /\ p.launching = NULL /\ p.owner = own[o].owner
  /\ Rest(mbox[o], rest)
  /\ \A c \in T : c \in Object /\ Claims(o, c) /\ c \notin p.owned /\ ~Has(rest, <<"own", c>>)
  /\ \A c \in p.owned : Claims(o, c) /\ ~Has(rest, <<"own", c>>)
  /\ p.terminating => ~p.pending /\ p.owned = {}
  /\ p.terminating \/ p.pending => ~Has(rest, <<"term">>) /\ (o = Root \/ Terminal(o))
  /\ p.sent_seqnum = p.processed_seqnum + Count(rest, Announced)
                       + (IF o = Root THEN finding ELSE 0)
  /\ p.term_acks = Cardinality(Expected(o, p, rest)) + Count(rest, {"term_ack"})
                     + (IF p.terminating THEN p.pipes ELSE 0)

(* The socket has no owner, and nobody claims it. *)
LEMMA NotRoot ==
  ASSUME TypeOK, Parents, Claimed, NEW o \in Object, NEW c \in Object, Claims(o, c)
  PROVE  /\ c # Root /\ c \in Live /\ own[c].owner = o /\ c # o
         /\ ~own[c].terminating /\ ~own[c].pending /\ ~Has(mbox[c], <<"term">>)
<1>1. c \in Children(o) /\ ~Terminal(c)
  BY DEF Claimed
<1>2. c \in Live /\ own[c].owner = o
  BY <1>1 DEF Children
<1>3. c # Root
  BY <1>2, OwnAssumption DEF Parents
<1>4. c # o
  BY <1>2, NoCycle
<1> QED
  BY <1>1, <1>2, <1>3, <1>4 DEF Terminal

(* Who asks a child waits for its ack. *)
LEMMA NotYet ==
  ASSUME IInv, NEW o \in Object, NEW p, NEW rest, NEW T, Fits(o, p, rest, T), T # {}
  PROVE  ~CanFinish(p)
<1>1. PICK c \in T : c \in Object /\ Claims(o, c) /\ c \notin p.owned /\ ~Has(rest, <<"own", c>>)
  BY DEF Fits
<1>2. c \in Expected(o, p, rest)
  BY <1>1, NotRoot DEF IInv, Expected, Children
<1>3. IsFiniteSet(Expected(o, p, rest))
  <2>1. IsFiniteSet(Live) /\ Expected(o, p, rest) \subseteq Live
    BY DEF IInv, Parents, Expected, Children
  <2> QED
    BY <2>1, FS_Subset
<1>4. Cardinality(Expected(o, p, rest)) \in Nat /\ Cardinality(Expected(o, p, rest)) # 0
  BY <1>2, <1>3, FS_CardinalityType, FS_EmptySet
<1>5. rest \in Seq(Commands)
  BY Rests DEF IInv, TypeOK, Fits
<1>6. Count(rest, {"term_ack"}) \in Nat
  BY <1>5, CountType
<1>7. p.pipes \in Nat /\ p.term_acks \in Nat
  BY DEF Fits, Records
<1>8. p.term_acks # 0
  BY <1>4, <1>6, <1>7 DEF Fits
<1> QED
  BY <1>8 DEF CanFinish

LEMMA Stays ==
  ASSUME IInv, NEW o \in Object, NEW p, NEW rest, NEW T, Fits(o, p, rest, T), ~CanFinish(p),
         Become(o, p, rest, Terms(T)), UNCHANGED <<finding, launched, handed>>
  PROVE  IInv'
<1>1. /\ o \in Live /\ own[o].launching = NULL
      /\ p \in Records /\ p.status = "live" /\ p.launching = NULL /\ p.owner = own[o].owner
      /\ \A c \in T : c \in Object /\ Claims(o, c) /\ c \notin p.owned /\ ~Has(rest, <<"own", c>>)
  BY DEF Fits
<1>2. /\ rest \in Seq(Commands)
      /\ \A f : Has(rest, f) => Has(mbox[o], f)
      /\ \A f : Once(mbox[o], f) => Once(rest, f)
      /\ Answered(mbox[o]) => Answered(rest)
  <2>1. mbox[o] \in Seq(Commands) /\ Rest(mbox[o], rest)
    BY DEF IInv, TypeOK, Fits
  <2> QED
    BY <2>1, Rests
<1>3. \A c \in T : /\ c \in Live /\ own[c].owner = o /\ c # o /\ c # Root
                   /\ ~own[c].terminating /\ ~own[c].pending /\ ~Has(mbox[c], <<"term">>)
  BY <1>1, NotRoot DEF IInv
<1>4. /\ mbox' \in [Object -> Seq(Commands)]
      /\ mbox'[o] = rest
      /\ \A x \in T : mbox'[x] = Append(mbox[x], <<"term">>)
      /\ \A x \in Object \ ({o} \cup T) : mbox'[x] = mbox[x]
  <2>1. T \in SUBSET Object /\ o \notin T /\ p.owner # o
    BY <1>1, <1>3, NoCycle DEF IInv
  <2> QED
    BY <1>1, <1>2, <2>1, Becomes DEF IInv
<1>5. own' = [own EXCEPT ![o] = p]
  BY DEF Become
<1>6. own' \in [Object -> Records]
  BY <1>1, <1>5 DEF IInv, TypeOK
<1>7. own'[o] = p /\ \A x \in Object \ {o} : own'[x] = own[x]
  BY <1>5 DEF IInv, TypeOK
<1>8. Live' = Live /\ \A x \in Object : own'[x].owner = own[x].owner
  BY <1>1, <1>7 DEF Live
<1>9. \A x : Children(x)' = Children(x)
  BY <1>8 DEF Children, Live
(* The mailboxes of the others. *)
<1>10. \A x \in Object \ {o} :
         /\ mbox[x] \in Seq(Commands)
         /\ \A f : f # <<"term">> => (Has(mbox'[x], f) <=> Has(mbox[x], f))
         /\ \A f : f # <<"term">> /\ Once(mbox[x], f) => Once(mbox'[x], f)
         /\ Answered(mbox[x]) => Answered(mbox'[x])
         /\ \A types : "term" \notin types => Count(mbox'[x], types) = Count(mbox[x], types)
  <2> TAKE x \in Object \ {o}
  <2>1. mbox[x] \in Seq(Commands) /\ <<"term">> \in Commands /\ <<"term">>[1] = "term"
    BY CommandTypes DEF IInv, TypeOK
  <2>2. CASE x \in T
    <3>1. mbox'[x] = Append(mbox[x], <<"term">>)
      BY <1>4, <2>2
    <3>2. \A f : f # <<"term">> => (Has(mbox'[x], f) <=> Has(mbox[x], f))
      BY <2>1, <3>1, HasAdded
    <3>3. \A f : f # <<"term">> /\ Once(mbox[x], f) => Once(mbox'[x], f)
      BY <2>1, <3>1, HasAdded
    <3>4. Answered(mbox[x]) => Answered(mbox'[x])
      BY <2>1, <3>1, AnsweredAdded
    <3>5. ASSUME NEW types, "term" \notin types
          PROVE  Count(mbox'[x], types) = Count(mbox[x], types)
      <4>1. Count(mbox[x], types) \in Nat
        BY <2>1, CountType
      <4>2. Count(mbox'[x], types) = Count(mbox[x], types) + 0
        BY <2>1, <3>1, <3>5, CountAdded
      <4> QED
        BY <4>1, <4>2
    <3> QED
      BY <2>1, <3>2, <3>3, <3>4, <3>5
  <2>3. CASE x \notin T
    BY <1>4, <2>1, <2>3
  <2> QED
    BY <2>2, <2>3
<1>11. \A x \in Object \ {o} :
         /\ Has(mbox'[x], <<"term">>) <=> Has(mbox[x], <<"term">>) \/ x \in T
         /\ Once(mbox[x], <<"term">>) => Once(mbox'[x], <<"term">>)
  <2> TAKE x \in Object \ {o}
  <2>1. mbox[x] \in Seq(Commands) /\ <<"term">> \in Commands
    BY CommandTypes DEF IInv, TypeOK
  <2>2. CASE x \in T
    <3>1. mbox'[x] = Append(mbox[x], <<"term">>) /\ ~Has(mbox[x], <<"term">>)
      BY <1>3, <1>4, <2>2
    <3> QED
      BY <2>1, <2>2, <3>1, HasAdded
  <2>3. CASE x \notin T
    BY <1>4, <2>3
  <2> QED
    BY <2>2, <2>3
(* What o claims, and what the others do. *)
<1>12. \A c \in Object : <<"own", c>> # <<"term">>
  OBVIOUS
<1>13. \A x \in Object \ {o} : \A c \in Object : Claims(x, c)' <=> Claims(x, c)
  BY <1>7, <1>10, <1>12 DEF Claims
<1>14. \A c \in Object : Claims(o, c)' => Claims(o, c) /\ c \notin T
  <2> TAKE c \in Object
  <2>1. Claims(o, c)' <=> p.launching = c \/ Has(rest, <<"own", c>>) \/ c \in p.owned
    BY <1>4, <1>7 DEF Claims
  <2>2. Claims(o, c)' => Has(rest, <<"own", c>>) \/ c \in p.owned
    BY <1>1, <2>1, OwnAssumption
  <2>3. c \in p.owned => Claims(o, c)
    BY DEF Fits
  <2> QED
    BY <1>1, <1>2, <2>2, <2>3 DEF Claims
<1>15. TypeOK'
  BY <1>4, <1>6 DEF IInv, TypeOK
<1>16. Parents'
  <2>1. /\ own'[Root].owner = NULL
        /\ \A x \in Live \ {Root} : own'[x].owner \in Live
    BY <1>8, OwnAssumption DEF IInv, Parents, Live
  <2>2. ASSUME NEW S \in SUBSET Live, S # {}, \A x \in S \ {Root} : own'[x].owner \in S
        PROVE  Root \in S
    <3>1. \A x \in S \ {Root} : own[x].owner \in S
      BY <1>8, <2>2 DEF Live
    <3> QED
      BY <2>2, <3>1 DEF IInv, Parents
  <2>3. IsFiniteSet(Live)
    BY DEF IInv, Parents
  <2> QED
    BY <1>8, <2>1, <2>2, <2>3 DEF Parents
<1>17. Gone'
  <2>1. \A x \in Object \ Live : mbox'[x] = mbox[x] /\ own'[x] = own[x]
    BY <1>1, <1>3, <1>4, <1>7
  <2>2. \A x \in Object : own'[x].status = "free" <=> own[x].status = "free"
    BY <1>1, <1>7 DEF Live
  <2>3. \A x \in Object : own[x].status = "free" => x \in Object \ Live
    BY DEF Live
  <2>4. NoCommandToDeleted'
    BY <2>1, <2>2, <2>3, OwnAssumption DEF IInv, Gone, NoCommandToDeleted
  <2>5. \A x \in Object \ Live' : own'[x].launching = NULL /\ own'[x].owned = {}
    BY <1>8, <2>1 DEF IInv, Gone
  <2> QED
    BY <2>4, <2>5 DEF Gone
<1>18. Claimed'
  <2> SUFFICES ASSUME NEW x \in Object, NEW c \in Object
               PROVE  /\ Claims(x, c)' => c \in Children(x)' /\ ~Terminal(c)'
                      /\ own'[x].launching = c => ~Has(mbox'[x], <<"own", c>>) /\ c \notin own'[x].owned
                      /\ Has(mbox'[x], <<"own", c>>) => c \notin own'[x].owned
                      /\ Once(mbox'[x], <<"own", c>>)
    BY DEF Claimed
  <2>1. Claims(x, c)' => Claims(x, c) /\ c \notin T
    <3>1. CASE x = o
      BY <1>14, <3>1
    <3>2. CASE x # o
      <4>1. Claims(x, c)' => Claims(x, c)
        BY <1>13, <3>2
      <4>2. Claims(x, c) => own[c].owner = x
        BY NotRoot DEF IInv
      <4> QED
        BY <1>3, <3>2, <4>1, <4>2
    <3> QED
      BY <3>1, <3>2
  <2>2. ASSUME Claims(x, c), c \notin T PROVE ~Terminal(c)'
    <3>1. /\ c # Root /\ ~own[c].terminating /\ ~own[c].pending /\ ~Has(mbox[c], <<"term">>)
      BY <2>2, NotRoot DEF IInv
    <3>2. CASE c # o
      BY <1>7, <1>11, <2>2, <3>1, <3>2 DEF Terminal
    <3>3. CASE c = o
      <4>1. ~Terminal(o) /\ o # Root
        BY <3>1, <3>3 DEF Terminal
      <4>2. ~p.terminating /\ ~p.pending
        BY <4>1 DEF Fits
      <4>3. ~Has(rest, <<"term">>)
        BY <1>2, <3>1, <3>3
      <4> QED
        BY <1>4, <1>7, <3>3, <4>2, <4>3 DEF Terminal
    <3> QED
      BY <3>2, <3>3
  <2>3. Claims(x, c)' => c \in Children(x)' /\ ~Terminal(c)'
    BY <1>9, <2>1, <2>2 DEF IInv, Claimed
  <2>4. CASE x = o
    <3>1. p.launching # c
      BY <1>1, OwnAssumption
    <3>2. Has(rest, <<"own", c>>) => c \notin p.owned
      BY DEF Fits
    <3>3. Once(rest, <<"own", c>>)
      BY <1>2 DEF IInv, Claimed
    <3> QED
      BY <1>4, <1>7, <2>3, <2>4, <3>1, <3>2, <3>3
  <2>5. CASE x # o
    <3>1. own'[x] = own[x]
      BY <1>7, <2>5
    <3>2. (Has(mbox'[x], <<"own", c>>) <=> Has(mbox[x], <<"own", c>>)) /\ Once(mbox'[x], <<"own", c>>)
      BY <1>10, <1>12, <2>5 DEF IInv, Claimed
    <3> QED
      BY <2>3, <3>1, <3>2 DEF IInv, Claimed
  <2> QED
    BY <2>4, <2>5
<1>19. Asked'
  <2>1. \A x \in Object \ {o} :
          /\ own'[x].terminating => ~own'[x].pending /\ own'[x].owned = {}
          /\ own'[x].terminating \/ own'[x].pending => ~Has(mbox'[x], <<"term">>)
          /\ Once(mbox'[x], <<"term">>)
    BY <1>3, <1>7, <1>11 DEF IInv, Asked
  <2>2. /\ p.terminating => ~p.pending /\ p.owned = {}
        /\ p.terminating \/ p.pending => ~Has(rest, <<"term">>)
    BY DEF Fits
  <2>3. Once(rest, <<"term">>)
    BY <1>2 DEF IInv, Asked
  <2>4. ~Has(mbox'[Root], <<"term">>)
    <3>1. CASE Root = o
      BY <1>2, <1>4, <3>1 DEF IInv, Asked
    <3>2. CASE Root # o
      BY <1>3, <1>11, <3>2, OwnAssumption DEF IInv, Asked
    <3> QED
      BY <3>1, <3>2
  <2> QED
    BY <1>4, <1>7, <2>1, <2>2, <2>3, <2>4 DEF Asked
<1>20. Seqnums'
  <2> SUFFICES ASSUME NEW x \in Live
               PROVE  own'[x].sent_seqnum = own'[x].processed_seqnum + Count(mbox'[x], Announced)
                                              + (IF x = Root THEN finding ELSE 0)
    BY <1>8 DEF Seqnums
  <2>1. CASE x = o
    BY <1>4, <1>7, <2>1 DEF Fits
  <2>2. CASE x # o
    <3>1. x \in Object /\ "term" \notin Announced
      BY DEF Live, Announced
    <3>2. own'[x] = own[x] /\ Count(mbox'[x], Announced) = Count(mbox[x], Announced)
      BY <1>7, <1>10, <2>2, <3>1
    <3> QED
      BY <3>2 DEF IInv, Seqnums
  <2> QED
    BY <2>1, <2>2
<1>21. AcksMatch'
  <2> SUFFICES ASSUME NEW x \in Live
               PROVE  own'[x].term_acks = Cardinality({c \in Children(x) : ~Claims(x, c)'})
                                            + Count(mbox'[x], {"term_ack"})
                                            + (IF own'[x].terminating THEN own'[x].pipes ELSE 0)
    BY <1>8, <1>9 DEF AcksMatch
  <2>1. CASE x = o
    <3>1. {c \in Children(o) : ~Claims(o, c)'} = Expected(o, p, rest)
      <4>1. \A c \in Children(o) : c \in Object
        BY DEF Children, Live
      <4>2. \A c \in Object : Claims(o, c)' <=> Has(rest, <<"own", c>>) \/ c \in p.owned
        BY <1>1, <1>4, <1>7, OwnAssumption DEF Claims
      <4> QED
        BY <4>1, <4>2 DEF Expected
    <3>2. p.term_acks = Cardinality(Expected(o, p, rest)) + Count(rest, {"term_ack"})
                          + (IF p.terminating THEN p.pipes ELSE 0)
      BY DEF Fits
    <3> QED
      BY <1>4, <1>7, <2>1, <3>1, <3>2
  <2>2. CASE x # o
    <3>1. x \in Object
      BY DEF Live
    <3>2. own'[x] = own[x] /\ Count(mbox'[x], {"term_ack"}) = Count(mbox[x], {"term_ack"})
      BY <1>7, <1>10, <2>2, <3>1
    <3>3. {c \in Children(x) : ~Claims(x, c)'} = {c \in Children(x) : ~Claims(x, c)}
      <4>1. \A c \in Children(x) : c \in Object
        BY DEF Children, Live
      <4> QED
        BY <1>13, <2>2, <3>1, <4>1
    <3> QED
      BY <3>2, <3>3 DEF IInv, AcksMatch
  <2> QED
    BY <2>1, <2>2
<1>22. Requests'
  <2> SUFFICES ASSUME NEW x \in Object, Children(x) = {} PROVE Answered(mbox'[x])
    BY <1>9 DEF Requests
  <2>1. Answered(mbox[x])
    BY DEF IInv, Requests
  <2> QED
    BY <1>2, <1>4, <1>10, <2>1
<1> QED
  BY <1>15, <1>16, <1>17, <1>18, <1>19, <1>20, <1>21, <1>22 DEF IInv
-----------------------------------------------------------------------------
(* Whoever can finish has no child left and nothing in its mailbox.        *)
LEMMA NothingIsLeft ==
  ASSUME IInv, NEW o \in Object, NEW p, NEW rest, NEW T, Fits(o, p, rest, T), CanFinish(p)
  PROVE  /\ T = {} /\ rest = <<>> /\ Children(o) = {} /\ p.owned = {}
         /\ o = Root => finding = 0
<1>1. T = {}
  BY NotYet
<1>2. /\ p \in Records /\ p.terminating /\ p.term_acks = 0 /\ p.processed_seqnum = p.sent_seqnum
      /\ p.owned = {} /\ ~Has(rest, <<"term">>)
  BY DEF Fits, CanFinish
<1>3. rest \in Seq(Commands) /\ (Answered(mbox[o]) => Answered(rest))
  <2>1. mbox[o] \in Seq(Commands) /\ Rest(mbox[o], rest)
    BY DEF IInv, TypeOK, Fits
  <2> QED
    BY <2>1, Rests
<1>4. Count(rest, Announced) \in Nat /\ Count(rest, {"term_ack"}) \in Nat
  BY <1>3, CountType
<1>5. finding \in Nat /\ p.sent_seqnum \in Nat /\ p.processed_seqnum \in Nat /\ p.pipes \in Nat
  BY <1>2 DEF IInv, TypeOK, Records
<1>6. Count(rest, Announced) = 0 /\ (o = Root => finding = 0)
  BY <1>2, <1>4, <1>5 DEF Fits
<1>7. IsFiniteSet(Expected(o, p, rest)) /\ Cardinality(Expected(o, p, rest)) \in Nat
  <2>1. IsFiniteSet(Live) /\ Expected(o, p, rest) \subseteq Live
    BY DEF IInv, Parents, Expected, Children
  <2> QED
    BY <2>1, FS_Subset, FS_CardinalityType
<1>8. Cardinality(Expected(o, p, rest)) = 0 /\ Count(rest, {"term_ack"}) = 0
  <2>1. 0 = Cardinality(Expected(o, p, rest)) + Count(rest, {"term_ack"}) + p.pipes
    BY <1>2 DEF Fits
  <2> QED
    BY <1>4, <1>5, <1>7, <2>1
<1>9. Expected(o, p, rest) = {}
  BY <1>7, <1>8, FS_EmptySet
<1>10. /\ \A i \in DOMAIN rest : rest[i][1] \notin Announced
       /\ \A i \in DOMAIN rest : rest[i][1] # "term_ack"
  BY <1>3, <1>6, <1>8, CountType
<1>11. \A c : ~Has(rest, <<"own", c>>)
  BY <1>10, CommandTypes DEF Has, Announced
<1>12. Children(o) = {}
  BY <1>2, <1>9, <1>11 DEF Expected
<1>13. Answered(rest)
  BY <1>3, <1>12 DEF IInv, Requests
<1>14. \A i \in DOMAIN rest : rest[i][1] # "term_req"
  BY <1>10, <1>13 DEF Answered
<1>15. \A i \in DOMAIN rest : rest[i][1] # "term"
  <2>1. \A i \in DOMAIN rest : rest[i] \in Commands /\ rest[i] # <<"term">>
    BY <1>2, <1>3 DEF Has
  <2>2. \A e \in Commands : e[1] = "term" => e = <<"term">>
    BY CommandTypes
  <2> QED
    BY <2>1, <2>2
<1>16. rest = <<>>
  BY <1>3, <1>10, <1>14, <1>15, NothingIn DEF Types, Announced
<1> QED
  BY <1>1, <1>2, <1>6, <1>12, <1>16

LEMMA Finishes ==
  ASSUME IInv, NEW o \in Object, NEW p, NEW rest, NEW T, Fits(o, p, rest, T), CanFinish(p),
         Become(o, p, rest, Terms(T)), UNCHANGED <<finding, launched, handed>>
  PROVE  IInv'
<1> DEFINE w == own[o].owner
           free == [p EXCEPT !.status = "free"]
<1>1. /\ o \in Live /\ own[o].launching = NULL
      /\ p \in Records /\ p.status = "live" /\ p.launching = NULL /\ p.owner = w
      /\ p.terminating /\ ~p.pending
      /\ o = Root \/ Terminal(o)
  BY DEF Fits, CanFinish
<1>2. /\ T = {} /\ rest = <<>> /\ Children(o) = {} /\ p.owned = {}
      /\ o = Root => finding = 0
  BY NothingIsLeft
<1>3. /\ w # o
      /\ o # Root => w \in Live
      /\ o = Root => w = NULL
  BY <1>1, NoCycle DEF IInv, Parents
<1>4. /\ mbox' \in [Object -> Seq(Commands)]
      /\ mbox'[o] = <<>>
      /\ \A x \in Object \ {o} : mbox'[x] = IF x = w THEN Append(mbox[x], <<"term_ack">>) ELSE mbox[x]
  <2>1. rest \in Seq(Commands)
    BY <1>2
  <2>2. T \in SUBSET Object /\ o \notin T /\ p.owner # o
    BY <1>1, <1>2, <1>3
  <2>3. /\ mbox' \in [Object -> Seq(Commands)]
        /\ mbox'[o] = rest
        /\ \A x \in Object \ {o} : mbox'[x] =
             IF x = p.owner THEN Append(mbox[x], <<"term_ack">>) ELSE mbox[x]
    <3>1. p \in Records /\ TypeOK /\ (CanFinish(p) => T = {})
      BY <1>1, <1>2 DEF IInv
    <3> QED
      BY <2>1, <2>2, <3>1, Becomes
  <2> QED
    BY <1>1, <1>2, <2>3
<1>5. own' = [own EXCEPT ![o] = free]
  BY DEF Become
<1>6. /\ free \in Records /\ free.status = "free" /\ free.launching = NULL /\ free.owned = {}
      /\ free.owner = w /\ ~free.pending
  BY <1>1, <1>2 DEF Records
<1> HIDE DEF free
<1>7. own' \in [Object -> Records]
  BY <1>5, <1>6 DEF IInv, TypeOK
<1>8. own'[o] = free /\ \A x \in Object \ {o} : own'[x] = own[x]
  BY <1>5 DEF IInv, TypeOK
<1>9. Live' = Live \ {o} /\ \A x \in Object : own'[x].owner = own[x].owner
  BY <1>6, <1>8 DEF Live
<1>10. \A x : Children(x)' = Children(x) \ {o}
  BY <1>9 DEF Children, Live
<1>11. \A x \in Live : own[x].owner # o
  BY <1>2 DEF Children
(* Nobody claims it. *)
<1>12. \A x \in Object : ~Claims(x, o)
  <2> SUFFICES ASSUME NEW x \in Object, Claims(x, o) PROVE FALSE
    OBVIOUS
  <2>1. o # Root /\ ~Terminal(o)
    BY NotRoot DEF IInv, Terminal
  <2> QED
    BY <1>1, <2>1
<1>13. \A x \in Object \ {o} :
         /\ mbox[x] \in Seq(Commands)
         /\ \A f : f # <<"term_ack">> => (Has(mbox'[x], f) <=> Has(mbox[x], f))
         /\ \A f : f # <<"term_ack">> /\ Once(mbox[x], f) => Once(mbox'[x], f)
         /\ Answered(mbox[x]) \/ x = w => Answered(mbox'[x])
         /\ Count(mbox'[x], Announced) = Count(mbox[x], Announced)
         /\ Count(mbox[x], {"term_ack"}) \in Nat
         /\ Count(mbox'[x], {"term_ack"}) = Count(mbox[x], {"term_ack"}) + (IF x = w THEN 1 ELSE 0)
  <2> TAKE x \in Object \ {o}
  <2>1. mbox[x] \in Seq(Commands) /\ <<"term_ack">> \in Commands /\ <<"term_ack">>[1] = "term_ack"
    BY CommandTypes DEF IInv, TypeOK
  <2>2. Count(mbox[x], {"term_ack"}) \in Nat /\ Count(mbox[x], Announced) \in Nat
    BY <2>1, CountType
  <2>3. CASE x = w
    <3>1. mbox'[x] = Append(mbox[x], <<"term_ack">>)
      BY <1>4, <2>3
    <3>2. /\ \A f : f # <<"term_ack">> => (Has(mbox'[x], f) <=> Has(mbox[x], f))
          /\ \A f : f # <<"term_ack">> /\ Once(mbox[x], f) => Once(mbox'[x], f)
      BY <2>1, <3>1, HasAdded
    <3>3. Answered(mbox'[x])
      BY <2>1, <3>1, AnsweredAdded
    <3>4. /\ Count(mbox'[x], Announced) = Count(mbox[x], Announced) + 0
          /\ Count(mbox'[x], {"term_ack"}) = Count(mbox[x], {"term_ack"}) + 1
      BY <2>1, <3>1, CountAdded DEF Announced
    <3> QED
      BY <2>1, <2>2, <2>3, <3>2, <3>3, <3>4
  <2>4. CASE x # w
    BY <1>4, <2>1, <2>2, <2>4
  <2> QED
    BY <2>3, <2>4
<1>14. \A c \in Object : <<"own", c>> # <<"term_ack">> /\ <<"term">> # <<"term_ack">>
  OBVIOUS
<1>15. \A x \in Object \ {o} : \A c \in Object : Claims(x, c)' <=> Claims(x, c)
  BY <1>8, <1>13, <1>14 DEF Claims
<1>16. \A c \in Object : ~Claims(o, c)'
  BY <1>4, <1>6, <1>8, OwnAssumption DEF Claims, Has
<1>17. \A c \in Object \ {o} : Terminal(c)' <=> Terminal(c)
  BY <1>8, <1>13, <1>14 DEF Terminal
<1>18. TypeOK'
  BY <1>4, <1>7 DEF IInv, TypeOK
<1>19. Parents'
  <2>1. /\ own'[Root].owner = NULL
        /\ \A x \in Live' \ {Root} : own'[x].owner \in Live'
    BY <1>9, <1>11, OwnAssumption DEF IInv, Parents, Live
  <2>2. ASSUME NEW S \in SUBSET Live', S # {}, \A x \in S \ {Root} : own'[x].owner \in S
        PROVE  Root \in S
    <3>1. S \in SUBSET Live /\ \A x \in S \ {Root} : own[x].owner \in S
      BY <1>9, <2>2 DEF Live
    <3> QED
      BY <2>2, <3>1 DEF IInv, Parents
  <2>3. IsFiniteSet(Live')
    BY <1>9, FS_Subset DEF IInv, Parents
  <2> QED
    BY <2>1, <2>2, <2>3 DEF Parents
<1>20. Gone'
  <2>1. \A x \in Object \ Live : x # o /\ mbox'[x] = mbox[x] /\ own'[x] = own[x]
    <3>1. \A x \in Object \ Live : x # o /\ x # w
      BY <1>1, <1>3, OwnAssumption
    <3> QED
      BY <1>4, <1>8, <3>1
  <2>2. \A x \in Object : own'[x].status = "free" <=> x = o \/ own[x].status = "free"
    BY <1>6, <1>8
  <2>3. \A x \in Object : own[x].status = "free" => x \in Object \ Live
    BY DEF Live
  <2>4. NoCommandToDeleted'
    BY <1>2, <1>4, <2>1, <2>2, <2>3, OwnAssumption DEF IInv, Gone, NoCommandToDeleted
  <2>5. \A x \in Object \ Live' : own'[x].launching = NULL /\ own'[x].owned = {}
    BY <1>6, <1>8, <1>9, <2>1 DEF IInv, Gone
  <2> QED
    BY <2>4, <2>5 DEF Gone
<1>21. Claimed'
  <2> SUFFICES ASSUME NEW x \in Object, NEW c \in Object
               PROVE  /\ Claims(x, c)' => c \in Children(x)' /\ ~Terminal(c)'
                      /\ own'[x].launching = c => ~Has(mbox'[x], <<"own", c>>) /\ c \notin own'[x].owned
                      /\ Has(mbox'[x], <<"own", c>>) => c \notin own'[x].owned
                      /\ Once(mbox'[x], <<"own", c>>)
    BY DEF Claimed
  <2>1. CASE x = o
    <3>1. own'[x].launching = NULL /\ mbox'[x] = <<>> /\ own'[x].owned = {}
      BY <1>4, <1>6, <1>8, <2>1
    <3>2. ~Claims(x, c)'
      BY <1>16, <2>1
    <3> QED
      BY <3>1, <3>2, OwnAssumption DEF Once
  <2>2. CASE x # o
    <3>1. Claims(x, c)' => Claims(x, c) /\ c # o
      BY <1>12, <1>15, <2>2
    <3>2. Claims(x, c)' => c \in Children(x)' /\ ~Terminal(c)'
      BY <1>10, <1>17, <3>1 DEF IInv, Claimed
    <3>3. own'[x] = own[x]
      BY <1>8, <2>2
    <3>4. (Has(mbox'[x], <<"own", c>>) <=> Has(mbox[x], <<"own", c>>)) /\ Once(mbox'[x], <<"own", c>>)
      BY <1>13, <1>14, <2>2 DEF IInv, Claimed
    <3> QED
      BY <3>2, <3>3, <3>4 DEF IInv, Claimed
  <2> QED
    BY <2>1, <2>2
<1>22. Asked'
  <2>1. \A x \in Object \ {o} :
          /\ own'[x].terminating => ~own'[x].pending /\ own'[x].owned = {}
          /\ own'[x].terminating \/ own'[x].pending => ~Has(mbox'[x], <<"term">>)
          /\ Once(mbox'[x], <<"term">>)
    BY <1>8, <1>13, <1>14 DEF IInv, Asked
  <2>2. ~own'[o].pending /\ own'[o].owned = {} /\ ~Has(mbox'[o], <<"term">>) /\ Once(mbox'[o], <<"term">>)
    BY <1>4, <1>6, <1>8 DEF Has, Once
  <2>3. ~Has(mbox'[Root], <<"term">>)
    <3>1. CASE Root = o
      BY <2>2, <3>1
    <3>2. CASE Root # o
      BY <1>13, <1>14, <3>2, OwnAssumption DEF IInv, Asked
    <3> QED
      BY <3>1, <3>2
  <2> QED
    BY <2>1, <2>2, <2>3 DEF Asked
<1>23. Seqnums'
  <2> SUFFICES ASSUME NEW x \in Live'
               PROVE  own'[x].sent_seqnum = own'[x].processed_seqnum + Count(mbox'[x], Announced)
                                              + (IF x = Root THEN finding ELSE 0)
    BY DEF Seqnums
  <2>1. x \in Live /\ x \in Object \ {o}
    BY <1>9 DEF Live
  <2>2. own'[x] = own[x] /\ Count(mbox'[x], Announced) = Count(mbox[x], Announced)
    BY <1>8, <1>13, <2>1
  <2> QED
    BY <2>1, <2>2 DEF IInv, Seqnums
<1>24. AcksMatch'
  <2> SUFFICES ASSUME NEW x \in Live'
               PROVE  own'[x].term_acks = Cardinality({c \in Children(x)' : ~Claims(x, c)'})
                                            + Count(mbox'[x], {"term_ack"})
                                            + (IF own'[x].terminating THEN own'[x].pipes ELSE 0)
    BY DEF AcksMatch
  <2> DEFINE A == {c \in Children(x) : ~Claims(x, c)}
             B == {c \in Children(x)' : ~Claims(x, c)'}
  <2>1. x \in Live /\ x \in Object \ {o}
    BY <1>9 DEF Live
  <2>2. own'[x] = own[x] /\ own[x] \in Records
    BY <1>8, <2>1 DEF IInv, TypeOK
  <2>3. own[x].term_acks = Cardinality(A) + Count(mbox[x], {"term_ack"})
                             + (IF own[x].terminating THEN own[x].pipes ELSE 0)
    BY <2>1 DEF IInv, AcksMatch
  <2>4. IsFiniteSet(A) /\ Cardinality(A) \in Nat
    <3>1. IsFiniteSet(Live) /\ A \subseteq Live
      BY DEF IInv, Parents, Children
    <3> QED
      BY <3>1, FS_Subset, FS_CardinalityType
  <2>5. B = A \ {o}
    <3>1. \A c \in Children(x) : c \in Object
      BY DEF Children, Live
    <3> QED
      BY <1>10, <1>15, <2>1, <3>1
  <2>6. o \in A <=> x = w
    BY <1>1, <1>12, <2>1 DEF Children
  <2>7. Cardinality(A) # 0 \/ o \notin A
    BY <2>4, FS_EmptySet
  <2>8. Cardinality(B) = IF x = w THEN Cardinality(A) - 1 ELSE Cardinality(A)
    BY <2>4, <2>5, <2>6, FS_RemoveElement
  <2>9. /\ Count(mbox[x], {"term_ack"}) \in Nat
        /\ Count(mbox'[x], {"term_ack"}) = Count(mbox[x], {"term_ack"}) + (IF x = w THEN 1 ELSE 0)
    BY <1>13, <2>1
  <2>10. own[x].pipes \in Nat
    BY <2>2 DEF Records
  <2> HIDE DEF A, B, w
  <2>11. Cardinality(A) + Count(mbox[x], {"term_ack"}) = Cardinality(B) + Count(mbox'[x], {"term_ack"})
    BY <2>4, <2>8, <2>9
  <2>12. own'[x].term_acks = Cardinality(B) + Count(mbox'[x], {"term_ack"})
                               + (IF own'[x].terminating THEN own'[x].pipes ELSE 0)
    BY <2>2, <2>3, <2>11
  <2> QED
    BY <2>12 DEF B
<1>25. Requests'
  <2> SUFFICES ASSUME NEW x \in Object, Children(x)' = {} PROVE Answered(mbox'[x])
    BY DEF Requests
  <2>1. CASE x = o
    BY <1>4, <2>1 DEF Answered
  <2>2. CASE x = w /\ x # o
    BY <1>13, <2>2
  <2>3. CASE x # w /\ x # o
    <3>1. o \notin Children(x)
      BY <2>3 DEF Children
    <3>2. Children(x) = {}
      BY <1>10, <3>1
    <3> QED
      BY <1>13, <2>3, <3>2 DEF IInv, Requests
  <2> QED
    BY <2>1, <2>2, <2>3
<1> QED
  BY <1>18, <1>19, <1>20, <1>21, <1>22, <1>23, <1>24, <1>25 DEF IInv

(* A handler that makes of o what may be made of it keeps the invariant.   *)
LEMMA Handles ==
  ASSUME IInv, NEW o \in Object, NEW p, NEW rest, NEW T, Fits(o, p, rest, T),
         Become(o, p, rest, Terms(T)), UNCHANGED <<finding, launched, handed>>
  PROVE  IInv'
BY Stays, Finishes
-----------------------------------------------------------------------------
(* What o waits for with a mailbox and owned children that have changed:   *)
(* the children in S are claimed no more.                                  *)
LEMMA ExpectedMore ==
  ASSUME IInv, NEW o \in Live, NEW p, NEW rest, NEW S \in SUBSET Object,
         \A c \in S : Claims(o, c),
         \A c \in Object : c \in p.owned \/ Has(rest, <<"own", c>>) <=> Claims(o, c) /\ c \notin S
  PROVE  /\ IsFiniteSet(S) /\ Cardinality(S) \in Nat
         /\ Cardinality({c \in Children(o) : ~Claims(o, c)}) \in Nat
         /\ Cardinality(Expected(o, p, rest)) =
              Cardinality({c \in Children(o) : ~Claims(o, c)}) + Cardinality(S)
<1> DEFINE A == {c \in Children(o) : ~Claims(o, c)}
<1>1. o \in Object /\ Children(o) \subseteq Live /\ Live \subseteq Object
  BY DEF Live, Children
<1>2. S \subseteq Children(o)
  BY <1>1 DEF IInv, Claimed
<1>3. IsFiniteSet(Live) /\ A \subseteq Live /\ S \subseteq Live
  BY <1>1, <1>2 DEF IInv, Parents
<1>4. IsFiniteSet(A) /\ IsFiniteSet(S)
  BY <1>3, FS_Subset
<1>5. Cardinality(A) \in Nat /\ Cardinality(S) \in Nat
  BY <1>4, FS_CardinalityType
<1>6. Expected(o, p, rest) = A \cup S
  BY <1>1, <1>2 DEF Expected
<1>7. A \cap S = {}
  OBVIOUS
<1>8. Cardinality(A \cup S) = Cardinality(A) + Cardinality(S) - Cardinality(A \cap S)
  BY <1>4, FS_Union
<1>9. Cardinality(A \cap S) = 0
  BY <1>7, FS_EmptySet
<1> QED
  BY <1>4, <1>5, <1>6, <1>8, <1>9

(* A handler takes at most the first command, keeps the sequence numbers   *)
(* in step, and waits for as many acks more as it asks children.           *)
PipeAcks(p) == IF p.terminating THEN p.pipes ELSE 0

LEMMA Handled ==
  ASSUME IInv, NEW o \in Object, Runs(o), NEW p \in Records, NEW rest, NEW S \in SUBSET Object,
         p.status = "live", p.launching = NULL, p.owner = own[o].owner,
         Rest(mbox[o], rest),
         \A c \in S : Claims(o, c),
         \A c \in Object : c \in p.owned \/ Has(rest, <<"own", c>>) <=> Claims(o, c) /\ c \notin S,
         \A c \in p.owned : ~Has(rest, <<"own", c>>),
         p.terminating => ~p.pending /\ p.owned = {},
         p.terminating \/ p.pending => ~Has(rest, <<"term">>) /\ (o = Root \/ Terminal(o)),
         p.sent_seqnum = own[o].sent_seqnum,
         p.processed_seqnum + Count(rest, Announced) =
           own[o].processed_seqnum + Count(mbox[o], Announced),
         p.term_acks + PipeAcks(own[o]) + Count(mbox[o], {"term_ack"}) =
           own[o].term_acks + Cardinality(S) + PipeAcks(p) + Count(rest, {"term_ack"}),
         Become(o, p, rest, Terms(S)), UNCHANGED <<finding, launched, handed>>
  PROVE  IInv'
<1>1. o \in Live /\ own[o].launching = NULL /\ own[o] \in Records
  BY DEF Runs, Live, IInv, TypeOK
<1>2. mbox[o] \in Seq(Commands) /\ rest \in Seq(Commands)
  BY Rests DEF IInv, TypeOK
<1>3. /\ Count(mbox[o], Announced) \in Nat /\ Count(rest, Announced) \in Nat
      /\ Count(mbox[o], {"term_ack"}) \in Nat /\ Count(rest, {"term_ack"}) \in Nat
  BY <1>2, CountType
<1>4. /\ own[o].sent_seqnum \in Nat /\ own[o].processed_seqnum \in Nat /\ own[o].term_acks \in Nat
      /\ p.processed_seqnum \in Nat /\ p.term_acks \in Nat
      /\ PipeAcks(own[o]) \in Nat /\ PipeAcks(p) \in Nat /\ finding \in Nat
  BY <1>1 DEF IInv, TypeOK, Records, PipeAcks
<1> DEFINE n == Cardinality({c \in Children(o) : ~Claims(o, c)})
<1>5. /\ Cardinality(S) \in Nat /\ n \in Nat
      /\ Cardinality(Expected(o, p, rest)) = n + Cardinality(S)
  BY <1>1, ExpectedMore
<1>6. own[o].term_acks = n + Count(mbox[o], {"term_ack"}) + PipeAcks(own[o])
  BY <1>1 DEF IInv, AcksMatch, PipeAcks
<1> HIDE DEF n
<1>7. p.term_acks = Cardinality(Expected(o, p, rest)) + Count(rest, {"term_ack"}) + PipeAcks(p)
  BY <1>3, <1>4, <1>5, <1>6
<1>8. own[o].sent_seqnum = own[o].processed_seqnum + Count(mbox[o], Announced)
                             + (IF o = Root THEN finding ELSE 0)
  BY <1>1 DEF IInv, Seqnums
<1>9. p.sent_seqnum = p.processed_seqnum + Count(rest, Announced) + (IF o = Root THEN finding ELSE 0)
  BY <1>3, <1>4, <1>8
<1>10. \A c \in S : c \in Object /\ Claims(o, c) /\ c \notin p.owned /\ ~Has(rest, <<"own", c>>)
  OBVIOUS
<1>11. \A c \in p.owned : Claims(o, c) /\ ~Has(rest, <<"own", c>>)
  <2>1. p.owned \subseteq Object
    BY DEF Records
  <2> QED
    BY <2>1
<1>12. Fits(o, p, rest, S)
  BY <1>1, <1>7, <1>9, <1>10, <1>11 DEF Fits, PipeAcks
<1> QED
  BY <1>12, Handles

(* What the first command says about the rest of the mailbox. *)
LEMMA First ==
  ASSUME IInv, NEW o \in Object, Runs(o), mbox[o] # <<>>
  PROVE  /\ Tail(mbox[o]) \in Seq(Commands) /\ Head(mbox[o]) \in Commands
         /\ Rest(mbox[o], Tail(mbox[o]))
         /\ Count(Tail(mbox[o]), Announced) \in Nat /\ Count(Tail(mbox[o]), {"term_ack"}) \in Nat
         /\ Count(mbox[o], Announced) =
              Count(Tail(mbox[o]), Announced) + (IF Head(mbox[o])[1] \in Announced THEN 1 ELSE 0)
         /\ Count(mbox[o], {"term_ack"}) =
              Count(Tail(mbox[o]), {"term_ack"}) + (IF Head(mbox[o])[1] = "term_ack" THEN 1 ELSE 0)
         /\ \A c \in Object : Claims(o, c) <=> \/ c \in own[o].owned
                                               \/ Has(Tail(mbox[o]), <<"own", c>>)
                                               \/ Head(mbox[o]) = <<"own", c>>
         /\ \A c \in Object : c \in own[o].owned => ~Has(Tail(mbox[o]), <<"own", c>>)
         /\ \A c \in Object : Head(mbox[o]) = <<"own", c>> =>
              ~Has(Tail(mbox[o]), <<"own", c>>) /\ c \notin own[o].owned
         /\ Has(mbox[o], <<"term">>) <=> Has(Tail(mbox[o]), <<"term">>) \/ Head(mbox[o])[1] = "term"
         /\ Head(mbox[o])[1] = "term" =>
              /\ ~Has(Tail(mbox[o]), <<"term">>) /\ o # Root /\ Terminal(o)
              /\ ~own[o].terminating /\ ~own[o].pending
<1> DEFINE box == mbox[o]
<1>1. box \in Seq(Commands) /\ own[o].launching = NULL
  BY DEF IInv, TypeOK, Runs
<1>2. Tail(box) \in Seq(Commands) /\ Head(box) \in Commands /\ Rest(box, Tail(box))
  BY <1>1, Taken DEF Rest
<1>3. Count(Tail(box), Announced) \in Nat /\ Count(Tail(box), {"term_ack"}) \in Nat
  BY <1>2, CountType
<1>4. /\ Count(box, Announced) =
           Count(Tail(box), Announced) + (IF Head(box)[1] \in Announced THEN 1 ELSE 0)
      /\ Count(box, {"term_ack"}) =
           Count(Tail(box), {"term_ack"}) + (IF Head(box)[1] \in {"term_ack"} THEN 1 ELSE 0)
  BY <1>1, CountTaken
<1>5. \A f : /\ Has(box, f) <=> Has(Tail(box), f) \/ Head(box) = f
             /\ Once(box, f) => Once(Tail(box), f) /\ (Head(box) = f => ~Has(Tail(box), f))
  BY <1>1, HasTaken
<1>6. \A c \in Object : /\ Once(box, <<"own", c>>)
                        /\ Has(box, <<"own", c>>) => c \notin own[o].owned
  BY DEF IInv, Claimed
<1>7. \A c \in Object : Claims(o, c) <=> c \in own[o].owned \/ Has(box, <<"own", c>>)
  BY <1>1, OwnAssumption DEF Claims
<1>8. Head(box)[1] = "term" <=> Head(box) = <<"term">>
  <2>1. \A e \in Commands : e[1] = "term" => e = <<"term">>
    BY CommandTypes
  <2>2. <<"term">>[1] = "term"
    OBVIOUS
  <2> QED
    BY <1>2, <2>1, <2>2
<1>9. Has(box, <<"term">>) => /\ o # Root /\ Terminal(o)
                              /\ ~own[o].terminating /\ ~own[o].pending
                              /\ Once(box, <<"term">>)
  BY DEF IInv, Asked, Terminal
<1> QED
  BY <1>2, <1>3, <1>4, <1>5, <1>6, <1>7, <1>8, <1>9

(* Asking nobody. *)
LEMMA AsksNobody == NoCommands = Terms({}) /\ Cardinality({}) = 0
BY FS_EmptySet DEF NoCommands, Terms

(* A handler of a command that is not own, and that asks nobody. *)
LEMMA Took ==
  ASSUME IInv, NEW o \in Object, Runs(o), mbox[o] # <<>>, Head(mbox[o])[1] # "own",
         NEW p \in Records,
         p.status = "live", p.launching = NULL, p.owner = own[o].owner, p.owned = own[o].owned,
         p.terminating = own[o].terminating,
         p.pending => own[o].pending \/ Head(mbox[o])[1] = "term",
         p.sent_seqnum = own[o].sent_seqnum,
         p.processed_seqnum = own[o].processed_seqnum
                                + (IF Head(mbox[o])[1] \in Announced THEN 1 ELSE 0),
         p.term_acks + PipeAcks(own[o]) + (IF Head(mbox[o])[1] = "term_ack" THEN 1 ELSE 0) =
           own[o].term_acks + PipeAcks(p),
         Become(o, p, Tail(mbox[o]), NoCommands), UNCHANGED <<finding, launched, handed>>
  PROVE  IInv'
<1> DEFINE rest == Tail(mbox[o])
<1>1. own[o] \in Records
  BY DEF IInv, TypeOK
<1>2. /\ own[o].processed_seqnum \in Nat /\ own[o].term_acks \in Nat /\ p.term_acks \in Nat
      /\ PipeAcks(own[o]) \in Nat /\ PipeAcks(p) \in Nat
  BY <1>1 DEF Records, PipeAcks
<1>3. /\ Rest(mbox[o], rest)
      /\ Count(rest, Announced) \in Nat /\ Count(rest, {"term_ack"}) \in Nat
      /\ Count(mbox[o], Announced) =
           Count(rest, Announced) + (IF Head(mbox[o])[1] \in Announced THEN 1 ELSE 0)
      /\ Count(mbox[o], {"term_ack"}) =
           Count(rest, {"term_ack"}) + (IF Head(mbox[o])[1] = "term_ack" THEN 1 ELSE 0)
  BY First
<1>4. /\ \A c \in Object : Head(mbox[o]) # <<"own", c>>
      /\ p.owned \subseteq Object
  BY CommandTypes DEF Records
<1>5. /\ \A c \in Object : c \in p.owned \/ Has(rest, <<"own", c>>) <=> Claims(o, c) /\ c \notin {}
      /\ \A c \in p.owned : ~Has(rest, <<"own", c>>)
  BY <1>4, First
<1>6. /\ Has(mbox[o], <<"term">>) <=> Has(rest, <<"term">>) \/ Head(mbox[o])[1] = "term"
      /\ Head(mbox[o])[1] = "term" =>
           ~Has(rest, <<"term">>) /\ Terminal(o) /\ ~own[o].terminating /\ ~own[o].pending
  BY First
<1>7. /\ own[o].terminating => ~own[o].pending /\ own[o].owned = {}
      /\ own[o].terminating \/ own[o].pending => ~Has(mbox[o], <<"term">>) /\ Terminal(o)
  BY DEF IInv, Asked, Terminal
<1>8. /\ p.terminating => ~p.pending /\ p.owned = {}
      /\ p.terminating \/ p.pending => ~Has(rest, <<"term">>) /\ (o = Root \/ Terminal(o))
  BY <1>6, <1>7
<1> HIDE DEF rest
<1>9. /\ p.processed_seqnum + Count(rest, Announced) =
           own[o].processed_seqnum + Count(mbox[o], Announced)
      /\ p.term_acks + PipeAcks(own[o]) + Count(mbox[o], {"term_ack"}) =
           own[o].term_acks + 0 + PipeAcks(p) + Count(rest, {"term_ack"})
  <2> DEFINE x == IF Head(mbox[o])[1] \in Announced THEN 1 ELSE 0
             y == IF Head(mbox[o])[1] = "term_ack" THEN 1 ELSE 0
  <2>1. x \in Nat /\ y \in Nat
    OBVIOUS
  <2>2. /\ p.processed_seqnum = own[o].processed_seqnum + x
        /\ p.term_acks + PipeAcks(own[o]) + y = own[o].term_acks + PipeAcks(p)
        /\ Count(mbox[o], Announced) = Count(rest, Announced) + x
        /\ Count(mbox[o], {"term_ack"}) = Count(rest, {"term_ack"}) + y
    BY <1>3
  <2> HIDE DEF x, y
  <2> QED
    BY ONLY <1>2, <1>3, <2>1, <2>2
<1>10. Become(o, p, rest, Terms({})) /\ Cardinality({}) = 0
  BY AsksNobody DEF rest
<1> QED
  BY <1>3, <1>5, <1>8, <1>9, <1>10, Handled

LEMMA CountedRecord ==
  ASSUME NEW q \in Records
  PROVE  /\ Counted(q) \in Records
         /\ Counted(q).status = q.status /\ Counted(q).launching = q.launching
         /\ Counted(q).owner = q.owner /\ Counted(q).owned = q.owned
         /\ Counted(q).terminating = q.terminating /\ Counted(q).pending = q.pending
         /\ Counted(q).term_acks = q.term_acks /\ PipeAcks(Counted(q)) = PipeAcks(q)
         /\ Counted(q).sent_seqnum = q.sent_seqnum
         /\ Counted(q).processed_seqnum = q.processed_seqnum + 1
BY DEF Counted, Records, PipeAcks

(* The commands one by one. *)
LEMMA PlugStep == ASSUME IInv, NEW o \in Object, process_plug(o) PROVE IInv'
<1> DEFINE q == [own[o] EXCEPT !.plugged = TRUE]
<1>1. /\ Runs(o) /\ mbox[o] # <<>> /\ Head(mbox[o])[1] = "plug"
      /\ Become(o, Counted(q), Tail(mbox[o]), NoCommands) /\ UNCHANGED <<finding, launched, handed>>
  BY DEF process_plug, Receives
<1>2. own[o] \in Records /\ own[o].status = "live" /\ own[o].launching = NULL
  BY <1>1 DEF IInv, TypeOK, Runs
<1>3. /\ q \in Records /\ q.status = "live" /\ q.launching = NULL
      /\ q.owner = own[o].owner /\ q.owned = own[o].owned
      /\ q.terminating = own[o].terminating /\ q.pending = own[o].pending
      /\ q.term_acks = own[o].term_acks /\ PipeAcks(q) = PipeAcks(own[o])
      /\ q.sent_seqnum = own[o].sent_seqnum /\ q.processed_seqnum = own[o].processed_seqnum
  BY <1>2 DEF Records, PipeAcks
<1>4. own[o].term_acks \in Nat /\ PipeAcks(own[o]) \in Nat
  BY <1>2 DEF Records, PipeAcks
<1> HIDE DEF q
<1>5. "plug" \in Announced
  BY DEF Announced
<1> QED
  BY <1>1, <1>3, <1>4, <1>5, CountedRecord, Took

LEMMA AttachStep == ASSUME IInv, NEW o \in Object, process_attach(o) PROVE IInv'
<1>1. /\ Runs(o) /\ mbox[o] # <<>> /\ Head(mbox[o])[1] = "attach"
      /\ Become(o, Counted(own[o]), Tail(mbox[o]), NoCommands)
      /\ UNCHANGED <<finding, launched, handed>>
  BY DEF process_attach, Receives
<1>2. own[o] \in Records /\ own[o].status = "live" /\ own[o].launching = NULL
  BY <1>1 DEF IInv, TypeOK, Runs
<1>3. own[o].term_acks \in Nat /\ PipeAcks(own[o]) \in Nat
  BY <1>2 DEF Records, PipeAcks
<1>4. "attach" \in Announced
  BY DEF Announced
<1> QED
  BY <1>1, <1>2, <1>3, <1>4, CountedRecord, Took

LEMMA BindStep == ASSUME IInv, NEW o \in Object, process_bind(o) PROVE IInv'
<1> DEFINE k == IF own[o].terminating THEN own[o].term_acks + 1 ELSE own[o].term_acks
           q == [own[o] EXCEPT !.pipes = @ + 1, !.term_acks = k]
<1>1. /\ Runs(o) /\ mbox[o] # <<>> /\ Head(mbox[o])[1] = "bind"
      /\ Become(o, Counted(q), Tail(mbox[o]), NoCommands) /\ UNCHANGED <<finding, launched, handed>>
  BY DEF process_bind, Receives
<1>2. own[o] \in Records /\ own[o].status = "live" /\ own[o].launching = NULL
  BY <1>1 DEF IInv, TypeOK, Runs
<1>3. own[o].term_acks \in Nat /\ own[o].pipes \in Nat /\ k \in Nat
  BY <1>2 DEF Records
<1> HIDE DEF k
<1>4. /\ q \in Records /\ q.status = "live" /\ q.launching = NULL
      /\ q.owner = own[o].owner /\ q.owned = own[o].owned
      /\ q.terminating = own[o].terminating /\ q.pending = own[o].pending
      /\ q.sent_seqnum = own[o].sent_seqnum /\ q.processed_seqnum = own[o].processed_seqnum
      /\ q.term_acks = k /\ q.pipes = own[o].pipes + 1
  <2>1. own[o].pipes + 1 \in Nat
    BY <1>3
  <2>2. q \in Records
    BY <1>2, <1>3, <2>1 DEF Records
  <2>3. /\ q.status = "live" /\ q.launching = NULL
        /\ q.owner = own[o].owner /\ q.owned = own[o].owned
        /\ q.terminating = own[o].terminating /\ q.pending = own[o].pending
    BY <1>2 DEF Records
  <2>4. /\ q.sent_seqnum = own[o].sent_seqnum /\ q.processed_seqnum = own[o].processed_seqnum
        /\ q.term_acks = k /\ q.pipes = own[o].pipes + 1
    BY <1>2 DEF Records
  <2> QED
    BY <2>2, <2>3, <2>4
<1> HIDE DEF q
<1>5. q.term_acks + PipeAcks(own[o]) = own[o].term_acks + PipeAcks(q)
  BY <1>3, <1>4 DEF PipeAcks, k
<1>6. q.term_acks \in Nat /\ PipeAcks(own[o]) \in Nat /\ PipeAcks(q) \in Nat
  BY <1>3, <1>4 DEF PipeAcks
<1>7. "bind" \in Announced
  BY DEF Announced
<1>8. Counted(q).term_acks + PipeAcks(own[o]) + 0 = own[o].term_acks + PipeAcks(Counted(q))
  BY <1>4, <1>5, <1>6, CountedRecord
<1> QED
  BY <1>1, <1>4, <1>7, <1>8, CountedRecord, Took

LEMMA TermAckStep == ASSUME IInv, NEW o \in Object, process_term_ack(o) PROVE IInv'
<1> DEFINE p == [own[o] EXCEPT !.term_acks = @ - 1]
<1>1. /\ Runs(o) /\ mbox[o] # <<>> /\ Head(mbox[o])[1] = "term_ack"
      /\ Become(o, p, Tail(mbox[o]), NoCommands) /\ UNCHANGED <<finding, launched, handed>>
  BY DEF process_term_ack, Receives
<1>2. own[o] \in Records /\ own[o].status = "live" /\ own[o].launching = NULL /\ o \in Live
  BY <1>1 DEF IInv, TypeOK, Runs, Live
<1>3. own[o].term_acks \in Nat /\ PipeAcks(own[o]) \in Nat /\ own[o].processed_seqnum \in Nat
  BY <1>2 DEF Records, PipeAcks
<1>4. own[o].term_acks # 0
  <2>1. Count(mbox[o], {"term_ack"}) = Count(Tail(mbox[o]), {"term_ack"}) + 1
        /\ Count(Tail(mbox[o]), {"term_ack"}) \in Nat
    BY <1>1, First
  <2>2. Cardinality({c \in Children(o) : ~Claims(o, c)}) \in Nat
    <3>1. IsFiniteSet(Live) /\ {c \in Children(o) : ~Claims(o, c)} \subseteq Live
      BY DEF IInv, Parents, Children
    <3> QED
      BY <3>1, FS_Subset, FS_CardinalityType
  <2>3. own[o].term_acks = Cardinality({c \in Children(o) : ~Claims(o, c)})
                             + Count(mbox[o], {"term_ack"}) + PipeAcks(own[o])
    BY <1>2 DEF IInv, AcksMatch, PipeAcks
  <2> QED
    BY <1>3, <2>1, <2>2, <2>3
<1>5. /\ p \in Records /\ p.status = "live" /\ p.launching = NULL
      /\ p.owner = own[o].owner /\ p.owned = own[o].owned
      /\ p.terminating = own[o].terminating /\ p.pending = own[o].pending
      /\ p.term_acks = own[o].term_acks - 1 /\ PipeAcks(p) = PipeAcks(own[o])
      /\ p.sent_seqnum = own[o].sent_seqnum /\ p.processed_seqnum = own[o].processed_seqnum
  BY <1>2, <1>3, <1>4 DEF Records, PipeAcks
<1> HIDE DEF p
<1>6. "term_ack" \notin Announced
  BY DEF Announced
<1>7. p.term_acks + PipeAcks(own[o]) + 1 = own[o].term_acks + PipeAcks(p)
  BY <1>3, <1>5
<1> QED
  BY <1>1, <1>3, <1>5, <1>6, <1>7, Took

LEMMA OwnStep == ASSUME IInv, NEW o \in Object, process_own(o) PROVE IInv'
<1> DEFINE c == Head(mbox[o])[2]
           rest == Tail(mbox[o])
<1>1. /\ Runs(o) /\ mbox[o] # <<>> /\ Head(mbox[o])[1] = "own"
      /\ UNCHANGED <<finding, launched, handed>>
  BY DEF process_own, Receives
<1>2. own[o] \in Records /\ own[o].status = "live" /\ own[o].launching = NULL
  BY <1>1 DEF IInv, TypeOK, Runs
<1>3. /\ own[o].term_acks \in Nat /\ PipeAcks(own[o]) \in Nat /\ own[o].processed_seqnum \in Nat
      /\ own[o].owned \subseteq Object
  BY <1>2 DEF Records, PipeAcks
<1>4. c \in Object /\ Head(mbox[o]) = <<"own", c>> /\ \A x \in Object : Head(mbox[o]) = <<"own", x>> => x = c
  BY <1>1, First, CommandTypes
<1>5. /\ \A x \in Object : Claims(o, x) <=> x \in own[o].owned \/ Has(rest, <<"own", x>>) \/ x = c
      /\ \A x \in Object : x \in own[o].owned => ~Has(rest, <<"own", x>>)
      /\ ~Has(rest, <<"own", c>>) /\ c \notin own[o].owned
  BY <1>1, <1>4, First
<1>6. /\ Rest(mbox[o], rest)
      /\ Count(rest, Announced) \in Nat /\ Count(rest, {"term_ack"}) \in Nat
      /\ Count(mbox[o], Announced) = Count(rest, Announced) + 1
      /\ Count(mbox[o], {"term_ack"}) = Count(rest, {"term_ack"})
      /\ Has(rest, <<"term">>) => Has(mbox[o], <<"term">>)
  <2>1. "own" \in Announced
    BY DEF Announced
  <2> QED
    BY <1>1, <2>1, First
<1>7. /\ own[o].terminating => ~own[o].pending /\ own[o].owned = {}
      /\ own[o].terminating \/ own[o].pending => ~Has(mbox[o], <<"term">>) /\ Terminal(o)
  BY DEF IInv, Asked, Terminal
<1> HIDE DEF c, rest
<1>8. CASE own[o].terminating
  <2> DEFINE q == [own[o] EXCEPT !.term_acks = @ + 1]
  <2>1. Become(o, Counted(q), rest, Terms({c}))
    BY <1>8 DEF process_own, c, rest
  <2>2. /\ q \in Records /\ q.status = "live" /\ q.launching = NULL
        /\ q.owner = own[o].owner /\ q.owned = own[o].owned
        /\ q.terminating = own[o].terminating /\ q.pending = own[o].pending
        /\ q.term_acks = own[o].term_acks + 1 /\ PipeAcks(q) = PipeAcks(own[o])
        /\ q.sent_seqnum = own[o].sent_seqnum /\ q.processed_seqnum = own[o].processed_seqnum
    BY <1>2, <1>3 DEF Records, PipeAcks
  <2> HIDE DEF q
  <2> DEFINE p == Counted(q)
  <2>3. /\ p \in Records /\ p.status = "live" /\ p.launching = NULL
        /\ p.owner = own[o].owner /\ p.owned = {}
        /\ p.terminating /\ ~p.pending
        /\ p.term_acks = own[o].term_acks + 1 /\ PipeAcks(p) = PipeAcks(own[o])
        /\ p.sent_seqnum = own[o].sent_seqnum /\ p.processed_seqnum = own[o].processed_seqnum + 1
    BY <1>7, <1>8, <2>2, CountedRecord
  <2> HIDE DEF p
  <2>4. \A x \in {c} : Claims(o, x)
    BY <1>4, <1>5
  <2>5. \A x \in Object : x \in p.owned \/ Has(rest, <<"own", x>>) <=> Claims(o, x) /\ x \notin {c}
    BY <1>5, <1>7, <1>8, <2>3
  <2>6. Cardinality({c}) = 1
    BY FS_Singleton
  <2>7. /\ p.processed_seqnum + Count(rest, Announced) =
             own[o].processed_seqnum + Count(mbox[o], Announced)
        /\ p.term_acks + PipeAcks(own[o]) + Count(mbox[o], {"term_ack"}) =
             own[o].term_acks + Cardinality({c}) + PipeAcks(p) + Count(rest, {"term_ack"})
    BY ONLY <1>3, <1>6, <2>3, <2>6
  <2>8. ~Has(rest, <<"term">>) /\ Terminal(o) /\ {c} \in SUBSET Object
    BY <1>4, <1>6, <1>7, <1>8
  <2>9. Become(o, p, rest, Terms({c}))
    BY <2>1 DEF p
  <2> QED
    BY <1>1, <1>6, <2>3, <2>4, <2>5, <2>7, <2>8, <2>9, Handled
<1>9. CASE ~own[o].terminating
  <2> DEFINE q == [own[o] EXCEPT !.owned = @ \cup {c}]
  <2>1. Become(o, Counted(q), rest, Terms({}))
    BY <1>9, AsksNobody DEF process_own, c, rest
  <2>2. /\ q \in Records /\ q.status = "live" /\ q.launching = NULL
        /\ q.owner = own[o].owner /\ q.owned = own[o].owned \cup {c}
        /\ q.terminating = own[o].terminating /\ q.pending = own[o].pending
        /\ q.term_acks = own[o].term_acks /\ PipeAcks(q) = PipeAcks(own[o])
        /\ q.sent_seqnum = own[o].sent_seqnum /\ q.processed_seqnum = own[o].processed_seqnum
    BY <1>2, <1>4 DEF Records, PipeAcks
  <2> HIDE DEF q
  <2> DEFINE p == Counted(q)
  <2>3. /\ p \in Records /\ p.status = "live" /\ p.launching = NULL
        /\ p.owner = own[o].owner /\ p.owned = own[o].owned \cup {c}
        /\ ~p.terminating /\ p.pending = own[o].pending
        /\ p.term_acks = own[o].term_acks /\ PipeAcks(p) = PipeAcks(own[o])
        /\ p.sent_seqnum = own[o].sent_seqnum /\ p.processed_seqnum = own[o].processed_seqnum + 1
    BY <1>9, <2>2, CountedRecord
  <2> HIDE DEF p
  <2>4. /\ \A x \in Object : x \in p.owned \/ Has(rest, <<"own", x>>) <=> Claims(o, x) /\ x \notin {}
        /\ \A x \in p.owned : ~Has(rest, <<"own", x>>)
    BY <1>3, <1>5, <2>3
  <2>5. /\ p.processed_seqnum + Count(rest, Announced) =
             own[o].processed_seqnum + Count(mbox[o], Announced)
        /\ p.term_acks + PipeAcks(own[o]) + Count(mbox[o], {"term_ack"}) =
             own[o].term_acks + 0 + PipeAcks(p) + Count(rest, {"term_ack"})
    BY ONLY <1>3, <1>6, <2>3
  <2>6. p.terminating \/ p.pending => ~Has(rest, <<"term">>) /\ Terminal(o)
    BY <1>6, <1>7, <2>3
  <2>7. Become(o, p, rest, Terms({}))
    BY <2>1 DEF p
  <2> QED
    BY <1>1, <1>6, <2>3, <2>4, <2>5, <2>6, <2>7, AsksNobody, Handled
<1> QED
  BY <1>8, <1>9

(* The mailbox before and after a command that counts nowhere. *)
LEMMA Quiet ==
  ASSUME IInv, NEW o \in Object, Runs(o), NEW rest,
         \/ rest = mbox[o]
         \/ mbox[o] # <<>> /\ Head(mbox[o])[1] \in {"term", "term_req"} /\ rest = Tail(mbox[o])
  PROVE  /\ Rest(mbox[o], rest)
         /\ Count(rest, Announced) \in Nat /\ Count(rest, {"term_ack"}) \in Nat
         /\ Count(mbox[o], Announced) = Count(rest, Announced)
         /\ Count(mbox[o], {"term_ack"}) = Count(rest, {"term_ack"})
         /\ \A c \in Object : Claims(o, c) <=> c \in own[o].owned \/ Has(rest, <<"own", c>>)
         /\ \A c \in own[o].owned : c \in Object /\ ~Has(rest, <<"own", c>>)
         /\ own[o].terminating => ~own[o].pending /\ own[o].owned = {}
         /\ own[o].terminating \/ own[o].pending => ~Has(rest, <<"term">>) /\ Terminal(o)
<1>1. own[o].launching = NULL /\ own[o].owned \subseteq Object /\ mbox[o] \in Seq(Commands)
  BY DEF Runs, IInv, TypeOK, Records
<1>2. /\ \A c \in Object : Claims(o, c) <=> c \in own[o].owned \/ Has(mbox[o], <<"own", c>>)
      /\ \A c \in own[o].owned : c \in Object /\ ~Has(mbox[o], <<"own", c>>)
  BY <1>1, OwnAssumption DEF Claims, IInv, Claimed
<1>3. /\ own[o].terminating => ~own[o].pending /\ own[o].owned = {}
      /\ own[o].terminating \/ own[o].pending => ~Has(mbox[o], <<"term">>) /\ Terminal(o)
  BY DEF IInv, Asked, Terminal
<1>4. CASE rest = mbox[o]
  <2>1. Count(rest, Announced) \in Nat /\ Count(rest, {"term_ack"}) \in Nat
    BY <1>1, <1>4, CountType
  <2>2. Rest(mbox[o], rest)
    BY <1>4 DEF Rest
  <2>3. Count(mbox[o], Announced) = Count(rest, Announced) /\ Count(mbox[o], {"term_ack"}) = Count(rest, {"term_ack"})
    BY <1>4
  <2>4. /\ \A c \in Object : Claims(o, c) <=> c \in own[o].owned \/ Has(rest, <<"own", c>>)
        /\ \A c \in own[o].owned : c \in Object /\ ~Has(rest, <<"own", c>>)
    BY <1>2, <1>4
  <2>5. own[o].terminating \/ own[o].pending => ~Has(rest, <<"term">>) /\ Terminal(o)
    BY <1>3, <1>4
  <2> QED
    BY <1>3, <2>1, <2>2, <2>3, <2>4, <2>5
<1>5. CASE mbox[o] # <<>> /\ Head(mbox[o])[1] \in {"term", "term_req"} /\ rest = Tail(mbox[o])
  <2>1. /\ Head(mbox[o])[1] \notin Announced /\ Head(mbox[o])[1] # "term_ack"
        /\ \A c \in Object : Head(mbox[o]) # <<"own", c>>
    BY <1>5, CommandTypes DEF Announced
  <2>2. /\ Rest(mbox[o], rest)
        /\ Count(rest, Announced) \in Nat /\ Count(rest, {"term_ack"}) \in Nat
        /\ Count(mbox[o], Announced) = Count(rest, Announced) + 0
        /\ Count(mbox[o], {"term_ack"}) = Count(rest, {"term_ack"}) + 0
    BY <1>5, <2>1, First
  <2>3. \A f : Has(rest, f) => Has(mbox[o], f)
    BY <1>1, <2>2, Rests
  <2>4. \A c \in Object : Claims(o, c) <=> c \in own[o].owned \/ Has(rest, <<"own", c>>)
    BY <1>5, <2>1, First
  <2> QED
    BY <1>2, <1>3, <2>2, <2>3, <2>4
<1> QED
  BY <1>4, <1>5

(* A child is asked to terminate, at its own request or the user's. *)
LEMMA AskStep ==
  ASSUME IInv, NEW o \in Object, Runs(o), NEW rest, NEW c \in own[o].owned, ~own[o].terminating,
         \/ rest = mbox[o]
         \/ mbox[o] # <<>> /\ Head(mbox[o])[1] = "term_req" /\ rest = Tail(mbox[o]),
         Become(o, [own[o] EXCEPT !.owned = @ \ {c}, !.term_acks = @ + 1], rest, Terms({c})),
         UNCHANGED <<finding, launched, handed>>
  PROVE  IInv'
<1> DEFINE p == [own[o] EXCEPT !.owned = @ \ {c}, !.term_acks = @ + 1]
<1>1. own[o] \in Records /\ own[o].status = "live" /\ own[o].launching = NULL
  BY DEF IInv, TypeOK, Runs
<1>2. /\ own[o].term_acks \in Nat /\ PipeAcks(own[o]) \in Nat /\ own[o].processed_seqnum \in Nat
      /\ own[o].owned \subseteq Object /\ c \in Object
  BY <1>1 DEF Records, PipeAcks
<1>3. p \in Records
  <2>1. own[o].owned \ {c} \in SUBSET Object /\ own[o].term_acks + 1 \in Nat
    BY <1>2
  <2> QED
    BY <1>1, <2>1 DEF Records
<1>4. /\ p.status = "live" /\ p.launching = NULL
      /\ p.owner = own[o].owner /\ p.owned = own[o].owned \ {c}
      /\ ~p.terminating /\ p.pending = own[o].pending
  BY <1>1 DEF Records
<1>5. /\ p.term_acks = own[o].term_acks + 1 /\ PipeAcks(p) = PipeAcks(own[o])
      /\ p.sent_seqnum = own[o].sent_seqnum /\ p.processed_seqnum = own[o].processed_seqnum
  BY <1>1 DEF Records, PipeAcks
<1>6. Become(o, p, rest, Terms({c}))
  OBVIOUS
<1> HIDE DEF p
<1>7. /\ Rest(mbox[o], rest)
      /\ Count(rest, Announced) \in Nat /\ Count(rest, {"term_ack"}) \in Nat
      /\ Count(mbox[o], Announced) = Count(rest, Announced)
      /\ Count(mbox[o], {"term_ack"}) = Count(rest, {"term_ack"})
      /\ \A x \in Object : Claims(o, x) <=> x \in own[o].owned \/ Has(rest, <<"own", x>>)
      /\ \A x \in own[o].owned : x \in Object /\ ~Has(rest, <<"own", x>>)
      /\ own[o].pending => ~Has(rest, <<"term">>) /\ Terminal(o)
  BY Quiet
<1>8. \A x \in {c} : Claims(o, x)
  BY <1>2, <1>7
<1>9. /\ \A x \in Object : x \in p.owned \/ Has(rest, <<"own", x>>) <=> Claims(o, x) /\ x \notin {c}
      /\ \A x \in p.owned : ~Has(rest, <<"own", x>>)
  BY <1>4, <1>7
<1>10. Cardinality({c}) = 1 /\ {c} \in SUBSET Object
  BY <1>2, FS_Singleton
<1>11. /\ p.processed_seqnum + Count(rest, Announced) =
            own[o].processed_seqnum + Count(mbox[o], Announced)
       /\ p.term_acks + PipeAcks(own[o]) + Count(mbox[o], {"term_ack"}) =
            own[o].term_acks + Cardinality({c}) + PipeAcks(p) + Count(rest, {"term_ack"})
  BY ONLY <1>2, <1>5, <1>7, <1>10
<1>12. p.terminating \/ p.pending => ~Has(rest, <<"term">>) /\ Terminal(o)
  BY <1>4, <1>7
<1> QED
  BY <1>3, <1>4, <1>5, <1>6, <1>7, <1>8, <1>9, <1>10, <1>11, <1>12, Handled

(* An object starts to terminate: its children are asked. *)
LEMMA TerminatingStep ==
  ASSUME IInv, NEW o \in Object, Runs(o), NEW rest, ~own[o].terminating,
         \/ rest = mbox[o]
         \/ mbox[o] # <<>> /\ Head(mbox[o])[1] = "term" /\ rest = Tail(mbox[o]),
         ~Has(rest, <<"term">>), o = Root \/ Terminal(o),
         Become(o, Terminating(own[o]), rest, Terms(own[o].owned)),
         UNCHANGED <<finding, launched, handed>>
  PROVE  IInv'
<1> DEFINE p == Terminating(own[o])
           S == own[o].owned
<1>1. own[o] \in Records /\ own[o].status = "live" /\ own[o].launching = NULL
  BY DEF IInv, TypeOK, Runs
<1>2. /\ own[o].term_acks \in Nat /\ own[o].pipes \in Nat /\ own[o].processed_seqnum \in Nat
      /\ S \in SUBSET Object /\ PipeAcks(own[o]) = 0
  BY <1>1 DEF Records, PipeAcks
<1>3. \A c \in S : Claims(o, c)
  BY DEF Claims
<1>4. Cardinality(S) \in Nat
  <2>1. S \subseteq Live
    BY <1>2, <1>3 DEF IInv, Claimed, Children
  <2>2. IsFiniteSet(Live)
    BY DEF IInv, Parents
  <2> QED
    BY <2>1, <2>2, FS_Subset, FS_CardinalityType
<1>5. /\ p \in Records /\ p.status = "live" /\ p.launching = NULL
      /\ p.owner = own[o].owner /\ p.owned = {} /\ p.terminating /\ ~p.pending
      /\ p.term_acks = own[o].term_acks + Cardinality(S) + own[o].pipes
      /\ PipeAcks(p) = own[o].pipes
      /\ p.sent_seqnum = own[o].sent_seqnum /\ p.processed_seqnum = own[o].processed_seqnum
  <2> DEFINE k == own[o].term_acks + Cardinality(S) + own[o].pipes
  <2>1. p = [own[o] EXCEPT !.term_acks = k, !.owned = {}, !.terminating = TRUE, !.pending = FALSE]
    BY DEF Terminating
  <2>2. k \in Nat
    BY SMTT(30), <1>2, <1>4
  <2> HIDE DEF k
  <2>3. p \in Records
    BY <1>1, <2>1, <2>2 DEF Records
  <2>4. /\ p.status = "live" /\ p.launching = NULL
        /\ p.owner = own[o].owner /\ p.owned = {} /\ p.terminating /\ ~p.pending
    BY <1>1, <2>1 DEF Records
  <2>5. /\ p.term_acks = k /\ PipeAcks(p) = own[o].pipes
        /\ p.sent_seqnum = own[o].sent_seqnum /\ p.processed_seqnum = own[o].processed_seqnum
    BY <1>1, <2>1 DEF Records, PipeAcks
  <2> QED
    BY <2>3, <2>4, <2>5 DEF k
<1>6. Become(o, p, rest, Terms(S))
  OBVIOUS
<1> HIDE DEF p
<1>7. /\ Rest(mbox[o], rest)
      /\ Count(rest, Announced) \in Nat /\ Count(rest, {"term_ack"}) \in Nat
      /\ Count(mbox[o], Announced) = Count(rest, Announced)
      /\ Count(mbox[o], {"term_ack"}) = Count(rest, {"term_ack"})
      /\ \A x \in Object : Claims(o, x) <=> x \in own[o].owned \/ Has(rest, <<"own", x>>)
      /\ \A x \in own[o].owned : x \in Object /\ ~Has(rest, <<"own", x>>)
  BY Quiet
<1>8. \A x \in Object : x \in p.owned \/ Has(rest, <<"own", x>>) <=> Claims(o, x) /\ x \notin S
  BY <1>5, <1>7
<1> HIDE DEF S
<1>9. /\ p.processed_seqnum + Count(rest, Announced) =
           own[o].processed_seqnum + Count(mbox[o], Announced)
      /\ p.term_acks + PipeAcks(own[o]) + Count(mbox[o], {"term_ack"}) =
           own[o].term_acks + Cardinality(S) + PipeAcks(p) + Count(rest, {"term_ack"})
  BY ONLY <1>2, <1>4, <1>5, <1>7
<1> QED
  BY <1>2, <1>3, <1>5, <1>6, <1>7, <1>8, <1>9, Handled

LEMMA TermReqStep == ASSUME IInv, NEW o \in Object, process_term_req(o) PROVE IInv'
<1> DEFINE c == Head(mbox[o])[2]
           rest == Tail(mbox[o])
<1>1. /\ Runs(o) /\ mbox[o] # <<>> /\ Head(mbox[o])[1] = "term_req"
      /\ UNCHANGED <<finding, launched, handed>>
  BY DEF process_term_req, Receives
<1>2. own[o] \in Records /\ own[o].status = "live" /\ own[o].launching = NULL
  BY <1>1 DEF IInv, TypeOK, Runs
<1>3. CASE ~own[o].terminating /\ c \in own[o].owned
  <2>1. Become(o, [own[o] EXCEPT !.owned = @ \ {c}, !.term_acks = @ + 1], rest, Terms({c}))
    BY <1>3 DEF process_term_req, TermChild
  <2> HIDE DEF c, rest
  <2>2. rest = Tail(mbox[o])
    BY DEF rest
  <2> QED
    BY <1>1, <1>3, <2>1, <2>2, AskStep
<1>4. CASE ~(~own[o].terminating /\ c \in own[o].owned)
  <2>1. Become(o, own[o], rest, NoCommands)
    BY <1>4 DEF process_term_req, TermChild
  <2>2. "term_req" \notin Announced
    BY DEF Announced
  <2>3. own[o].processed_seqnum \in Nat /\ own[o].term_acks \in Nat /\ PipeAcks(own[o]) \in Nat
    BY <1>2 DEF Records, PipeAcks
  <2> QED
    BY <1>1, <1>2, <2>1, <2>2, <2>3, Took
<1> QED
  BY <1>3, <1>4

LEMMA TermChildStep == ASSUME IInv, NEW o \in Object, NEW c \in Object, term_child(o, c) PROVE IInv'
<1>1. Runs(o) /\ c \in own[o].owned /\ UNCHANGED <<finding, launched, handed>>
  BY DEF term_child
<1>2. ~own[o].terminating
  BY <1>1 DEF IInv, Asked
<1>3. Become(o, [own[o] EXCEPT !.owned = @ \ {c}, !.term_acks = @ + 1], mbox[o], Terms({c}))
  BY <1>1, <1>2 DEF term_child, TermChild
<1> QED
  BY <1>1, <1>2, <1>3, AskStep

LEMMA TermStep == ASSUME IInv, NEW o \in Object, process_term(o) PROVE IInv'
<1>1. /\ Runs(o) /\ mbox[o] # <<>> /\ Head(mbox[o])[1] = "term"
      /\ UNCHANGED <<finding, launched, handed>>
  BY DEF process_term, Receives
<1>2. /\ ~Has(Tail(mbox[o]), <<"term">>) /\ Terminal(o) /\ ~own[o].terminating
  BY <1>1, First
<1>3. CASE Become(o, Terminating(own[o]), Tail(mbox[o]), Terms(own[o].owned))
  BY <1>1, <1>2, <1>3, TerminatingStep
<1>4. CASE Become(o, [own[o] EXCEPT !.pending = TRUE], Tail(mbox[o]), NoCommands)
  <2> DEFINE p == [own[o] EXCEPT !.pending = TRUE]
  <2>1. own[o] \in Records /\ own[o].status = "live" /\ own[o].launching = NULL
    BY <1>1 DEF IInv, TypeOK, Runs
  <2>2. /\ p \in Records /\ p.status = "live" /\ p.launching = NULL
        /\ p.owner = own[o].owner /\ p.owned = own[o].owned /\ p.terminating = own[o].terminating
        /\ p.sent_seqnum = own[o].sent_seqnum /\ p.processed_seqnum = own[o].processed_seqnum
        /\ p.term_acks = own[o].term_acks /\ PipeAcks(p) = PipeAcks(own[o])
    BY <2>1 DEF Records, PipeAcks
  <2>3. own[o].processed_seqnum \in Nat /\ own[o].term_acks \in Nat /\ PipeAcks(own[o]) \in Nat
    BY <2>1 DEF Records, PipeAcks
  <2>4. Become(o, p, Tail(mbox[o]), NoCommands)
    BY <1>4
  <2> HIDE DEF p
  <2>5. "term" \notin Announced
    BY DEF Announced
  <2> QED
    BY <1>1, <2>2, <2>3, <2>4, <2>5, Took
<1> QED
  BY <1>3, <1>4 DEF process_term

LEMMA PipesGoneStep == ASSUME IInv, NEW o \in Object, PipesGone(o) PROVE IInv'
<1>1. /\ Runs(o) /\ own[o].pending /\ UNCHANGED <<finding, launched, handed>>
      /\ Become(o, Terminating(own[o]), mbox[o], Terms(own[o].owned))
  BY DEF PipesGone
<1>2. ~own[o].terminating /\ ~Has(mbox[o], <<"term">>) /\ Terminal(o)
  BY <1>1 DEF IInv, Asked, Terminal
<1> QED
  BY <1>1, <1>2, TerminatingStep

(* A pipe of a socket is gone. *)
LEMMA PipeTerminatedStep == ASSUME IInv, NEW o \in Object, pipe_terminated(o) PROVE IInv'
<1> DEFINE k == IF own[o].terminating THEN own[o].term_acks - 1 ELSE own[o].term_acks
           p == [own[o] EXCEPT !.pipes = @ - 1, !.term_acks = k]
           rest == mbox[o]
<1>1. /\ Runs(o) /\ own[o].pipes > 0 /\ Become(o, p, rest, Terms({}))
      /\ UNCHANGED <<finding, launched, handed>>
  BY AsksNobody DEF pipe_terminated
<1>2. own[o] \in Records /\ own[o].status = "live" /\ own[o].launching = NULL /\ o \in Live
  BY <1>1 DEF IInv, TypeOK, Runs, Live
<1>3. own[o].term_acks \in Nat /\ own[o].pipes \in Nat /\ own[o].processed_seqnum \in Nat
  BY <1>2 DEF Records
<1>4. /\ Rest(mbox[o], rest)
      /\ Count(rest, Announced) \in Nat /\ Count(rest, {"term_ack"}) \in Nat
      /\ Count(mbox[o], Announced) = Count(rest, Announced)
      /\ Count(mbox[o], {"term_ack"}) = Count(rest, {"term_ack"})
      /\ \A x \in Object : Claims(o, x) <=> x \in own[o].owned \/ Has(rest, <<"own", x>>)
      /\ \A x \in own[o].owned : x \in Object /\ ~Has(rest, <<"own", x>>)
      /\ own[o].terminating => ~own[o].pending /\ own[o].owned = {}
      /\ own[o].terminating \/ own[o].pending => ~Has(rest, <<"term">>) /\ Terminal(o)
  BY <1>1, Quiet
<1>5. own[o].terminating => own[o].term_acks >= own[o].pipes
  <2>1. Cardinality({c \in Children(o) : ~Claims(o, c)}) \in Nat
    <3>1. IsFiniteSet(Live) /\ {c \in Children(o) : ~Claims(o, c)} \subseteq Live
      BY DEF IInv, Parents, Children
    <3> QED
      BY <3>1, FS_Subset, FS_CardinalityType
  <2>2. own[o].terminating =>
          own[o].term_acks = Cardinality({c \in Children(o) : ~Claims(o, c)})
                               + Count(mbox[o], {"term_ack"}) + own[o].pipes
    BY <1>2 DEF IInv, AcksMatch
  <2> QED
    BY <1>3, <1>4, <2>1, <2>2
<1>6. k \in Nat /\ own[o].pipes - 1 \in Nat
  BY <1>1, <1>3, <1>5
<1> HIDE DEF k
<1>7. p \in Records
  BY <1>2, <1>6 DEF Records
<1>8. /\ p.status = "live" /\ p.launching = NULL
      /\ p.owner = own[o].owner /\ p.owned = own[o].owned
      /\ p.terminating = own[o].terminating /\ p.pending = own[o].pending
  BY <1>2 DEF Records
<1>9. /\ p.term_acks = k /\ p.pipes = own[o].pipes - 1
      /\ p.sent_seqnum = own[o].sent_seqnum /\ p.processed_seqnum = own[o].processed_seqnum
  BY <1>2 DEF Records
<1> HIDE DEF p
<1>10. /\ p.term_acks + PipeAcks(own[o]) = own[o].term_acks + PipeAcks(p)
       /\ PipeAcks(own[o]) \in Nat /\ PipeAcks(p) \in Nat
  BY <1>3, <1>6, <1>8, <1>9 DEF PipeAcks, k
<1> HIDE DEF rest
<1>11. /\ p.processed_seqnum + Count(rest, Announced) =
            own[o].processed_seqnum + Count(mbox[o], Announced)
       /\ p.term_acks + PipeAcks(own[o]) + Count(mbox[o], {"term_ack"}) =
            own[o].term_acks + 0 + PipeAcks(p) + Count(rest, {"term_ack"})
  BY ONLY <1>3, <1>4, <1>6, <1>9, <1>10
<1>12. /\ \A x \in Object : x \in p.owned \/ Has(rest, <<"own", x>>) <=> Claims(o, x) /\ x \notin {}
       /\ \A x \in p.owned : ~Has(rest, <<"own", x>>)
       /\ p.terminating => ~p.pending /\ p.owned = {}
       /\ p.terminating \/ p.pending => ~Has(rest, <<"term">>) /\ Terminal(o)
  BY <1>4, <1>8
<1> QED
  BY <1>1, <1>4, <1>7, <1>8, <1>9, <1>11, <1>12, AsksNobody, Handled
-----------------------------------------------------------------------------
(* The other actions send a command at most, and change few fields.        *)

Kept(x) == /\ own'[x].status = own[x].status /\ own'[x].owner = own[x].owner
           /\ own'[x].owned = own[x].owned
           /\ own'[x].terminating = own[x].terminating /\ own'[x].pending = own[x].pending
           /\ own'[x].processed_seqnum = own[x].processed_seqnum
           /\ own'[x].term_acks = own[x].term_acks /\ own'[x].pipes = own[x].pipes

(* Connecting threads that will send a command to x. *)
Found(x) == IF x = Root THEN finding ELSE 0

LEMMA Sends ==
  ASSUME IInv, NEW d \in Live, NEW e \in Commands, e[1] \notin {"term", "term_ack"}, NEW k \in Nat,
         own' \in [Object -> Records], \A x \in Object : Kept(x),
         \A x \in Object : own'[x].launching = own[x].launching \/ x \in Live,
         \/ mbox' = mbox /\ k = 0
         \/ /\ mbox' = [mbox EXCEPT ![d] = Append(@, e)]
            /\ k = IF e[1] \in Announced THEN 1 ELSE 0,
         e[1] = "term_req" => Children(d) # {},
         finding' \in Nat, launched' \in Nat, handed' \in Nat,
         Root \notin Live => finding' = 0,
         \A x \in Live : own'[x].sent_seqnum + Found(x) =
                           own[x].sent_seqnum + Found(x)' + (IF x = d THEN k ELSE 0),
         \A x, c \in Object : Claims(x, c)' <=> Claims(x, c),
         Claimed'
  PROVE  IInv'
<1>1. /\ d \in Object /\ own \in [Object -> Records] /\ mbox \in [Object -> Seq(Commands)]
      /\ Root \in Object
  BY OwnAssumption DEF Live, IInv, TypeOK
<1>2. Live' = Live /\ \A x : Children(x)' = Children(x)
  BY DEF Kept, Live, Children
<1>3. mbox' \in [Object -> Seq(Commands)] /\ \A x \in Object \ {d} : mbox'[x] = mbox[x]
  <2>1. CASE mbox' = mbox
    BY <1>1, <2>1
  <2>2. CASE mbox' = [mbox EXCEPT ![d] = Append(@, e)]
    <3>1. Append(mbox[d], e) \in Seq(Commands)
      BY <1>1
    <3> QED
      BY <1>1, <2>2, <3>1
  <2> QED
    BY <2>1, <2>2
<1>4. e # <<"term">>
  OBVIOUS
<1>5. /\ Has(mbox'[d], <<"term">>) <=> Has(mbox[d], <<"term">>)
      /\ Once(mbox[d], <<"term">>) => Once(mbox'[d], <<"term">>)
      /\ Children(d) = {} => Answered(mbox'[d])
      /\ Count(mbox[d], Announced) \in Nat /\ Count(mbox[d], {"term_ack"}) \in Nat
      /\ Count(mbox'[d], Announced) = Count(mbox[d], Announced) + k
      /\ Count(mbox'[d], {"term_ack"}) = Count(mbox[d], {"term_ack"})
  <2>1. mbox[d] \in Seq(Commands) /\ (Children(d) = {} => Answered(mbox[d]))
    BY <1>1 DEF IInv, Requests
  <2>2. Count(mbox[d], Announced) \in Nat /\ Count(mbox[d], {"term_ack"}) \in Nat
    BY <2>1, CountType
  <2>3. CASE mbox' = mbox /\ k = 0
    BY <2>1, <2>2, <2>3
  <2>4. CASE /\ mbox' = [mbox EXCEPT ![d] = Append(@, e)]
             /\ k = IF e[1] \in Announced THEN 1 ELSE 0
    <3>1. mbox'[d] = Append(mbox[d], e)
      BY <1>1, <2>4
    <3>2. /\ Has(mbox'[d], <<"term">>) <=> Has(mbox[d], <<"term">>)
          /\ Once(mbox[d], <<"term">>) => Once(mbox'[d], <<"term">>)
      BY <1>4, <2>1, <3>1, HasAdded
    <3>3. Children(d) = {} => Answered(mbox'[d])
      BY <2>1, <3>1, AnsweredAdded
    <3>4. /\ Count(mbox'[d], Announced) = Count(mbox[d], Announced) + k
          /\ Count(mbox'[d], {"term_ack"}) = Count(mbox[d], {"term_ack"}) + 0
      BY <2>1, <2>4, <3>1, CountAdded
    <3> QED
      BY <2>2, <3>2, <3>3, <3>4
  <2> QED
    BY <2>3, <2>4
<1>6. TypeOK'
  BY <1>3 DEF TypeOK
<1>7. Parents'
  <2>1. /\ own'[Root].owner = NULL
        /\ \A x \in Live \ {Root} : own'[x].owner \in Live
    BY <1>1 DEF IInv, Parents, Live, Kept
  <2>2. ASSUME NEW S \in SUBSET Live, S # {}, \A x \in S \ {Root} : own'[x].owner \in S
        PROVE  Root \in S
    <3>1. \A x \in S \ {Root} : own[x].owner \in S
      BY <2>2 DEF Live, Kept
    <3> QED
      BY <2>2, <3>1 DEF IInv, Parents
  <2>3. IsFiniteSet(Live)
    BY DEF IInv, Parents
  <2> QED
    BY <1>2, <2>1, <2>2, <2>3 DEF Parents
<1>8. Gone'
  <2>1. \A x \in Object : own'[x].status = "free" => own[x].status = "free" /\ x \notin Live
    BY DEF Kept, Live
  <2>2. \A x \in Object : own'[x].status = "free" => mbox'[x] = <<>>
    BY <1>3, <2>1 DEF IInv, Gone, NoCommandToDeleted
  <2>3. own'[Root].status = "free" => finding' = 0
    BY <1>1, <2>1
  <2>4. \A x \in Object \ Live' : own'[x].launching = NULL /\ own'[x].owned = {}
    BY <1>2 DEF IInv, Gone, Kept
  <2> QED
    BY <2>2, <2>3, <2>4 DEF Gone, NoCommandToDeleted
<1>9. Asked'
  <2>1. \A x \in Object :
          /\ own'[x].terminating => ~own'[x].pending /\ own'[x].owned = {}
          /\ own'[x].terminating \/ own'[x].pending => ~Has(mbox'[x], <<"term">>)
          /\ Once(mbox'[x], <<"term">>)
    BY <1>3, <1>5 DEF IInv, Asked, Kept
  <2>2. ~Has(mbox'[Root], <<"term">>)
    BY <1>1, <1>3, <1>5 DEF IInv, Asked
  <2> QED
    BY <2>1, <2>2 DEF Asked
<1>10. Seqnums'
  <2> SUFFICES ASSUME NEW x \in Live
               PROVE  own'[x].sent_seqnum = own'[x].processed_seqnum + Count(mbox'[x], Announced)
                                              + Found(x)'
    BY <1>2 DEF Seqnums, Found
  <2>1. x \in Object /\ own[x] \in Records /\ own'[x] \in Records /\ Kept(x)
    BY <1>1 DEF Live
  <2>2. /\ own[x].sent_seqnum \in Nat /\ own'[x].sent_seqnum \in Nat
        /\ own[x].processed_seqnum \in Nat /\ Found(x) \in Nat /\ Found(x)' \in Nat
    BY <2>1 DEF Records, Found, IInv, TypeOK
  <2>3. own[x].sent_seqnum = own[x].processed_seqnum + Count(mbox[x], Announced) + Found(x)
    BY DEF IInv, Seqnums, Found
  <2>4. own'[x].sent_seqnum + Found(x) =
          own[x].sent_seqnum + Found(x)' + (IF x = d THEN k ELSE 0)
    OBVIOUS
  <2>5. Count(mbox[x], Announced) \in Nat
    BY <1>1, <2>1, CountType
  <2>6. Count(mbox'[x], Announced) = Count(mbox[x], Announced) + (IF x = d THEN k ELSE 0)
    BY <1>3, <1>5, <2>1, <2>5
  <2>7. own'[x].processed_seqnum = own[x].processed_seqnum
    BY <2>1 DEF Kept
  <2> DEFINE j == IF x = d THEN k ELSE 0
  <2>8. j \in Nat
    OBVIOUS
  <2>9. /\ own'[x].sent_seqnum + Found(x) = own[x].sent_seqnum + Found(x)' + j
        /\ Count(mbox'[x], Announced) = Count(mbox[x], Announced) + j
    BY <2>4, <2>6
  <2> HIDE DEF j
  <2>10. own'[x].sent_seqnum =
           own[x].processed_seqnum + (Count(mbox[x], Announced) + j) + Found(x)'
    <3>1. own'[x].sent_seqnum \in Nat
      BY ONLY <2>2
    <3>2. Found(x)' \in Nat
      BY ONLY <2>2
    <3>3. Found(x) \in Nat
      BY ONLY <2>2
    <3>4. own'[x].sent_seqnum + Found(x) = own[x].sent_seqnum + Found(x)' + j
      BY ONLY <2>9
    <3>5. own[x].sent_seqnum = own[x].processed_seqnum + Count(mbox[x], Announced) + Found(x)
      BY ONLY <2>3
    <3>6. own[x].processed_seqnum \in Nat
      BY ONLY <2>2
    <3>7. own'[x].sent_seqnum + Found(x) =
            own[x].processed_seqnum + Count(mbox[x], Announced) + Found(x) + Found(x)' + j
      BY ONLY <3>4, <3>5
    <3> QED
      BY ONLY <3>1, <3>2, <3>3, <3>6, <3>7, <2>5, <2>8
  <2> QED
    BY <2>7, <2>9, <2>10
<1>11. AcksMatch'
  <2> SUFFICES ASSUME NEW x \in Live
               PROVE  own'[x].term_acks = Cardinality({c \in Children(x) : ~Claims(x, c)'})
                                            + Count(mbox'[x], {"term_ack"})
                                            + (IF own'[x].terminating THEN own'[x].pipes ELSE 0)
    BY <1>2 DEF AcksMatch
  <2>1. x \in Object /\ Kept(x)
    BY DEF Live
  <2>2. {c \in Children(x) : ~Claims(x, c)'} = {c \in Children(x) : ~Claims(x, c)}
    <3>1. \A c \in Children(x) : c \in Object
      BY DEF Children, Live
    <3> QED
      BY <2>1, <3>1
  <2>3. Count(mbox'[x], {"term_ack"}) = Count(mbox[x], {"term_ack"})
    BY <1>3, <1>5, <2>1
  <2>4. own[x].term_acks = Cardinality({c \in Children(x) : ~Claims(x, c)})
                             + Count(mbox[x], {"term_ack"})
                             + (IF own[x].terminating THEN own[x].pipes ELSE 0)
    BY DEF IInv, AcksMatch
  <2> QED
    BY <2>1, <2>2, <2>3, <2>4 DEF Kept
<1>12. Requests'
  <2> SUFFICES ASSUME NEW x \in Object, Children(x) = {} PROVE Answered(mbox'[x])
    BY <1>2 DEF Requests
  <2> QED
    BY <1>3, <1>5 DEF IInv, Requests
<1> QED
  BY <1>6, <1>7, <1>8, <1>9, <1>10, <1>11, <1>12 DEF IInv

(* When nobody launches and what is sent is not own, the claims stay. *)
LEMMA ClaimsStay ==
  ASSUME IInv, NEW d \in Live, NEW e \in Commands, e[1] \notin {"term", "own"},
         \A x \in Object : Kept(x) /\ own'[x].launching = own[x].launching,
         mbox' = mbox \/ mbox' = [mbox EXCEPT ![d] = Append(@, e)]
  PROVE  (\A x, c \in Object : Claims(x, c)' <=> Claims(x, c)) /\ Claimed'
<1>1. Live' = Live /\ \A x : Children(x)' = Children(x)
  BY DEF Kept, Live, Children
<1>2. \A f : f[1] \in {"own", "term"} => f # e
  OBVIOUS
<1>3. \A x \in Object : \A f : f # e => /\ Has(mbox'[x], f) <=> Has(mbox[x], f)
                                        /\ Once(mbox[x], f) => Once(mbox'[x], f)
  <2> TAKE x \in Object
  <2>1. mbox \in [Object -> Seq(Commands)] /\ d \in Object
    BY DEF IInv, TypeOK, Live
  <2>2. CASE mbox' = mbox \/ x # d
    <3>1. mbox'[x] = mbox[x]
      BY <2>1, <2>2
    <3> QED
      BY <3>1
  <2>3. CASE mbox' = [mbox EXCEPT ![d] = Append(@, e)] /\ x = d
    <3>1. mbox'[x] = Append(mbox[x], e) /\ mbox[x] \in Seq(Commands)
      BY <2>1, <2>3
    <3> QED
      BY <3>1, HasAdded
  <2> QED
    BY <2>2, <2>3
<1>4. /\ \A c \in Object : <<"own", c>>[1] = "own"
      /\ <<"term">>[1] = "term"
  OBVIOUS
<1>5. \A x, c \in Object : /\ Has(mbox'[x], <<"own", c>>) <=> Has(mbox[x], <<"own", c>>)
                           /\ Once(mbox[x], <<"own", c>>) => Once(mbox'[x], <<"own", c>>)
                           /\ Has(mbox'[x], <<"term">>) <=> Has(mbox[x], <<"term">>)
  BY <1>2, <1>3, <1>4
<1>6. \A x, c \in Object : Claims(x, c)' <=> Claims(x, c)
  BY <1>5 DEF Claims, Kept
<1>7. \A c \in Object : Terminal(c)' <=> Terminal(c)
  BY <1>5 DEF Terminal, Kept
<1>8. Claimed'
  <2> SUFFICES ASSUME NEW x \in Object, NEW c \in Object
               PROVE  /\ Claims(x, c)' => c \in Children(x)' /\ ~Terminal(c)'
                      /\ own'[x].launching = c => ~Has(mbox'[x], <<"own", c>>) /\ c \notin own'[x].owned
                      /\ Has(mbox'[x], <<"own", c>>) => c \notin own'[x].owned
                      /\ Once(mbox'[x], <<"own", c>>)
    BY DEF Claimed
  <2>1. Claims(x, c)' => c \in Children(x)' /\ ~Terminal(c)'
    BY <1>1, <1>6, <1>7 DEF IInv, Claimed
  <2>2. /\ own'[x].launching = c => ~Has(mbox'[x], <<"own", c>>) /\ c \notin own'[x].owned
        /\ Has(mbox'[x], <<"own", c>>) => c \notin own'[x].owned
        /\ Once(mbox'[x], <<"own", c>>)
    BY <1>5 DEF IInv, Claimed, Kept
  <2> QED
    BY <2>1, <2>2
<1> QED
  BY <1>6, <1>8

(* A child asks its owner. *)
LEMMA TerminateStep == ASSUME IInv, NEW o \in Object, terminate(o) PROVE IInv'
<1>1. Runs(o) /\ ~own[o].terminating /\ UNCHANGED <<finding, launched, handed>>
  BY DEF terminate
<1>2. own[o] \in Records /\ own[o].status = "live" /\ own[o].launching = NULL /\ o \in Live
  BY <1>1 DEF IInv, TypeOK, Runs, Live
<1>3. CASE o = Root
  <2>1. Become(o, Terminating(own[o]), mbox[o], Terms(own[o].owned))
    BY <1>3 DEF terminate
  <2>2. ~Has(mbox[o], <<"term">>)
    BY <1>3 DEF IInv, Asked
  <2> QED
    BY <1>1, <1>3, <2>1, <2>2, TerminatingStep
<1>4. CASE o # Root
  <2> DEFINE d == own[o].owner
             e == <<"term_req", o>>
             p == [own[o] EXCEPT !.reqs = @ + 1]
             k == 0
  <2>1. own' = [own EXCEPT ![o] = p] /\ mbox' = [mbox EXCEPT ![d] = Append(@, e)]
    BY <1>4 DEF terminate
  <2>2. d \in Live /\ Children(d) # {}
    BY <1>2, <1>4, NoCycle DEF IInv, Children
  <2>3. e \in Commands /\ e[1] = "term_req"
    BY CommandTypes
  <2>4. /\ p \in Records /\ p.status = own[o].status /\ p.launching = own[o].launching
        /\ p.owner = own[o].owner
        /\ p.owned = own[o].owned /\ p.terminating = own[o].terminating
        /\ p.pending = own[o].pending
        /\ p.sent_seqnum = own[o].sent_seqnum /\ p.processed_seqnum = own[o].processed_seqnum
        /\ p.term_acks = own[o].term_acks /\ p.pipes = own[o].pipes
    BY <1>2 DEF Records
  <2> HIDE DEF d, e, p
  <2>5. /\ own' \in [Object -> Records]
        /\ \A x \in Object : /\ Kept(x) /\ own'[x].launching = own[x].launching
                             /\ own'[x].sent_seqnum = own[x].sent_seqnum
    <3>1. own'[o] = p /\ (\A x \in Object \ {o} : own'[x] = own[x]) /\ own' \in [Object -> Records]
      BY <2>1, <2>4 DEF IInv, TypeOK
    <3> QED
      BY <2>4, <3>1 DEF Kept
  <2>6. (\A x, c \in Object : Claims(x, c)' <=> Claims(x, c)) /\ Claimed'
    BY <2>1, <2>2, <2>3, <2>5, ClaimsStay
  <2>7. /\ finding' = finding /\ finding' \in Nat /\ launched' \in Nat /\ handed' \in Nat
        /\ Root \notin Live => finding' = 0
    BY <1>1, OwnAssumption DEF IInv, TypeOK, Gone, NoCommandToDeleted, Live, Records
  <2>8. \A x \in Live : own'[x].sent_seqnum + Found(x) =
                          own[x].sent_seqnum + Found(x)' + (IF x = d THEN k ELSE 0)
    <3>1. \A x \in Live : x \in Object /\ own[x] \in Records
      BY DEF Live, IInv, TypeOK
    <3>2. \A x \in Live : own[x].sent_seqnum \in Nat /\ own'[x].sent_seqnum = own[x].sent_seqnum
      BY <2>5, <3>1 DEF Records
    <3> QED
      BY <2>7, <3>2 DEF Found, k
  <2>9. mbox' = [mbox EXCEPT ![d] = Append(@, e)] /\ k \in Nat /\ k = IF e[1] \in Announced THEN 1 ELSE 0
    BY <2>1, <2>3 DEF Announced, k
  <2> HIDE DEF k
  <2> QED
    <3>1. e[1] \notin {"term", "term_ack"} /\ (e[1] = "term_req" => Children(d) # {})
      BY <2>2, <2>3
    <3>2. \A x \in Object : own'[x].launching = own[x].launching \/ x \in Live
      BY <2>5
    <3>3. \A x \in Object : Kept(x)
      BY <2>5
    <3> QED
      BY <2>2, <2>3, <2>5, <2>6, <2>7, <2>8, <2>9, <3>1, <3>2, <3>3, Sends
<1> QED
  BY <1>3, <1>4

(* An engine or a pipe is handed up. *)
LEMMA HandUpStep ==
  ASSUME IInv, NEW o \in Object, NEW d \in Object, HandUp(o, d)
  PROVE  IInv'
<1> DEFINE e == IF d = Root THEN <<"bind">> ELSE <<"attach">>
           p == [own[d] EXCEPT !.sent_seqnum = @ + 1]
<1>1. /\ Runs(o) /\ own' = [own EXCEPT ![d] = p] /\ mbox' = [mbox EXCEPT ![d] = Append(@, e)]
      /\ d \in {own[o].owner, IF own[o].owner = NULL THEN NULL ELSE own[own[o].owner].owner}
      /\ d # NULL /\ handed' = handed + 1 /\ UNCHANGED <<finding, launched>>
  BY DEF HandUp
<1>2. d \in Live /\ own[d] \in Records
  <2>1. o \in Live
    BY <1>1 DEF Runs, Live
  <2>2. own[o].owner \in Live \cup {NULL}
    BY <2>1 DEF IInv, Parents
  <2>3. \A x \in Live : own[x].owner \in Live \cup {NULL}
    BY DEF IInv, Parents
  <2> QED
    BY <1>1, <2>2, <2>3 DEF IInv, TypeOK
<1>3. e \in Commands /\ e[1] \in {"bind", "attach"}
  BY CommandTypes
<1>4. /\ p \in Records /\ p.status = own[d].status /\ p.launching = own[d].launching
      /\ p.owner = own[d].owner
      /\ p.owned = own[d].owned /\ p.terminating = own[d].terminating
      /\ p.pending = own[d].pending
      /\ p.sent_seqnum = own[d].sent_seqnum + 1 /\ p.processed_seqnum = own[d].processed_seqnum
      /\ p.term_acks = own[d].term_acks /\ p.pipes = own[d].pipes
  BY <1>2 DEF Records
<1> HIDE DEF e, p
<1>5. /\ own' \in [Object -> Records]
      /\ \A x \in Object :
           /\ Kept(x) /\ own'[x].launching = own[x].launching
           /\ own'[x].sent_seqnum = IF x = d THEN own[x].sent_seqnum + 1 ELSE own[x].sent_seqnum
  <2>1. own'[d] = p /\ (\A x \in Object \ {d} : own'[x] = own[x]) /\ own' \in [Object -> Records]
    BY <1>1, <1>4 DEF IInv, TypeOK
  <2> QED
    BY <1>4, <2>1 DEF Kept
<1>6. (\A x, c \in Object : Claims(x, c)' <=> Claims(x, c)) /\ Claimed'
  BY <1>1, <1>2, <1>3, <1>5, ClaimsStay
<1>7. /\ finding' = finding /\ finding' \in Nat /\ launched' \in Nat /\ handed' \in Nat
      /\ Root \notin Live => finding' = 0
  <2>1. Root \notin Live => finding = 0
    BY OwnAssumption DEF IInv, TypeOK, Gone, NoCommandToDeleted, Live, Records
  <2> QED
    BY <1>1, <2>1 DEF IInv, TypeOK
<1>8. \A x \in Live : own'[x].sent_seqnum + Found(x) =
                        own[x].sent_seqnum + Found(x)' + (IF x = d THEN 1 ELSE 0)
  <2>1. \A x \in Live : x \in Object /\ own[x] \in Records
    BY DEF Live, IInv, TypeOK
  <2>2. \A x \in Live : own[x].sent_seqnum \in Nat
    BY <2>1 DEF Records
  <2> QED
    BY <1>5, <1>7, <2>1, <2>2 DEF Found
<1>9. mbox' = [mbox EXCEPT ![d] = Append(@, e)] /\ 1 = IF e[1] \in Announced THEN 1 ELSE 0
  BY <1>1, <1>3 DEF Announced
<1> QED
  BY <1>2, <1>3, <1>5, <1>6, <1>7, <1>8, <1>9, Sends

(* An inproc connection finds the socket, and sends it a bind. *)
LEMMA FindStep == ASSUME IInv, find_endpoint PROVE IInv'
<1> DEFINE d == Root
           e == <<"bind">>
           p == [own[d] EXCEPT !.sent_seqnum = @ + 1]
<1>1. /\ own[d].status = "live" /\ own' = [own EXCEPT ![d] = p] /\ mbox' = mbox
      /\ handed' = handed + 1 /\ finding' = finding + 1 /\ UNCHANGED launched
  BY DEF find_endpoint
<1>2. d \in Object /\ d \in Live /\ own[d] \in Records
  BY <1>1, OwnAssumption DEF IInv, TypeOK, Live
<1>3. e \in Commands /\ e[1] = "bind"
  BY CommandTypes
<1>4. /\ p \in Records /\ p.status = own[d].status /\ p.launching = own[d].launching
      /\ p.owner = own[d].owner
      /\ p.owned = own[d].owned /\ p.terminating = own[d].terminating
      /\ p.pending = own[d].pending
      /\ p.sent_seqnum = own[d].sent_seqnum + 1 /\ p.processed_seqnum = own[d].processed_seqnum
      /\ p.term_acks = own[d].term_acks /\ p.pipes = own[d].pipes
  BY <1>2 DEF Records
<1> HIDE DEF e, p
<1>5. /\ own' \in [Object -> Records]
      /\ \A x \in Object :
           /\ Kept(x) /\ own'[x].launching = own[x].launching
           /\ own'[x].sent_seqnum = IF x = d THEN own[x].sent_seqnum + 1 ELSE own[x].sent_seqnum
  <2>1. own'[d] = p /\ (\A x \in Object \ {d} : own'[x] = own[x]) /\ own' \in [Object -> Records]
    BY <1>1, <1>2, <1>4 DEF IInv, TypeOK
  <2> QED
    BY <1>2, <1>4, <2>1 DEF Kept
<1>6. (\A x, c \in Object : Claims(x, c)' <=> Claims(x, c)) /\ Claimed'
  BY <1>1, <1>2, <1>3, <1>5, ClaimsStay
<1>7. /\ finding \in Nat /\ finding' \in Nat /\ launched' \in Nat /\ handed' \in Nat
      /\ Root \notin Live => finding' = 0
  BY <1>1, <1>2 DEF IInv, TypeOK
<1>8. \A x \in Live : own'[x].sent_seqnum + Found(x) =
                        own[x].sent_seqnum + Found(x)' + (IF x = d THEN 0 ELSE 0)
  <2>1. \A x \in Live : x \in Object /\ own[x] \in Records
    BY DEF Live, IInv, TypeOK
  <2>2. \A x \in Live : own[x].sent_seqnum \in Nat
    BY <2>1 DEF Records
  <2> QED
    BY <1>1, <1>5, <1>7, <2>1, <2>2 DEF Found
<1> QED
  BY <1>1, <1>2, <1>3, <1>5, <1>6, <1>7, <1>8, Sends

LEMMA SendBindStep == ASSUME IInv, SendBind PROVE IInv'
<1> DEFINE d == Root
           e == <<"bind">>
           k == 1
<1>1. /\ finding > 0 /\ own' = own /\ mbox' = [mbox EXCEPT ![d] = Append(@, e)]
      /\ finding' = finding - 1 /\ UNCHANGED <<launched, handed>>
  BY DEF SendBind
<1>2. finding \in Nat /\ finding' \in Nat /\ launched' \in Nat /\ handed' \in Nat
  BY <1>1 DEF IInv, TypeOK
<1>3. d \in Object /\ d \in Live /\ Root \in Live
  BY <1>1, <1>2, OwnAssumption DEF IInv, TypeOK, Gone, NoCommandToDeleted, Live, Records
<1>4. e \in Commands /\ e[1] = "bind"
  BY CommandTypes
<1> HIDE DEF e
<1>5. /\ own' \in [Object -> Records]
      /\ \A x \in Object : /\ Kept(x) /\ own'[x].launching = own[x].launching
                           /\ own'[x].sent_seqnum = own[x].sent_seqnum
  BY <1>1 DEF IInv, TypeOK, Kept
<1>6. (\A x, c \in Object : Claims(x, c)' <=> Claims(x, c)) /\ Claimed'
  BY <1>1, <1>3, <1>4, <1>5, ClaimsStay
<1>7. \A x \in Live : own'[x].sent_seqnum + Found(x) =
                        own[x].sent_seqnum + Found(x)' + (IF x = d THEN k ELSE 0)
  <2>1. \A x \in Live : x \in Object /\ own[x] \in Records
    BY DEF Live, IInv, TypeOK
  <2>2. \A x \in Live : own[x].sent_seqnum \in Nat
    BY <2>1 DEF Records
  <2> QED
    BY <1>1, <1>2, <1>5, <2>1, <2>2 DEF Found, k
<1>8. mbox' = [mbox EXCEPT ![d] = Append(@, e)] /\ k \in Nat /\ k = IF e[1] \in Announced THEN 1 ELSE 0
  BY <1>1, <1>4 DEF Announced, k
<1> HIDE DEF k, d
<1>9. e[1] \notin {"term", "term_ack"} /\ (e[1] = "term_req" => Children(d) # {})
  BY <1>4
<1>10. \A x \in Object : own'[x].launching = own[x].launching \/ x \in Live
  BY <1>5
<1>11. \A x \in Object : Kept(x)
  BY <1>5
<1>12. Root \notin Live => finding' = 0
  BY <1>3
<1> QED
  BY <1>2, <1>3, <1>4, <1>5, <1>6, <1>7, <1>8, <1>9, <1>10, <1>11, <1>12, Sends

(* A launched child is announced: it stays claimed, in another way. *)
LEMMA LaunchOwnStep == ASSUME IInv, NEW o \in Object, LaunchOwn(o) PROVE IInv'
<1> DEFINE c == own[o].launching
           e == <<"own", c>>
           k == 1
           p == [own[o] EXCEPT !.launching = NULL, !.sent_seqnum = @ + 1]
<1>1. /\ own[o].status = "live" /\ c # NULL /\ own' = [own EXCEPT ![o] = p]
      /\ mbox' = [mbox EXCEPT ![o] = Append(@, e)] /\ UNCHANGED <<finding, launched, handed>>
  BY DEF LaunchOwn
<1>2. /\ own[o] \in Records /\ mbox[o] \in Seq(Commands) /\ o \in Live
      /\ own \in [Object -> Records] /\ mbox \in [Object -> Seq(Commands)]
  BY <1>1 DEF IInv, TypeOK, Live
<1>3. c \in Object
  BY <1>1, <1>2 DEF Records
<1>4. e \in Commands /\ e[1] = "own" /\ (\A y \in Object : e = <<"own", y>> <=> y = c) /\ e # <<"term">>
  BY <1>3, CommandTypes
<1>5. /\ p \in Records /\ p.status = own[o].status /\ p.launching = NULL
      /\ p.owner = own[o].owner
      /\ p.owned = own[o].owned /\ p.terminating = own[o].terminating
      /\ p.pending = own[o].pending
      /\ p.sent_seqnum = own[o].sent_seqnum + 1 /\ p.processed_seqnum = own[o].processed_seqnum
      /\ p.term_acks = own[o].term_acks /\ p.pipes = own[o].pipes
  <2>1. own[o].sent_seqnum + 1 \in Nat /\ NULL \in Object \cup {NULL}
    BY <1>2 DEF Records
  <2>2. p \in Records
    BY <1>2, <2>1 DEF Records
  <2> QED
    BY <1>2, <2>2 DEF Records
<1>6. own[o].launching = c
  OBVIOUS
<1> HIDE DEF c, e, p, k
<1>7. /\ own'[o] = p /\ (\A x \in Object \ {o} : own'[x] = own[x]) /\ own' \in [Object -> Records]
      /\ mbox'[o] = Append(mbox[o], e) /\ (\A x \in Object \ {o} : mbox'[x] = mbox[x])
  BY <1>1, <1>2, <1>5
<1>8. \A x \in Object :
        /\ Kept(x)
        /\ own'[x].launching = IF x = o THEN NULL ELSE own[x].launching
        /\ own'[x].sent_seqnum = IF x = o THEN own[x].sent_seqnum + 1 ELSE own[x].sent_seqnum
  BY <1>5, <1>7 DEF Kept
<1>9. /\ \A y \in Object :
           /\ Has(mbox'[o], <<"own", y>>) <=> Has(mbox[o], <<"own", y>>) \/ y = c
           /\ Once(mbox[o], <<"own", y>>) /\ (y = c => ~Has(mbox[o], <<"own", y>>)) =>
                Once(mbox'[o], <<"own", y>>)
      /\ Has(mbox'[o], <<"term">>) <=> Has(mbox[o], <<"term">>)
  <2>1. \A f : /\ Has(Append(mbox[o], e), f) <=> Has(mbox[o], f) \/ e = f
               /\ Once(mbox[o], f) /\ (e = f => ~Has(mbox[o], f)) => Once(Append(mbox[o], e), f)
    BY <1>2, <1>4, HasAdded
  <2> QED
    BY <1>4, <1>7, <2>1
<1>10. \A x, y \in Object : Claims(x, y)' <=> Claims(x, y)
  <2> TAKE x, y \in Object
  <2>1. CASE x = o
    BY <1>6, <1>8, <1>9, <2>1, OwnAssumption DEF Claims, Kept
  <2>2. CASE x # o
    BY <1>7, <1>8, <2>2 DEF Claims, Kept
  <2> QED
    BY <2>1, <2>2
<1>11. \A y \in Object : Terminal(y)' <=> Terminal(y)
  BY <1>7, <1>8, <1>9 DEF Terminal, Kept
<1>12. Live' = Live /\ \A x : Children(x)' = Children(x)
  BY <1>8 DEF Kept, Live, Children
<1>13. Claimed'
  <2> SUFFICES ASSUME NEW x \in Object, NEW y \in Object
               PROVE  /\ Claims(x, y)' => y \in Children(x)' /\ ~Terminal(y)'
                      /\ own'[x].launching = y => ~Has(mbox'[x], <<"own", y>>) /\ y \notin own'[x].owned
                      /\ Has(mbox'[x], <<"own", y>>) => y \notin own'[x].owned
                      /\ Once(mbox'[x], <<"own", y>>)
    BY DEF Claimed
  <2>1. /\ Claims(x, y) => y \in Children(x) /\ ~Terminal(y)
        /\ own[x].launching = y => ~Has(mbox[x], <<"own", y>>) /\ y \notin own[x].owned
        /\ Has(mbox[x], <<"own", y>>) => y \notin own[x].owned
        /\ Once(mbox[x], <<"own", y>>)
    BY DEF IInv, Claimed
  <2>2. Claims(x, y)' => y \in Children(x)' /\ ~Terminal(y)'
    BY <1>10, <1>11, <1>12, <2>1
  <2>3. CASE x = o
    BY <1>6, <1>8, <1>9, <2>1, <2>2, <2>3, OwnAssumption DEF Kept
  <2>4. CASE x # o
    BY <1>7, <1>8, <2>1, <2>2, <2>4 DEF Kept
  <2> QED
    BY <2>3, <2>4
<1>14. /\ finding' = finding /\ finding' \in Nat /\ launched' \in Nat /\ handed' \in Nat
       /\ Root \notin Live => finding' = 0
  <2>1. Root \notin Live => finding = 0
    BY OwnAssumption DEF IInv, TypeOK, Gone, NoCommandToDeleted, Live, Records
  <2> QED
    BY <1>1, <2>1 DEF IInv, TypeOK
<1>15. \A x \in Live : own'[x].sent_seqnum + Found(x) =
                         own[x].sent_seqnum + Found(x)' + (IF x = o THEN k ELSE 0)
  <2>1. \A x \in Live : x \in Object /\ own[x] \in Records
    BY DEF Live, IInv, TypeOK
  <2>2. \A x \in Live : own[x].sent_seqnum \in Nat
    BY <2>1 DEF Records
  <2> QED
    BY <1>8, <1>14, <2>1, <2>2 DEF Found, k
<1>16. mbox' = [mbox EXCEPT ![o] = Append(@, e)] /\ k \in Nat /\ k = IF e[1] \in Announced THEN 1 ELSE 0
  BY <1>1, <1>4 DEF Announced, k
<1>17. e[1] \notin {"term", "term_ack"} /\ (e[1] = "term_req" => Children(o) # {})
  BY <1>4
<1>18. \A x \in Object : own'[x].launching = own[x].launching \/ x \in Live
  BY <1>2, <1>8
<1>19. \A x \in Object : Kept(x)
  BY <1>8
<1> QED
  BY <1>2, <1>4, <1>7, <1>10, <1>13, <1>14, <1>15, <1>16, <1>17, <1>18, <1>19, Sends

(* A child is launched: it hangs from its owner, and its plug is on its    *)
(* way.                                                                    *)
LEMMA LaunchPlugStep ==
  ASSUME IInv, NEW o \in Object, NEW c \in Object, LaunchPlug(o, c)
  PROVE  IInv'
<1> DEFINE q == [Fresh(o) EXCEPT !.sent_seqnum = 1]
           p == [own[o] EXCEPT !.launching = c]
           e == <<"plug">>
<1>1. /\ Runs(o) /\ own[c].status = "free"
      /\ own' = [own EXCEPT ![c] = q, ![o].launching = c]
      /\ mbox' = [mbox EXCEPT ![c] = Append(@, e)]
      /\ launched' = launched + 1 /\ UNCHANGED <<finding, handed>>
  BY DEF LaunchPlug
<1>2. /\ own \in [Object -> Records] /\ mbox \in [Object -> Seq(Commands)]
      /\ own[o] \in Records /\ own[o].launching = NULL /\ o \in Live
      /\ c \notin Live /\ c # o /\ Root \in Object /\ NULL \notin Object
  BY <1>1, OwnAssumption DEF IInv, TypeOK, Live, Runs
<1>3. c # Root
  <2>1. Live # {} /\ \A x \in Live \ {Root} : own[x].owner \in Live
    BY <1>2 DEF IInv, Parents
  <2>2. Root \in Live
    BY <2>1 DEF IInv, Parents
  <2> QED
    BY <1>2, <2>2
<1>4. mbox[c] = <<>> /\ own[c].launching = NULL /\ own[c].owned = {}
  BY <1>1, <1>2 DEF IInv, Gone, NoCommandToDeleted
<1>5. e \in Commands /\ e[1] = "plug" /\ (\A y \in Object : e # <<"own", y>>) /\ e # <<"term">>
  BY CommandTypes
<1>6. /\ q \in Records /\ q.status = "live" /\ q.owner = o /\ q.owned = {}
      /\ ~q.terminating /\ ~q.pending /\ q.launching = NULL
      /\ q.sent_seqnum = 1 /\ q.processed_seqnum = 0 /\ q.term_acks = 0 /\ q.pipes = 0
  BY <1>2 DEF Records, Fresh
<1>7. /\ p.status = own[o].status /\ p.launching = c /\ p.owner = own[o].owner
      /\ p.owned = own[o].owned /\ p.terminating = own[o].terminating
      /\ p.pending = own[o].pending
      /\ p.sent_seqnum = own[o].sent_seqnum /\ p.processed_seqnum = own[o].processed_seqnum
      /\ p.term_acks = own[o].term_acks /\ p.pipes = own[o].pipes
  BY <1>2 DEF Records
<1>8. p \in Records
  BY <1>2 DEF Records
<1>9. own' = [own EXCEPT ![c] = q, ![o] = p]
  BY <1>1, <1>2
<1> HIDE DEF p, q, e
<1>10. /\ own'[c] = q /\ own'[o] = p /\ (\A x \in Object \ {o, c} : own'[x] = own[x])
       /\ own' \in [Object -> Records]
  BY <1>2, <1>6, <1>8, <1>9
<1>11. /\ mbox'[c] = Append(<<>>, e) /\ (\A x \in Object \ {c} : mbox'[x] = mbox[x])
       /\ mbox' \in [Object -> Seq(Commands)]
  <2>1. Append(<<>>, e) \in Seq(Commands)
    BY <1>5
  <2> QED
    BY <1>1, <1>2, <1>4, <2>1
<1>12. \A x \in Object \ {c} :
         /\ Kept(x) /\ own'[x].sent_seqnum = own[x].sent_seqnum
         /\ own'[x].launching = IF x = o THEN c ELSE own[x].launching
  BY <1>7, <1>10 DEF Kept
<1>13. /\ DOMAIN mbox'[c] = {1} /\ mbox'[c][1] = e
       /\ \A f : Has(mbox'[c], f) <=> e = f
       /\ \A f : Once(mbox'[c], f)
       /\ Answered(mbox'[c])
  <2>1. DOMAIN mbox'[c] = {1} /\ mbox'[c][1] = e
    BY <1>11
  <2> QED
    BY <1>5, <2>1 DEF Has, Once, Answered
<1>14. /\ Count(mbox'[c], Announced) = 1
       /\ Count(mbox'[c], {"term_ack"}) = 0
  <2> DEFINE empty == <<>>
  <2>1. empty \in Seq(Commands) /\ Count(empty, Announced) = 0 /\ Count(empty, {"term_ack"}) = 0
    BY CountNone
  <2>2. mbox'[c] = Append(empty, e)
    BY <1>11
  <2> HIDE DEF empty
  <2>3. /\ Count(mbox'[c], Announced) = Count(empty, Announced) + (IF e[1] \in Announced THEN 1 ELSE 0)
        /\ Count(mbox'[c], {"term_ack"}) =
             Count(empty, {"term_ack"}) + (IF e[1] \in {"term_ack"} THEN 1 ELSE 0)
    BY <1>5, <2>1, <2>2, CountAdded
  <2>4. e[1] \in Announced /\ e[1] \notin {"term_ack"}
    BY <1>5 DEF Announced
  <2> QED
    BY <2>1, <2>3, <2>4
<1>15. Live' = Live \cup {c}
  <2>1. Live' = {x \in Object : own'[x].status = "live"}
    BY DEF Live
  <2>2. \A x \in Object : own'[x].status = "live" <=> x \in Live \/ x = c
    BY <1>6, <1>10, <1>12 DEF Live, Kept
  <2>3. Live \subseteq Object
    BY DEF Live
  <2> QED
    BY <2>1, <2>2, <2>3
<1>16. \A x \in Object : Children(x)' = IF x = o THEN Children(x) \cup {c} ELSE Children(x)
  <2> TAKE x \in Object
  <2>1. Children(x)' = {y \in Live \cup {c} : own'[y].owner = x}
    BY <1>15 DEF Children
  <2>2. \A y \in Live : own'[y].owner = own[y].owner
    BY <1>2, <1>12 DEF Live, Kept
  <2>3. own'[c].owner = o
    BY <1>6, <1>10
  <2> QED
    BY <2>1, <2>2, <2>3 DEF Children
<1>17. Children(c) = {}
  BY <1>2 DEF IInv, Parents, Children
<1>18. \A x, y \in Object :
         /\ Claims(x, y)' <=> Claims(x, y) \/ (x = o /\ y = c)
         /\ ~Claims(x, c) /\ ~Claims(c, y)
  <2> TAKE x, y \in Object
  <2>1. ~Claims(x, c)
    BY <1>2 DEF IInv, Claimed, Children
  <2>2. ~Claims(c, y)
    BY <1>17 DEF IInv, Claimed
  <2>3. CASE x = c
    <3>1. ~Has(mbox'[c], <<"own", y>>)
      BY <1>5, <1>13
    <3>2. own'[c].launching # y /\ y \notin own'[c].owned
      BY <1>2, <1>6, <1>10
    <3>3. ~Claims(c, y)'
      BY <3>1, <3>2 DEF Claims
    <3> QED
      BY <1>2, <2>1, <2>2, <2>3, <3>3
  <2>4. CASE x = o
    <3>1. mbox'[o] = mbox[o] /\ own'[o].launching = c /\ own'[o].owned = own[o].owned
      BY <1>2, <1>7, <1>10, <1>11
    <3>2. Claims(o, y)' <=> c = y \/ Has(mbox[o], <<"own", y>>) \/ y \in own[o].owned
      BY <3>1 DEF Claims
    <3>3. Claims(o, y) <=> Has(mbox[o], <<"own", y>>) \/ y \in own[o].owned
      BY <1>2 DEF Claims
    <3> QED
      BY <2>1, <2>2, <2>4, <3>2, <3>3 DEF Claims
  <2>5. CASE x # o /\ x # c
    <3>1. mbox'[x] = mbox[x] /\ own'[x] = own[x]
      BY <1>10, <1>11, <2>5
    <3>2. Claims(x, y)' <=> Claims(x, y)
      BY <3>1 DEF Claims
    <3> QED
      BY <2>1, <2>2, <2>5, <3>2
  <2> QED
    BY <2>1, <2>2, <2>3, <2>4, <2>5
<1>19. /\ ~Terminal(c)'
       /\ \A x \in Object \ {c} : Terminal(x)' <=> Terminal(x)
  BY <1>5, <1>6, <1>10, <1>11, <1>12, <1>13 DEF Terminal, Kept
<1>20. TypeOK'
  <2>1. {finding', launched', handed'} \subseteq Nat
    BY <1>1 DEF IInv, TypeOK
  <2> QED
    BY <1>10, <1>11, <2>1 DEF TypeOK
<1>21. Parents'
  <2>1. own'[Root].owner = NULL
    BY <1>2, <1>3, <1>12 DEF IInv, Parents, Kept
  <2>2. \A x \in Live : own'[x].owner = own[x].owner
    BY <1>2, <1>12 DEF Live, Kept
  <2>3. \A x \in (Live \cup {c}) \ {Root} : own'[x].owner \in Live \cup {c}
    BY <1>2, <1>6, <1>10, <2>2 DEF IInv, Parents
  <2>4. ASSUME NEW S \in SUBSET (Live \cup {c}), S # {}, \A x \in S \ {Root} : own'[x].owner \in S
        PROVE  Root \in S
    <3> DEFINE R == S \ {c}
    <3>1. R \subseteq Live
      OBVIOUS
    <3>2. R # {}
      BY <1>2, <1>3, <1>6, <1>10, <2>4
    <3>3. \A x \in R \ {Root} : own[x].owner \in R
      <4> TAKE x \in R \ {Root}
      <4>1. own[x].owner \in S
        BY <2>2, <2>4, <3>1
      <4>2. own[x].owner \in Live
        BY <3>1 DEF IInv, Parents
      <4> QED
        BY <1>2, <4>1, <4>2
    <3> HIDE DEF R
    <3>4. Root \in R
      BY <3>1, <3>2, <3>3 DEF IInv, Parents
    <3> QED
      BY <3>4 DEF R
  <2>5. IsFiniteSet(Live \cup {c})
    BY FS_AddElement DEF IInv, Parents
  <2> QED
    BY <1>15, <2>1, <2>3, <2>4, <2>5 DEF Parents
<1>22. Gone'
  <2>1. \A x \in Object : own'[x].status = "free" => own[x].status = "free" /\ x # c /\ x # o
    BY <1>2, <1>6, <1>10, <1>12 DEF Kept, Live
  <2>2. \A x \in Object : own'[x].status = "free" => mbox'[x] = <<>>
    BY <1>11, <2>1 DEF IInv, Gone, NoCommandToDeleted
  <2>3. own'[Root].status = "free" => finding' = 0
    BY <1>1, <1>2, <2>1 DEF IInv, Gone, NoCommandToDeleted
  <2>4. \A x \in Object \ Live' : own'[x].launching = NULL /\ own'[x].owned = {}
    BY <1>2, <1>10, <1>15 DEF IInv, Gone
  <2> QED
    BY <2>2, <2>3, <2>4 DEF Gone, NoCommandToDeleted
<1>23. Claimed'
  <2> SUFFICES ASSUME NEW x \in Object, NEW y \in Object
               PROVE  /\ Claims(x, y)' => y \in Children(x)' /\ ~Terminal(y)'
                      /\ own'[x].launching = y => ~Has(mbox'[x], <<"own", y>>) /\ y \notin own'[x].owned
                      /\ Has(mbox'[x], <<"own", y>>) => y \notin own'[x].owned
                      /\ Once(mbox'[x], <<"own", y>>)
    BY DEF Claimed
  <2>1. /\ Claims(x, y) => y \in Children(x) /\ ~Terminal(y)
        /\ own[x].launching = y => ~Has(mbox[x], <<"own", y>>) /\ y \notin own[x].owned
        /\ Has(mbox[x], <<"own", y>>) => y \notin own[x].owned
        /\ Once(mbox[x], <<"own", y>>)
    BY DEF IInv, Claimed
  <2>2. Claims(x, y)' => y \in Children(x)' /\ ~Terminal(y)'
    <3>1. CASE x = o /\ y = c
      BY <1>16, <1>19, <3>1
    <3>2. CASE ~(x = o /\ y = c)
      BY <1>16, <1>18, <1>19, <2>1, <3>2
    <3> QED
      BY <3>1, <3>2
  <2>3. CASE x = c
    BY <1>2, <1>5, <1>6, <1>10, <1>13, <2>2, <2>3
  <2>4. CASE x # c
    <3>1. mbox'[x] = mbox[x] /\ own'[x].owned = own[x].owned
      BY <1>11, <1>12, <2>4 DEF Kept
    <3>2. own'[x].launching = y => ~Has(mbox[x], <<"own", y>>) /\ y \notin own[x].owned
      <4>1. CASE x = o
        BY <1>12, <1>18, <2>4, <4>1 DEF Claims
      <4>2. CASE x # o
        BY <1>12, <2>1, <2>4, <4>2
      <4> QED
        BY <4>1, <4>2
    <3> QED
      BY <2>1, <2>2, <3>1, <3>2
  <2> QED
    BY <2>3, <2>4
<1>24. Asked'
  <2>1. \A x \in Object :
          /\ own'[x].terminating => ~own'[x].pending /\ own'[x].owned = {}
          /\ own'[x].terminating \/ own'[x].pending => ~Has(mbox'[x], <<"term">>)
          /\ Once(mbox'[x], <<"term">>)
    <3> TAKE x \in Object
    <3>1. CASE x = c
      BY <1>6, <1>10, <1>13, <3>1
    <3>2. CASE x # c
      BY <1>11, <1>12, <3>2 DEF IInv, Asked, Kept
    <3> QED
      BY <3>1, <3>2
  <2>2. ~Has(mbox'[Root], <<"term">>)
    BY <1>2, <1>3, <1>11 DEF IInv, Asked
  <2> QED
    BY <2>1, <2>2 DEF Asked
<1>25. Seqnums'
  <2> SUFFICES ASSUME NEW x \in Live \cup {c}
               PROVE  own'[x].sent_seqnum = own'[x].processed_seqnum + Count(mbox'[x], Announced)
                                              + (IF x = Root THEN finding' ELSE 0)
    BY <1>15 DEF Seqnums
  <2>1. CASE x = c
    BY <1>3, <1>6, <1>10, <1>14, <2>1
  <2>2. CASE x # c
    <3>1. x \in Object /\ Kept(x) /\ own'[x].sent_seqnum = own[x].sent_seqnum /\ mbox'[x] = mbox[x]
      BY <1>11, <1>12, <2>2 DEF Live
    <3>2. own[x].sent_seqnum = own[x].processed_seqnum + Count(mbox[x], Announced)
                                 + (IF x = Root THEN finding ELSE 0)
      BY <2>2 DEF IInv, Seqnums
    <3> QED
      BY <1>1, <3>1, <3>2 DEF Kept
  <2> QED
    BY <2>1, <2>2
<1>26. AcksMatch'
  <2> SUFFICES ASSUME NEW x \in Live \cup {c}
               PROVE  own'[x].term_acks = Cardinality({y \in Children(x)' : ~Claims(x, y)'})
                                            + Count(mbox'[x], {"term_ack"})
                                            + (IF own'[x].terminating THEN own'[x].pipes ELSE 0)
    BY <1>15 DEF AcksMatch
  <2>1. CASE x = c
    <3>1. {y \in Children(x)' : ~Claims(x, y)'} = {}
      BY <1>2, <1>16, <1>17, <2>1
    <3> QED
      BY <1>6, <1>10, <1>14, <2>1, <3>1, FS_EmptySet
  <2>2. CASE x # c
    <3>1. x \in Object /\ x \in Live /\ Kept(x) /\ mbox'[x] = mbox[x]
      BY <1>11, <1>12, <2>2 DEF Live
    <3>2. \A y \in Children(x) : y \in Object /\ y # c
      BY <1>2 DEF Children, Live
    <3>3. {y \in Children(x)' : ~Claims(x, y)'} = {y \in Children(x) : ~Claims(x, y)}
      <4>1. CASE x = o
        BY <1>16, <1>18, <3>2, <4>1
      <4>2. CASE x # o
        BY <1>16, <1>18, <3>1, <3>2, <4>2
      <4> QED
        BY <4>1, <4>2
    <3>4. own[x].term_acks = Cardinality({y \in Children(x) : ~Claims(x, y)})
                               + Count(mbox[x], {"term_ack"})
                               + (IF own[x].terminating THEN own[x].pipes ELSE 0)
      BY <3>1 DEF IInv, AcksMatch
    <3> QED
      BY <3>1, <3>3, <3>4 DEF Kept
  <2> QED
    BY <2>1, <2>2
<1>27. Requests'
  <2> SUFFICES ASSUME NEW x \in Object, Children(x)' = {} PROVE Answered(mbox'[x])
    BY DEF Requests
  <2>1. CASE x = c
    BY <1>13, <2>1
  <2>2. CASE x # c
    BY <1>11, <1>16, <2>2 DEF IInv, Requests
  <2> QED
    BY <2>1, <2>2
<1> QED
  BY <1>20, <1>21, <1>22, <1>23, <1>24, <1>25, <1>26, <1>27 DEF IInv
-----------------------------------------------------------------------------
LEMMA Initially == Init => IInv
<1> SUFFICES ASSUME Init PROVE IInv
  OBVIOUS
<1>1. Root \in Object /\ NULL \notin Object /\ Root # NULL
  BY OwnAssumption
<1> DEFINE r == [Fresh(NULL) EXCEPT !.plugged = TRUE]
           f == [Fresh(NULL) EXCEPT !.status = "free"]
<1>2. /\ r \in Records /\ r.status = "live" /\ r.owner = NULL /\ r.owned = {}
      /\ ~r.terminating /\ ~r.pending /\ r.launching = NULL
      /\ r.sent_seqnum = 0 /\ r.processed_seqnum = 0 /\ r.term_acks = 0 /\ r.pipes = 0
  BY DEF Fresh, Records
<1>3. /\ f \in Records /\ f.status = "free" /\ f.owned = {}
      /\ ~f.terminating /\ ~f.pending /\ f.launching = NULL
  BY DEF Fresh, Records
<1>4. own = [x \in Object |-> IF x = Root THEN r ELSE f] /\ finding = 0 /\ launched = 0 /\ handed = 0
  BY DEF Init
<1> HIDE DEF r, f
<1>5. \A x \in Object : mbox[x] = <<>>
  BY DEF Init
<1>6. TypeOK
  <2>1. mbox \in [Object -> Seq(Commands)]
    BY DEF Init
  <2> QED
    BY <1>2, <1>3, <1>4, <2>1 DEF TypeOK
<1>7. Live = {Root} /\ own[Root] = r
  BY <1>1, <1>2, <1>3, <1>4 DEF Live
<1>8. \A x \in Object : Children(x) = {}
  BY <1>1, <1>2, <1>7 DEF Children
<1>9. \A x \in Object : /\ own[x].owned = {} /\ ~own[x].terminating /\ ~own[x].pending
                        /\ own[x].launching = NULL
  BY <1>2, <1>3, <1>4
<1>10. \A x \in Object : \A g : ~Has(mbox[x], g) /\ Once(mbox[x], g) /\ Answered(mbox[x])
  BY <1>5 DEF Has, Once, Answered
<1>11. \A x \in Object : /\ Count(mbox[x], Announced) = 0 /\ Count(mbox[x], {"term_ack"}) = 0
  <2>1. Count(<<>>, Announced) = 0 /\ Count(<<>>, {"term_ack"}) = 0
    BY CountNone
  <2> QED
    BY <1>5, <2>1
<1>12. \A x, y \in Object : ~Claims(x, y)
  BY <1>1, <1>9, <1>10 DEF Claims
<1>13. Parents
  <2>1. IsFiniteSet({Root})
    BY FS_Singleton
  <2> QED
    BY <1>2, <1>7, <2>1 DEF Parents
<1>14. Gone
  BY <1>4, <1>5, <1>9 DEF Gone, NoCommandToDeleted
<1>15. Claimed
  <2> SUFFICES ASSUME NEW x \in Object, NEW y \in Object
               PROVE  /\ Claims(x, y) => y \in Children(x) /\ ~Terminal(y)
                      /\ own[x].launching = y => ~Has(mbox[x], <<"own", y>>) /\ y \notin own[x].owned
                      /\ Has(mbox[x], <<"own", y>>) => y \notin own[x].owned
                      /\ Once(mbox[x], <<"own", y>>)
    BY DEF Claimed
  <2> QED
    BY <1>9, <1>10, <1>12
<1>16. Asked
  BY <1>1, <1>9, <1>10 DEF Asked
<1>17. Seqnums
  BY <1>1, <1>2, <1>4, <1>7, <1>11 DEF Seqnums
<1>18. AcksMatch
  <2>1. {c \in Children(Root) : ~Claims(Root, c)} = {}
    BY <1>1, <1>8
  <2>2. Cardinality({c \in Children(Root) : ~Claims(Root, c)}) = 0
    BY <2>1, FS_EmptySet
  <2> QED
    BY <1>1, <1>2, <1>7, <1>11, <2>2 DEF AcksMatch
<1>19. Requests
  BY <1>10 DEF Requests
<1> QED
  BY <1>6, <1>13, <1>14, <1>15, <1>16, <1>17, <1>18, <1>19 DEF IInv

LEMMA Stutters == ASSUME IInv, UNCHANGED vars PROVE IInv'
<1>1. own' = own /\ mbox' = mbox /\ finding' = finding /\ launched' = launched /\ handed' = handed
  BY DEF vars
<1>2. /\ TypeOK' /\ Gone' /\ Asked'
  BY <1>1 DEF IInv, TypeOK, Gone, Live, NoCommandToDeleted, Asked
<1>3. Parents' /\ Seqnums'
  BY <1>1 DEF IInv, Parents, Seqnums, Live
<1>4. Claimed' /\ AcksMatch' /\ Requests'
  BY <1>1 DEF IInv, Claimed, AcksMatch, Requests, Live, Children, Claims, Terminal
<1> QED
  BY <1>2, <1>3, <1>4 DEF IInv

(* The strengthening is inductive: whatever the thread of an object does   *)
(* (launch, ask, hand up, process a command of own_t), and wherever it is  *)
(* interrupted in launch_child or between find_endpoint and send_bind.     *)
THEOREM OwnInvariant == Spec => []IInv
<1>1. Init => IInv
  BY Initially
<1>2. IInv /\ [Next]_vars => IInv'
  <2> SUFFICES ASSUME IInv, [Next]_vars PROVE IInv'
    OBVIOUS
  <2>1. ASSUME NEW o \in Object, Process(o) PROVE IInv'
    <3>1. CASE process_plug(o)
      BY <3>1, PlugStep
    <3>2. CASE process_own(o)
      BY <3>2, OwnStep
    <3>3. CASE process_attach(o)
      BY <3>3, AttachStep
    <3>4. CASE process_bind(o)
      BY <3>4, BindStep
    <3>5. CASE process_term_req(o)
      BY <3>5, TermReqStep
    <3>6. CASE process_term(o)
      BY <3>6, TermStep
    <3>7. CASE process_term_ack(o)
      BY <3>7, TermAckStep
    <3> QED
      BY <2>1, <3>1, <3>2, <3>3, <3>4, <3>5, <3>6, <3>7 DEF Process
  <2>2. ASSUME NEW o \in Object, LaunchOwn(o) PROVE IInv'
    BY <2>2, LaunchOwnStep
  <2>3. ASSUME NEW o \in Object, terminate(o) PROVE IInv'
    BY <2>3, TerminateStep
  <2>4. ASSUME NEW o \in Object, PipesGone(o) PROVE IInv'
    BY <2>4, PipesGoneStep
  <2>5. ASSUME NEW o \in Object, pipe_terminated(o) PROVE IInv'
    BY <2>5, PipeTerminatedStep
  <2>6. ASSUME NEW o \in Object, NEW c \in Object, LaunchPlug(o, c) PROVE IInv'
    BY <2>6, LaunchPlugStep
  <2>7. ASSUME NEW o \in Object, NEW c \in Object, term_child(o, c) PROVE IInv'
    BY <2>7, TermChildStep
  <2>8. ASSUME NEW o \in Object, NEW c \in Object, HandUp(o, c) PROVE IInv'
    BY <2>8, HandUpStep
  <2>9. CASE find_endpoint
    BY <2>9, FindStep
  <2>10. CASE SendBind
    BY <2>10, SendBindStep
  <2>11. CASE UNCHANGED vars
    BY <2>11, Stutters
  <2> QED
    BY <2>1, <2>2, <2>3, <2>4, <2>5, <2>6, <2>7, <2>8, <2>9, <2>10, <2>11 DEF Next
<1> QED
  BY <1>1, <1>2, PTL DEF Spec

(* Nothing meets an object that is gone: no command and no connecting      *)
(* thread reaches a deleted own_t, an owner outlives its children, the     *)
(* assertions of own.cpp hold, and an object waits for exactly the acks    *)
(* that will come.                                                         *)
THEOREM OwnLifetimes == Spec => []Lifetimes
<1>1. IInv => Lifetimes
  <2> SUFFICES ASSUME IInv PROVE Lifetimes
    OBVIOUS
  <2>1. OwnerOutlives
    BY DEF IInv, Parents, Live, OwnerOutlives
  <2>2. AssertionsHold
    <3> SUFFICES ASSUME NEW o \in Object
                 PROVE  /\ own[o].status = "live" /\ mbox[o] # <<>> =>
                             /\ Head(mbox[o])[1] = "term" => ~own[o].terminating /\ ~own[o].pending
                             /\ Head(mbox[o])[1] = "term_ack" => own[o].term_acks > 0
                        /\ own[o].status = "free" => own[o].owned = {}
      BY DEF AssertionsHold
    <3>1. own[o].status = "free" => own[o].owned = {}
      BY DEF IInv, Gone, Live
    <3>2. ASSUME own[o].status = "live", mbox[o] # <<>>, Head(mbox[o])[1] = "term"
          PROVE  ~own[o].terminating /\ ~own[o].pending
      <4>1. mbox[o] \in Seq(Commands) /\ own[o].terminating \in BOOLEAN /\ own[o].pending \in BOOLEAN
        BY DEF IInv, TypeOK, Records
      <4>2. Head(mbox[o]) = <<"term">>
        BY <3>2, <4>1, Taken, CommandTypes
      <4>3. Has(mbox[o], <<"term">>)
        BY <3>2, <4>1, <4>2, HasTaken
      <4> QED
        BY <4>3 DEF IInv, Asked
    <3>3. ASSUME own[o].status = "live", mbox[o] # <<>>, Head(mbox[o])[1] = "term_ack"
          PROVE  own[o].term_acks > 0
      <4>1. mbox[o] \in Seq(Commands) /\ own[o] \in Records /\ o \in Live
        BY <3>3 DEF IInv, TypeOK, Live
      <4>2. Count(mbox[o], {"term_ack"}) \in Nat /\ Count(mbox[o], {"term_ack"}) # 0
        BY <3>3, <4>1, CountType, Taken
      <4>3. own[o].term_acks = Cardinality({c \in Children(o) : ~Claims(o, c)})
                                 + Count(mbox[o], {"term_ack"}) + PipeAcks(own[o])
        BY <4>1 DEF IInv, AcksMatch, PipeAcks
      <4>4. Cardinality({c \in Children(o) : ~Claims(o, c)}) \in Nat
        <5>1. IsFiniteSet({c \in Children(o) : ~Claims(o, c)})
          BY FS_Subset DEF IInv, Parents, Children
        <5> QED
          BY <5>1, FS_CardinalityType
      <4>5. PipeAcks(own[o]) \in Nat /\ own[o].term_acks \in Nat
        BY <4>1 DEF PipeAcks, Records
      <4> QED
        BY ONLY <4>2, <4>3, <4>4, <4>5
    <3> QED
      BY <3>1, <3>2, <3>3
  <2> QED
    BY <2>1, <2>2 DEF IInv, Gone, Lifetimes
<1> QED
  BY <1>1, OwnInvariant, PTL
=============================================================================
