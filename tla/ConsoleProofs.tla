--------------------------- MODULE ConsoleProofs ---------------------------
(***************************************************************************)
(* The critical sections of memory.c, gecko.c and irq.c nest and their     *)
(* mask is right, nothing is shown out of order or twice, and nothing is   *)
(* lost while nobody gives up or interrupts: for every length of the       *)
(* messages, every reader and any number of interrupts, exceptions and     *)
(* evictions.                                                              *)
(*                                                                         *)
(* A thread's state is what it has left to do, so the first invariant says *)
(* that this closes exactly the sections the thread is in: Path follows    *)
(* the depth of sections along a sequence of micro-operations.  The second *)
(* orders the copies of the line by their age, and the third says where    *)
(* the last character is, and what the main thread may do next.            *)
(***************************************************************************)
EXTENDS Console, SequenceTheorems, TLAPS

(* The micro-operations.                                                   *)
Ops ==
    {"kill", "restore", "gate", "open", "ack", "inval", "dcinval", "clean", "drain", "cacheon",
     "cacheoff", "test", "put", "next", "print", "config", "excinit", "irqinit", "irqdown", "rfi",
     "panic", "reset"}

(* Thread t may do op in a sections, and is in b after it.                 *)
Step(t, op, a, b) ==
    /\ op = "kill" => b = a + 1
    /\ op = "restore" => a = b + 1
    /\ op \notin {"kill", "restore"} => b = a
    /\ op \in {"irqinit", "irqdown"} => a = 0 /\ t = "main"
    /\ op = "rfi" => a = 0 /\ t = "irq"
    /\ op # "config"

(* Doing s takes thread t from a sections to b.                            *)
Path(t, s, a, b) ==
    \E d \in [1 .. Len(s) + 1 -> Nat] :
        /\ d[1] = a /\ d[Len(s) + 1] = b
        /\ \A k \in 1 .. Len(s) : Step(t, s[k], d[k], d[k + 1])

(* One sequence after another.                                             *)
LEMMA PathConcat ==
    ASSUME NEW t, NEW P \in Seq(Ops), NEW Q \in Seq(Ops), NEW a, NEW b, NEW c,
           Path(t, P, a, b), Path(t, Q, b, c)
    PROVE  Path(t, P \o Q, a, c)
<1>1. PICK d \in [1 .. Len(P) + 1 -> Nat] :
          /\ d[1] = a /\ d[Len(P) + 1] = b
          /\ \A k \in 1 .. Len(P) : Step(t, P[k], d[k], d[k + 1])
  BY DEF Path
<1>2. PICK e \in [1 .. Len(Q) + 1 -> Nat] :
          /\ e[1] = b /\ e[Len(Q) + 1] = c
          /\ \A k \in 1 .. Len(Q) : Step(t, Q[k], e[k], e[k + 1])
  BY DEF Path
<1> DEFINE m == Len(P)
           n == Len(Q)
           f == [k \in 1 .. m + n + 1 |-> IF k <= m THEN d[k] ELSE e[k - m]]
<1>3. m \in Nat /\ n \in Nat
  OBVIOUS
<1>4. /\ P \o Q \in Seq(Ops) /\ Len(P \o Q) = m + n
      /\ \A k \in 1 .. m : (P \o Q)[k] = P[k]
      /\ \A k \in m + 1 .. m + n : (P \o Q)[k] = Q[k - m]
  BY ConcatProperties
<1> HIDE DEF m, n
<1>5. f \in [1 .. m + n + 1 -> Nat]
  BY <1>3 DEF m, n
<1>6. f[1] = a
  BY <1>1, <1>2, <1>3 DEF m, n
<1>7. f[m + n + 1] = c
  BY <1>2, <1>3 DEF m, n
<1>8. ASSUME NEW k \in 1 .. m + n PROVE Step(t, (P \o Q)[k], f[k], f[k + 1])
  <2>1. CASE k < m
    <3>1. k \in 1 .. m /\ f[k] = d[k] /\ f[k + 1] = d[k + 1] /\ (P \o Q)[k] = P[k]
      BY <1>3, <1>4, <2>1
    <3>2. QED
      BY <1>1, <3>1 DEF m
  <2>2. CASE k = m
    <3>1. k \in 1 .. m /\ f[k] = d[k] /\ f[k + 1] = e[1] /\ (P \o Q)[k] = P[k] /\ d[k + 1] = b
      BY <1>1, <1>3, <1>4, <2>2 DEF m
    <3>2. Step(t, P[k], d[k], d[k + 1])
      BY <1>1, <3>1 DEF m
    <3>3. QED
      BY <1>2, <3>1, <3>2
  <2>3. CASE k > m
    <3>1. PICK j \in 1 .. n : j = k - m
      BY <1>3, <2>3
    <3>2. k = m + j /\ j \in Nat
      BY <1>3, <3>1
    <3>3. f[k] = e[j] /\ f[k + 1] = e[j + 1]
      BY <1>3, <3>1, <3>2
    <3>4. (P \o Q)[k] = Q[j]
      BY <1>3, <1>4, <3>1, <2>3
    <3>5. Step(t, Q[j], e[j], e[j + 1])
      BY <1>2, <3>1 DEF n
    <3>6. QED
      BY <3>3, <3>4, <3>5
  <2>4. k < m \/ k = m \/ k > m
    BY <1>3
  <2>5. QED
    BY <2>1, <2>2, <2>3, <2>4
<1>9. QED
  <2> HIDE DEF f
  <2> QED
    BY <1>4, <1>5, <1>6, <1>7, <1>8 DEF Path

(* The first operation, and the others.                                    *)
LEMMA PathTail ==
    ASSUME NEW t, NEW s \in Seq(Ops), s # <<>>, NEW a, NEW b, Path(t, s, a, b)
    PROVE  \E m \in Nat : Step(t, Head(s), a, m) /\ Path(t, Tail(s), m, b)
<1>1. PICK d \in [1 .. Len(s) + 1 -> Nat] :
          /\ d[1] = a /\ d[Len(s) + 1] = b
          /\ \A k \in 1 .. Len(s) : Step(t, s[k], d[k], d[k + 1])
  BY DEF Path
<1> DEFINE n == Len(s)
           e == [k \in 1 .. n |-> d[k + 1]]
<1>2. /\ n \in Nat /\ n >= 1 /\ Tail(s) \in Seq(Ops) /\ Len(Tail(s)) = n - 1
      /\ \A k \in 1 .. n - 1 : Tail(s)[k] = s[k + 1]
      /\ Head(s) = s[1]
  BY EmptySeq, HeadTailProperties
<1> HIDE DEF n
<1>3. e \in [1 .. n -> Nat] /\ e[1] = d[2] /\ e[n] = b /\ d[2] \in Nat
  BY <1>1, <1>2 DEF n
<1>4. ASSUME NEW k \in 1 .. n - 1 PROVE Step(t, Tail(s)[k], e[k], e[k + 1])
  <2>1. /\ k + 1 \in 1 .. n /\ Tail(s)[k] = s[k + 1] /\ e[k] = d[k + 1]
        /\ e[k + 1] = d[(k + 1) + 1]
    BY <1>2
  <2>2. Step(t, s[k + 1], d[k + 1], d[(k + 1) + 1])
    BY <1>1, <2>1 DEF n
  <2>3. QED
    BY <2>1, <2>2
<1>5. Step(t, Head(s), a, d[2])
  <2>1. Step(t, s[1], d[1], d[1 + 1])
    BY <1>1, <1>2 DEF n
  <2>2. QED
    BY <1>1, <1>2, <2>1
<1>6. Path(t, Tail(s), d[2], b)
  <2> HIDE DEF e
  <2>1. Len(Tail(s)) + 1 = n
    BY <1>2
  <2>2. QED
    BY <1>2, <1>3, <1>4, <2>1 DEF Path
<1>7. QED
  BY <1>3, <1>5, <1>6

(* Operations that mask nothing and unmask nothing keep the depth.         *)
LEMMA PlainPath ==
    ASSUME NEW t, NEW s \in Seq(Ops), NEW a \in Nat,
           \A k \in 1 .. Len(s) :
               s[k] \notin {"kill", "restore", "irqinit", "irqdown", "rfi", "config"}
    PROVE  Path(t, s, a, a)
<1> DEFINE d == [k \in 1 .. Len(s) + 1 |-> a]
<1>1. Len(s) \in Nat
  OBVIOUS
<1>2. d \in [1 .. Len(s) + 1 -> Nat] /\ d[1] = a /\ d[Len(s) + 1] = a
  BY <1>1
<1>3. \A k \in 1 .. Len(s) : Step(t, s[k], d[k], d[k + 1])
  BY <1>1 DEF Step
<1> HIDE DEF d
<1>4. QED
  BY <1>2, <1>3 DEF Path

(* One such operation.                                                     *)
LEMMA OnePath ==
    ASSUME NEW t, NEW a \in Nat, NEW op \in Ops,
           op \notin {"kill", "restore", "irqinit", "irqdown", "rfi", "config"}
    PROVE  Path(t, <<op>>, a, a)
<1> DEFINE s == <<op>>
<1>1. s \in Seq(Ops) /\ Len(s) = 1 /\ s[1] = op
  OBVIOUS
<1> HIDE DEF s
<1>2. \A k \in 1 .. Len(s) :
          s[k] \notin {"kill", "restore", "irqinit", "irqdown", "rfi", "config"}
  BY <1>1
<1>3. Path(t, s, a, a)
  BY <1>1, <1>2, PlainPath
<1>4. QED
  BY <1>3 DEF s

(* The depth along the sections of memory.c and around them.               *)
LEMMA Pieces ==
    ASSUME NEW t, NEW a \in Nat
    PROVE  /\ Path(t, <<"kill", "gate", "open", "restore">>, a, a)
           /\ Path(t, <<"kill", "ack", "gate", "open", "restore">>, a, a)
           /\ Path(t, <<"kill", "clean", "drain">>, a, a + 1)
           /\ Path(t, <<"kill", "inval">>, a, a + 1)
           /\ Path(t, <<"restore">>, a + 1, a)
           /\ Path(t, <<"kill", "print", "dcinval", "drain", "cacheon", "print", "restore">>, a, a)
           /\ Path(t, <<"kill", "clean", "drain", "cacheoff", "dcinval", "restore">>, a, a)
           /\ Path("main", <<"irqinit", "print", "irqdown", "print">>, 0, 0)
           /\ Path("irq", <<"rfi">>, 0, 0)
<1>1. Path(t, <<"kill", "gate", "open", "restore">>, a, a)
  <2> DEFINE s == <<"kill", "gate", "open", "restore">>
             d == <<a, a + 1, a + 1, a + 1, a>>
  <2>1. Len(s) = 4 /\ d \in [1 .. 5 -> Nat] /\ d[1] = a /\ d[5] = a
    OBVIOUS
  <2>2. \A k \in 1 .. 4 : Step(t, s[k], d[k], d[k + 1])
    BY DEF Step
  <2> HIDE DEF s, d
  <2>3. Path(t, s, a, a)
    BY <2>1, <2>2 DEF Path
  <2>4. QED
    BY <2>3 DEF s
<1>2. Path(t, <<"kill", "ack", "gate", "open", "restore">>, a, a)
  <2> DEFINE s == <<"kill", "ack", "gate", "open", "restore">>
             d == <<a, a + 1, a + 1, a + 1, a + 1, a>>
  <2>1. Len(s) = 5 /\ d \in [1 .. 6 -> Nat] /\ d[1] = a /\ d[6] = a
    OBVIOUS
  <2>2. \A k \in 1 .. 5 : Step(t, s[k], d[k], d[k + 1])
    BY DEF Step
  <2> HIDE DEF s, d
  <2>3. Path(t, s, a, a)
    BY <2>1, <2>2 DEF Path
  <2>4. QED
    BY <2>3 DEF s
<1>3. Path(t, <<"kill", "clean", "drain">>, a, a + 1)
  <2> DEFINE s == <<"kill", "clean", "drain">>
             d == <<a, a + 1, a + 1, a + 1>>
  <2>1. Len(s) = 3 /\ d \in [1 .. 4 -> Nat] /\ d[1] = a /\ d[4] = a + 1
    OBVIOUS
  <2>2. \A k \in 1 .. 3 : Step(t, s[k], d[k], d[k + 1])
    BY DEF Step
  <2> HIDE DEF s, d
  <2>3. Path(t, s, a, a + 1)
    BY <2>1, <2>2 DEF Path
  <2>4. QED
    BY <2>3 DEF s
<1>4. Path(t, <<"kill", "inval">>, a, a + 1)
  <2> DEFINE s == <<"kill", "inval">>
             d == <<a, a + 1, a + 1>>
  <2>1. Len(s) = 2 /\ d \in [1 .. 3 -> Nat] /\ d[1] = a /\ d[3] = a + 1
    OBVIOUS
  <2>2. \A k \in 1 .. 2 : Step(t, s[k], d[k], d[k + 1])
    BY DEF Step
  <2> HIDE DEF s, d
  <2>3. Path(t, s, a, a + 1)
    BY <2>1, <2>2 DEF Path
  <2>4. QED
    BY <2>3 DEF s
<1>5. Path(t, <<"restore">>, a + 1, a)
  <2> DEFINE s == <<"restore">>
             d == <<a + 1, a>>
  <2>1. Len(s) = 1 /\ d \in [1 .. 2 -> Nat] /\ d[1] = a + 1 /\ d[2] = a
    OBVIOUS
  <2>2. \A k \in 1 .. 1 : Step(t, s[k], d[k], d[k + 1])
    BY DEF Step
  <2> HIDE DEF s, d
  <2>3. Path(t, s, a + 1, a)
    BY <2>1, <2>2 DEF Path
  <2>4. QED
    BY <2>3 DEF s
<1>6. Path(t, <<"kill", "print", "dcinval", "drain", "cacheon", "print", "restore">>, a, a)
  <2> DEFINE s == <<"kill", "print", "dcinval", "drain", "cacheon", "print", "restore">>
             d == <<a, a + 1, a + 1, a + 1, a + 1, a + 1, a + 1, a>>
  <2>1. Len(s) = 7 /\ d \in [1 .. 8 -> Nat] /\ d[1] = a /\ d[8] = a
    OBVIOUS
  <2>2. \A k \in 1 .. 7 : Step(t, s[k], d[k], d[k + 1])
    BY DEF Step
  <2> HIDE DEF s, d
  <2>3. Path(t, s, a, a)
    BY <2>1, <2>2 DEF Path
  <2>4. QED
    BY <2>3 DEF s
<1>7. Path(t, <<"kill", "clean", "drain", "cacheoff", "dcinval", "restore">>, a, a)
  <2> DEFINE s == <<"kill", "clean", "drain", "cacheoff", "dcinval", "restore">>
             d == <<a, a + 1, a + 1, a + 1, a + 1, a + 1, a>>
  <2>1. Len(s) = 6 /\ d \in [1 .. 7 -> Nat] /\ d[1] = a /\ d[7] = a
    OBVIOUS
  <2>2. \A k \in 1 .. 6 : Step(t, s[k], d[k], d[k + 1])
    BY DEF Step
  <2> HIDE DEF s, d
  <2>3. Path(t, s, a, a)
    BY <2>1, <2>2 DEF Path
  <2>4. QED
    BY <2>3 DEF s
<1>8. Path("main", <<"irqinit", "print", "irqdown", "print">>, 0, 0)
  <2> DEFINE s == <<"irqinit", "print", "irqdown", "print">>
             d == <<0, 0, 0, 0, 0>>
  <2>1. Len(s) = 4 /\ d \in [1 .. 5 -> Nat] /\ d[1] = 0 /\ d[5] = 0
    OBVIOUS
  <2>2. \A k \in 1 .. 4 : Step("main", s[k], d[k], d[k + 1])
    BY DEF Step
  <2> HIDE DEF s, d
  <2>3. Path("main", s, 0, 0)
    BY <2>1, <2>2 DEF Path
  <2>4. QED
    BY <2>3 DEF s
<1>9. Path("irq", <<"rfi">>, 0, 0)
  <2> DEFINE s == <<"rfi">>
             d == <<0, 0>>
  <2>1. Len(s) = 1 /\ d \in [1 .. 2 -> Nat] /\ d[1] = 0 /\ d[2] = 0
    OBVIOUS
  <2>2. \A k \in 1 .. 1 : Step("irq", s[k], d[k], d[k + 1])
    BY DEF Step
  <2> HIDE DEF s, d
  <2>3. Path("irq", s, 0, 0)
    BY <2>1, <2>2 DEF Path
  <2>4. QED
    BY <2>3 DEF s
<1>10. QED
  BY <1>1, <1>2, <1>3, <1>4, <1>5, <1>6, <1>7, <1>8, <1>9

(* The tuples the procedures are made of.                                  *)
LEMMA Tuples ==
    /\ ahb_flush_to \in Seq(Ops) /\ ahb_flush_from \in Seq(Ops)
    /\ <<"kill", "inval">> \in Seq(Ops) /\ <<"kill", "clean", "drain">> \in Seq(Ops)
    /\ <<"restore">> \in Seq(Ops) /\ <<"next">> \in Seq(Ops) /\ <<"test", "put">> \in Seq(Ops)
    /\ <<"print">> \in Seq(Ops) /\ <<"rfi">> \in Seq(Ops) /\ <<"excinit">> \in Seq(Ops)
    /\ <<"reset">> \in Seq(Ops) /\ exc_handler \in Seq(Ops)
    /\ mem_initialize \in Seq(Ops) /\ mem_shutdown \in Seq(Ops)
    /\ <<"irqinit", "print", "irqdown", "print">> \in Seq(Ops) /\ <<"config">> \in Seq(Ops)
<1>1. ahb_flush_to \in Seq(Ops) /\ ahb_flush_from \in Seq(Ops)
  BY DEF Ops, ahb_flush_to, ahb_flush_from
<1>2. <<"kill", "inval">> \in Seq(Ops) /\ <<"kill", "clean", "drain">> \in Seq(Ops)
  BY DEF Ops
<1>3. <<"restore">> \in Seq(Ops) /\ <<"next">> \in Seq(Ops) /\ <<"test", "put">> \in Seq(Ops)
  BY DEF Ops
<1>4. <<"print">> \in Seq(Ops) /\ <<"rfi">> \in Seq(Ops) /\ <<"excinit">> \in Seq(Ops)
  BY DEF Ops
<1>5. <<"reset">> \in Seq(Ops) /\ exc_handler \in Seq(Ops) /\ <<"config">> \in Seq(Ops)
  BY DEF Ops, exc_handler
<1>6. mem_initialize \in Seq(Ops) /\ mem_shutdown \in Seq(Ops)
  BY DEF Ops, mem_initialize, mem_shutdown
<1>7. <<"irqinit", "print", "irqdown", "print">> \in Seq(Ops)
  BY DEF Ops
<1>8. QED
  BY <1>1, <1>2, <1>3, <1>4, <1>5, <1>6, <1>7

(* The procedures leave the depth as they found it.                        *)
LEMMA Procedures ==
    ASSUME NEW t, NEW a \in Nat
    PROVE  /\ Path(t, dc_invalidaterange, a, a) /\ dc_invalidaterange \in Seq(Ops)
           /\ Path(t, dc_flushrange, a, a) /\ dc_flushrange \in Seq(Ops)
           /\ Path(t, PrintChar, a, a) /\ PrintChar \in Seq(Ops)
<1>1. Path(t, ahb_flush_to, a + 1, a + 1) /\ Path(t, ahb_flush_from, a + 1, a + 1)
  <2>1. a + 1 \in Nat
    OBVIOUS
  <2>2. QED
    BY <2>1, Pieces DEF ahb_flush_to, ahb_flush_from
<1>2. Path(t, <<"test", "put">>, a, a) /\ Path(t, <<"next">>, a, a)
  <2>1. Path(t, <<"test", "put">>, a, a)
    <3> DEFINE s == <<"test", "put">>
    <3>1. s \in Seq(Ops)
      BY Tuples
    <3>2. \A k \in 1 .. Len(s) :
              s[k] \notin {"kill", "restore", "irqinit", "irqdown", "rfi", "config"}
      OBVIOUS
    <3> HIDE DEF s
    <3>3. Path(t, s, a, a)
      BY <3>1, <3>2, PlainPath
    <3>4. QED
      BY <3>3 DEF s
  <2>2. Path(t, <<"next">>, a, a)
    BY OnePath DEF Ops
  <2>3. QED
    BY <2>1, <2>2
<1>3. Path(t, dc_invalidaterange, a, a) /\ dc_invalidaterange \in Seq(Ops)
  <2>1. /\ <<"kill", "inval">> \o ahb_flush_to \in Seq(Ops)
        /\ Path(t, <<"kill", "inval">> \o ahb_flush_to, a, a + 1)
    BY <1>1, Tuples, Pieces, PathConcat, ConcatProperties
  <2>2. QED
    BY Tuples, <2>1, Pieces, PathConcat, ConcatProperties DEF dc_invalidaterange
<1>4. Path(t, dc_flushrange, a, a) /\ dc_flushrange \in Seq(Ops)
  <2>1. /\ <<"kill", "clean", "drain">> \o ahb_flush_from \in Seq(Ops)
        /\ Path(t, <<"kill", "clean", "drain">> \o ahb_flush_from, a, a + 1)
    BY <1>1, Tuples, Pieces, PathConcat, ConcatProperties
  <2>2. QED
    BY Tuples, <2>1, Pieces, PathConcat, ConcatProperties DEF dc_flushrange
<1>5. Path(t, PrintChar, a, a) /\ PrintChar \in Seq(Ops)
  <2>1. /\ dc_invalidaterange \o <<"test", "put">> \in Seq(Ops)
        /\ Path(t, dc_invalidaterange \o <<"test", "put">>, a, a)
    BY Tuples, <1>2, <1>3, PathConcat, ConcatProperties
  <2>2. /\ dc_invalidaterange \o <<"test", "put">> \o dc_flushrange \in Seq(Ops)
        /\ Path(t, dc_invalidaterange \o <<"test", "put">> \o dc_flushrange, a, a)
    BY <1>4, <2>1, PathConcat, ConcatProperties
  <2>3. QED
    BY Tuples, <1>2, <2>2, PathConcat, ConcatProperties DEF PrintChar
<1>6. QED
  BY <1>3, <1>4, <1>5

(* What is left of _main after gecko_init, and the two handlers, end       *)
(* outside every section.                                                  *)
LEMMA Threadwise ==
    /\ Path("main", AfterConfig, 0, 0) /\ AfterConfig \in Seq(Ops)
    /\ \A error \in BOOLEAN : Path("irq", Handler(error), 0, 0) /\ Handler(error) \in Seq(Ops)
    /\ Path("exc", exc_handler, 0, 0) /\ exc_handler \in Seq(Ops)
    /\ \A t \in Threads : Path(t, <<>>, 0, 0)
<1>1. \A t \in Threads : Path(t, <<>>, 0, 0)
  <2> SUFFICES ASSUME NEW t \in Threads PROVE Path(t, <<>>, 0, 0)
    OBVIOUS
  <2> DEFINE s == <<>>
  <2>1. s \in Seq(Ops) /\ Len(s) = 0
    OBVIOUS
  <2> HIDE DEF s
  <2>2. Path(t, s, 0, 0)
    <3>1. \A k \in 1 .. Len(s) : FALSE
      BY <2>1
    <3>2. \A k \in 1 .. Len(s) :
              s[k] \notin {"kill", "restore", "irqinit", "irqdown", "rfi", "config"}
      BY <3>1
    <3>3. s \in Seq(Ops)
      BY <2>1
    <3>4. QED
      BY <3>2, <3>3, PlainPath
  <2>3. QED
    BY <2>2 DEF s
<1>2. ASSUME NEW t \in Threads
      PROVE  /\ Path(t, <<"excinit">>, 0, 0) /\ Path(t, <<"reset">>, 0, 0)
             /\ Path(t, <<"print">>, 0, 0) /\ Path(t, exc_handler, 0, 0)
  <2>1. Path(t, <<"excinit">>, 0, 0)
    BY OnePath DEF Ops
  <2>2. Path(t, <<"reset">>, 0, 0)
    BY OnePath DEF Ops
  <2>3. Path(t, <<"print">>, 0, 0)
    BY OnePath DEF Ops
  <2>4. Path(t, exc_handler, 0, 0)
    <3> DEFINE s == exc_handler
    <3>1. s \in Seq(Ops)
      BY Tuples
    <3>2. \A k \in 1 .. Len(s) :
              s[k] \notin {"kill", "restore", "irqinit", "irqdown", "rfi", "config"}
      BY DEF exc_handler
    <3> HIDE DEF s
    <3>3. Path(t, s, 0, 0)
      BY <3>1, <3>2, PlainPath
    <3>4. QED
      BY <3>3 DEF s
  <2>5. QED
    BY <2>1, <2>2, <2>3, <2>4
<1>3. Path("main", AfterConfig, 0, 0) /\ AfterConfig \in Seq(Ops)
  <2>1. /\ Path("main", mem_initialize, 0, 0) /\ Path("main", mem_shutdown, 0, 0)
        /\ Path("main", <<"irqinit", "print", "irqdown", "print">>, 0, 0)
    BY Pieces DEF mem_initialize, mem_shutdown
  <2>2. Path("main", <<"excinit">>, 0, 0) /\ Path("main", <<"reset">>, 0, 0)
    BY <1>2 DEF Threads
  <2> DEFINE p == <<"excinit">> \o mem_initialize
             q == p \o <<"irqinit", "print", "irqdown", "print">>
             r == q \o mem_shutdown
  <2>3. Path("main", p, 0, 0) /\ p \in Seq(Ops)
    BY <2>1, <2>2, Tuples, PathConcat, ConcatProperties
  <2> HIDE DEF p
  <2>4. Path("main", q, 0, 0) /\ q \in Seq(Ops)
    BY <2>1, <2>3, Tuples, PathConcat, ConcatProperties
  <2> HIDE DEF q
  <2>5. Path("main", r, 0, 0) /\ r \in Seq(Ops)
    BY <2>1, <2>4, Tuples, PathConcat, ConcatProperties
  <2> HIDE DEF r
  <2>6. Path("main", r \o <<"reset">>, 0, 0) /\ r \o <<"reset">> \in Seq(Ops)
    BY <2>2, <2>5, Tuples, PathConcat, ConcatProperties
  <2>7. QED
    BY <2>6 DEF AfterConfig, p, q, r
<1>4. ASSUME NEW error \in BOOLEAN
      PROVE  Path("irq", Handler(error), 0, 0) /\ Handler(error) \in Seq(Ops)
  <2> DEFINE p == IF error THEN <<"print">> ELSE <<>>
             q == p \o ahb_flush_from
             r == q \o ahb_flush_to
  <2>1. Path("irq", p, 0, 0) /\ p \in Seq(Ops)
    BY <1>1, <1>2, Tuples DEF Threads
  <2>2. /\ Path("irq", ahb_flush_from, 0, 0) /\ Path("irq", ahb_flush_to, 0, 0)
        /\ Path("irq", <<"rfi">>, 0, 0)
    BY Pieces DEF ahb_flush_from, ahb_flush_to
  <2> HIDE DEF p
  <2>3. Path("irq", q, 0, 0) /\ q \in Seq(Ops)
    BY <2>1, <2>2, Tuples, PathConcat, ConcatProperties
  <2> HIDE DEF q
  <2>4. Path("irq", r, 0, 0) /\ r \in Seq(Ops)
    BY <2>2, <2>3, Tuples, PathConcat, ConcatProperties
  <2> HIDE DEF r
  <2>5. Path("irq", r \o <<"rfi">>, 0, 0) /\ r \o <<"rfi">> \in Seq(Ops)
    BY <2>2, <2>4, Tuples, PathConcat, ConcatProperties
  <2>6. QED
    BY <2>5 DEF Handler, p, q, r
<1>5. QED
  BY <1>1, <1>2, <1>3, <1>4, Tuples DEF Threads

(* _main is gecko_init and the rest.                                       *)
LEMMA HeadTailMain == Head(Main) = "config" /\ Tail(Main) = AfterConfig /\ Main \in Seq(Ops)
<1>1. <<"config">> \in Seq(Ops) /\ AfterConfig \in Seq(Ops)
  BY Tuples, Threadwise
<1>2. QED
  BY <1>1, ConcatProperties DEF Main

-----------------------------------------------------------------------------
(* Before gecko_init nothing has been done and nothing can interrupt.      *)
Starting ==
    /\ todo["main"] = Main /\ thread = "main" /\ cookies["main"] = <<>>
    /\ ready = {} /\ cpsr = {"I", "F"} /\ arm.st = "inv"

(* The types of what the sections depend on.                               *)
SectionTypes ==
    /\ thread \in Threads
    /\ todo \in [Threads -> Seq(Ops)]
    /\ cookies \in [Threads -> Seq(SUBSET {"I", "F"})]

(* What a thread has left to do closes the sections it is in.              *)
NestInv ==
    /\ Starting \/ Path("main", todo["main"], Len(cookies["main"]), 0)
    /\ Path("irq", todo["irq"], Len(cookies["irq"]), 0)
    /\ Path("exc", todo["exc"], Len(cookies["exc"]), 0)

(* Only the outermost section of the main thread, and only while the       *)
(* interrupt controller is in use, was entered with interrupts open.       *)
CookieInv ==
    /\ \A t \in {"irq", "exc"} : \A k \in 1 .. Len(cookies[t]) : "I" \in cookies[t][k]
    /\ \A k \in 2 .. Len(cookies["main"]) : "I" \in cookies["main"][k]
    /\ cookies["main"] # <<>> => ("I" \in cookies["main"][1] <=> "irq" \notin ready)
    /\ thread = "main" => cookies["irq"] = <<>>
    /\ thread # "exc" => cookies["exc"] = <<>>
    /\ thread = "irq" => "irq" \in ready

(* The inductive invariant of the sections.                                *)
SectionInv == SectionTypes /\ NestInv /\ CookieInv /\ MaskFollowsSections

(* The next operation of the running thread, and the depth after it.       *)
LEMMA Advance ==
    ASSUME SectionTypes, NestInv, todo[thread] # <<>>, Head(todo[thread]) # "config"
    PROVE  \E m \in Nat : /\ Step(thread, Head(todo[thread]), Len(cookies[thread]), m)
                          /\ Path(thread, Tail(todo[thread]), m, 0)
<1>1. thread \in Threads /\ todo[thread] \in Seq(Ops)
  BY DEF SectionTypes
<1>2. ~Starting
  <2> SUFFICES ASSUME Starting PROVE FALSE
    OBVIOUS
  <2>1. Head(Main) = "config"
    BY Threadwise DEF Main
  <2>2. QED
    BY <2>1 DEF Starting
<1>3. Path(thread, todo[thread], Len(cookies[thread]), 0)
  BY <1>1, <1>2 DEF NestInv, Threads
<1>4. QED
  BY <1>1, <1>3, PathTail

(* gecko_init is the first thing that is done.                             *)
LEMMA ConfigFirst ==
    ASSUME SectionTypes, NestInv, todo[thread] # <<>>, Head(todo[thread]) = "config"
    PROVE  Starting
<1>1. thread \in Threads /\ todo[thread] \in Seq(Ops)
  BY DEF SectionTypes
<1>2. ~Path(thread, todo[thread], Len(cookies[thread]), 0)
  <2> SUFFICES ASSUME Path(thread, todo[thread], Len(cookies[thread]), 0) PROVE FALSE
    OBVIOUS
  <2>1. \E m \in Nat : Step(thread, Head(todo[thread]), Len(cookies[thread]), m)
    BY <1>1, PathTail
  <2>2. QED
    BY <2>1 DEF Step
<1>3. QED
  BY <1>1, <1>2 DEF NestInv, Threads

(* A step that stays in the section keeps the invariant if what it goes to *)
(* closes that section.                                                    *)
LEMMA Moved ==
    ASSUME SectionInv, NEW q \in Seq(Ops), Goto(q), Path(thread, q, Len(cookies[thread]), 0),
           UNCHANGED <<thread, cookies, cpsr, ready>>
    PROVE  SectionInv'
<1>1. thread \in Threads /\ todo \in [Threads -> Seq(Ops)]
  BY DEF SectionInv, SectionTypes
<1>2. todo' = [todo EXCEPT ![thread] = q]
  BY DEF Goto
<1>3. SectionTypes'
  BY <1>1, <1>2 DEF SectionInv, SectionTypes
<1>4. NestInv'
  <2>1. thread = "main" \/ Path("main", todo["main"], Len(cookies["main"]), 0)
    BY DEF SectionInv, NestInv, Starting
  <2>2. /\ Path("irq", todo["irq"], Len(cookies["irq"]), 0)
        /\ Path("exc", todo["exc"], Len(cookies["exc"]), 0)
    BY DEF SectionInv, NestInv
  <2>3. todo'[thread] = q /\ \A t \in Threads \ {thread} : todo'[t] = todo[t]
    BY <1>1, <1>2
  <2>4. \A t \in Threads : Path(t, todo'[t], Len(cookies'[t]), 0)
    BY <2>1, <2>2, <2>3 DEF Threads
  <2>5. QED
    BY <2>4 DEF NestInv, Threads
<1>5. CookieInv' /\ MaskFollowsSections'
  BY DEF SectionInv, CookieInv, MaskFollowsSections
<1>6. QED
  BY <1>3, <1>4, <1>5 DEF SectionInv

(* A step that only does its operation.                                    *)
LEMMA Advanced ==
    ASSUME SectionInv, Done, UNCHANGED <<thread, cookies, cpsr, ready>>,
           Op \notin {"none", "kill", "restore", "config"}
    PROVE  SectionInv'
<1>1. todo[thread] # <<>> /\ Op = Head(todo[thread])
  BY DEF Op
<1>2. PICK m \in Nat : /\ Step(thread, Op, Len(cookies[thread]), m)
                       /\ Path(thread, Tail(todo[thread]), m, 0)
  BY <1>1, Advance DEF SectionInv
<1>3. m = Len(cookies[thread])
  BY <1>2 DEF Step
<1>4. Tail(todo[thread]) \in Seq(Ops)
  BY <1>1, HeadTailProperties DEF SectionInv, SectionTypes
<1>5. QED
  BY <1>2, <1>3, <1>4, Moved DEF Done

(* The same with the operations of a procedure put in front.               *)
LEMMA Called ==
    ASSUME SectionInv, UNCHANGED <<thread, cookies, cpsr, ready>>,
           Op \notin {"none", "kill", "restore", "config"},
           NEW p \in Seq(Ops), Path(thread, p, Len(cookies[thread]), Len(cookies[thread])),
           Goto(p \o Tail(todo[thread]))
    PROVE  SectionInv'
<1>1. todo[thread] # <<>> /\ Op = Head(todo[thread])
  BY DEF Op
<1>2. PICK m \in Nat : /\ Step(thread, Op, Len(cookies[thread]), m)
                       /\ Path(thread, Tail(todo[thread]), m, 0)
  BY <1>1, Advance DEF SectionInv
<1>3. m = Len(cookies[thread])
  BY <1>2 DEF Step
<1>4. Tail(todo[thread]) \in Seq(Ops)
  BY <1>1, HeadTailProperties DEF SectionInv, SectionTypes
<1>5. /\ Path(thread, p \o Tail(todo[thread]), Len(cookies[thread]), 0)
      /\ p \o Tail(todo[thread]) \in Seq(Ops)
  BY <1>2, <1>3, <1>4, PathConcat, ConcatProperties
<1>6. QED
  BY <1>5, Moved

(* Initially the main thread is before gecko_init.                         *)
LEMMA SectionInit == Init => SectionInv
<1> SUFFICES ASSUME Init PROVE SectionInv
  OBVIOUS
<1>1. Main \in Seq(Ops)
  BY Threadwise, Tuples, ConcatProperties DEF Main
<1>2. SectionTypes
  BY <1>1 DEF Init, SectionTypes, Threads
<1>3. /\ thread = "main" /\ todo["main"] = Main /\ todo["irq"] = <<>> /\ todo["exc"] = <<>>
      /\ cookies["main"] = <<>> /\ cookies["irq"] = <<>> /\ cookies["exc"] = <<>>
      /\ cpsr = {"I", "F"} /\ ready = {} /\ arm.st = "inv"
  BY DEF Init, Threads, NoLine
<1>4. Path("irq", <<>>, 0, 0) /\ Path("exc", <<>>, 0, 0) /\ Len(<<>>) = 0
  BY Threadwise DEF Threads
<1>5. NestInv
  BY <1>3, <1>4 DEF NestInv, Starting
<1>6. CookieInv
  BY <1>3 DEF CookieInv
<1>7. MaskFollowsSections
  BY <1>3 DEF MaskFollowsSections
<1>8. QED
  BY <1>2, <1>5, <1>6, <1>7 DEF SectionInv

(* The steps of the other processor and of the hardware touch no section.  *)
LEMMA OthersStep ==
    ASSUME SectionInv, UNCHANGED armVars, arm' = arm \/ arm'.st = "inv"
    PROVE  SectionInv'
<1>1. UNCHANGED <<thread, todo, cookies, cpsr, ready>>
  BY DEF armVars
<1>2. Starting => Starting'
  BY <1>1 DEF Starting
<1>3. SectionTypes' /\ CookieInv' /\ MaskFollowsSections'
  BY <1>1 DEF SectionInv, SectionTypes, CookieInv, MaskFollowsSections
<1>4. NestInv'
  BY <1>1, <1>2 DEF SectionInv, NestInv
<1>5. QED
  BY <1>3, <1>4 DEF SectionInv

(* irq_kill opens a section ...                                            *)
LEMMA KillStep == ASSUME SectionInv, irq_kill PROVE SectionInv'
<1>1. /\ todo[thread] # <<>> /\ Head(todo[thread]) = "kill"
      /\ todo' = [todo EXCEPT ![thread] = Tail(todo[thread])]
      /\ cookies' = [cookies EXCEPT ![thread] = Append(@, cpsr \cap {"I", "F"})]
      /\ cpsr' = cpsr \cup {"I", "F"} /\ thread' = thread /\ ready' = ready
  BY DEF irq_kill, Op, Done, Goto
<1>2. /\ thread \in Threads /\ todo \in [Threads -> Seq(Ops)]
      /\ cookies \in [Threads -> Seq(SUBSET {"I", "F"})]
  BY DEF SectionInv, SectionTypes
<1>3. PICK m \in Nat : /\ Step(thread, "kill", Len(cookies[thread]), m)
                       /\ Path(thread, Tail(todo[thread]), m, 0)
  BY <1>1, Advance DEF SectionInv
<1> DEFINE c == Append(cookies[thread], cpsr \cap {"I", "F"})
           n == Len(cookies[thread])
<1>4. m = n + 1 /\ n \in Nat
  BY <1>2, <1>3 DEF Step
<1>5. Tail(todo[thread]) \in Seq(Ops)
  BY <1>1, <1>2, HeadTailProperties
<1>6. /\ c \in Seq(SUBSET {"I", "F"}) /\ Len(c) = n + 1 /\ c[n + 1] = cpsr \cap {"I", "F"}
      /\ \A k \in 1 .. n : c[k] = cookies[thread][k]
  BY <1>2, AppendProperties
<1>7. /\ todo'[thread] = Tail(todo[thread]) /\ cookies'[thread] = c
      /\ \A t \in Threads \ {thread} : todo'[t] = todo[t] /\ cookies'[t] = cookies[t]
  BY <1>1, <1>2
<1>8. SectionTypes'
  BY <1>1, <1>2, <1>5, <1>6 DEF SectionTypes
<1> HIDE DEF c
<1>9. NestInv'
  <2>1. thread = "main" \/ Path("main", todo["main"], Len(cookies["main"]), 0)
    BY DEF SectionInv, NestInv, Starting
  <2>2. /\ Path("irq", todo["irq"], Len(cookies["irq"]), 0)
        /\ Path("exc", todo["exc"], Len(cookies["exc"]), 0)
    BY DEF SectionInv, NestInv
  <2>3. Path(thread, todo'[thread], Len(cookies'[thread]), 0)
    BY <1>3, <1>4, <1>6, <1>7
  <2>4. \A t \in Threads : Path(t, todo'[t], Len(cookies'[t]), 0)
    BY <2>1, <2>2, <2>3, <1>7 DEF Threads
  <2>5. QED
    BY <2>4 DEF NestInv, Threads
<1>10. MaskFollowsSections'
  <2>1. thread = "main" => cookies'["main"] # <<>>
    BY <1>4, <1>6, <1>7
  <2>2. thread = "irq" => cookies'["main"] = <<>>
    BY <1>2, <1>7 DEF SectionInv, MaskFollowsSections, Threads
  <2>3. QED
    BY <1>1, <2>1, <2>2 DEF MaskFollowsSections
<1>11. CookieInv'
  <2>1. CASE thread = "main"
    <3>1. cookies'["irq"] = cookies["irq"] /\ cookies'["exc"] = cookies["exc"]
      BY <1>7, <2>1 DEF Threads
    <3>2. \A k \in 2 .. n : c[k] = cookies["main"][k]
      BY <1>4, <1>6, <2>1
    <3>3. n >= 1 => cookies["main"] # <<>> /\ c[1] = cookies["main"][1]
      BY <1>4, <1>6, <2>1
    <3>4. n = 0 => cookies["main"] = <<>>
      BY <1>2, <2>1, EmptySeq
    <3>5. n >= 1 => "I" \in c[n + 1]
      BY <1>6, <2>1, <3>3 DEF SectionInv, MaskFollowsSections
    <3>6. n = 0 => ("I" \in c[1] <=> "irq" \notin ready)
      BY <1>6, <2>1, <3>4 DEF SectionInv, MaskFollowsSections
    <3>7. \A k \in 2 .. n + 1 : "I" \in c[k]
      BY <1>4, <2>1, <3>2, <3>5 DEF SectionInv, CookieInv
    <3>8. "I" \in c[1] <=> "irq" \notin ready
      BY <1>4, <3>3, <3>6 DEF SectionInv, CookieInv
    <3>9. cookies'["main"] = c /\ Len(c) = n + 1
      BY <1>6, <1>7, <2>1
    <3>10. QED
      BY <1>1, <2>1, <3>1, <3>7, <3>8, <3>9 DEF SectionInv, CookieInv
  <2>2. CASE thread # "main"
    <3>1. thread \in {"irq", "exc"} /\ "I" \in cpsr
      BY <1>2, <2>2 DEF SectionInv, MaskFollowsSections, Threads
    <3>2. \A k \in 1 .. n : "I" \in c[k]
      BY <1>6, <3>1 DEF SectionInv, CookieInv
    <3>3. "I" \in c[n + 1]
      BY <1>6, <3>1
    <3>4. \A k \in 1 .. Len(cookies'[thread]) : "I" \in cookies'[thread][k]
      BY <1>4, <1>6, <1>7, <3>2, <3>3
    <3>5. \A t \in {"irq", "exc"} : \A k \in 1 .. Len(cookies'[t]) : "I" \in cookies'[t][k]
      BY <1>7, <3>1, <3>4 DEF SectionInv, CookieInv, Threads
    <3>6. cookies'["main"] = cookies["main"] /\ (thread = "irq" => cookies'["exc"] = cookies["exc"])
      BY <1>7, <2>2 DEF Threads
    <3>7. QED
      BY <1>1, <2>2, <3>5, <3>6 DEF SectionInv, CookieInv
  <2>3. QED
    BY <2>1, <2>2
<1>12. QED
  BY <1>8, <1>9, <1>10, <1>11 DEF SectionInv

(* ... and irq_restore closes the last one opened.                         *)
LEMMA RestoreStep == ASSUME SectionInv, irq_restore PROVE SectionInv'
<1> DEFINE n == Len(cookies[thread])
           c == SubSeq(cookies[thread], 1, n - 1)
<1>1. /\ todo[thread] # <<>> /\ Head(todo[thread]) = "restore"
      /\ todo' = [todo EXCEPT ![thread] = Tail(todo[thread])]
      /\ cookies' = [cookies EXCEPT ![thread] = c]
      /\ cpsr' = (cpsr \ {"I", "F"}) \cup cookies[thread][n]
      /\ thread' = thread /\ ready' = ready
  BY DEF irq_restore, Op, Done, Goto, Restored
<1>2. /\ thread \in Threads /\ todo \in [Threads -> Seq(Ops)]
      /\ cookies \in [Threads -> Seq(SUBSET {"I", "F"})]
  BY DEF SectionInv, SectionTypes
<1>3. PICK m \in Nat : /\ Step(thread, "restore", Len(cookies[thread]), m)
                       /\ Path(thread, Tail(todo[thread]), m, 0)
  BY <1>1, Advance DEF SectionInv
<1>4. n = m + 1 /\ n \in Nat
  BY <1>2, <1>3 DEF Step
<1>5. Tail(todo[thread]) \in Seq(Ops)
  BY <1>1, <1>2, HeadTailProperties
<1>6. /\ c \in Seq(SUBSET {"I", "F"}) /\ Len(c) = m
      /\ \A k \in 1 .. m : c[k] = cookies[thread][k]
  <2>1. cookies[thread] \in Seq(SUBSET {"I", "F"})
    BY <1>2
  <2>2. n - 1 = m /\ 1 <= n /\ m <= n
    BY <1>4
  <2> HIDE DEF n
  <2>3. c = SubSeq(cookies[thread], 1, m)
    BY <2>2
  <2>4. QED
    BY <2>1, <2>2, <2>3, SubSeqProperties DEF n
<1>7. /\ todo'[thread] = Tail(todo[thread]) /\ cookies'[thread] = c
      /\ \A t \in Threads \ {thread} : todo'[t] = todo[t] /\ cookies'[t] = cookies[t]
  BY <1>1, <1>2
<1>8. SectionTypes'
  BY <1>1, <1>2, <1>5, <1>6 DEF SectionTypes
<1>9. cookies[thread] # <<>>
  BY <1>4
<1> HIDE DEF c
<1>10. NestInv'
  <2>1. thread = "main" \/ Path("main", todo["main"], Len(cookies["main"]), 0)
    BY DEF SectionInv, NestInv, Starting
  <2>2. /\ Path("irq", todo["irq"], Len(cookies["irq"]), 0)
        /\ Path("exc", todo["exc"], Len(cookies["exc"]), 0)
    BY DEF SectionInv, NestInv
  <2>3. Path(thread, todo'[thread], Len(cookies'[thread]), 0)
    BY <1>3, <1>6, <1>7
  <2>4. \A t \in Threads : Path(t, todo'[t], Len(cookies'[t]), 0)
    BY <2>1, <2>2, <2>3, <1>7 DEF Threads
  <2>5. QED
    BY <2>4 DEF NestInv, Threads
<1>11. CookieInv' /\ MaskFollowsSections'
  <2>1. CASE thread = "main"
    <3>1. /\ cookies'["irq"] = cookies["irq"] /\ cookies'["exc"] = cookies["exc"]
          /\ cookies'["main"] = c
      BY <1>7, <2>1 DEF Threads
    <3>2. \A k \in 2 .. m : c[k] = cookies["main"][k]
      BY <1>4, <1>6, <2>1
    <3>3. m >= 1 => c[1] = cookies["main"][1] /\ "I" \in cookies["main"][n]
      BY <1>4, <1>6, <2>1 DEF SectionInv, CookieInv
    <3>4. "I" \in cookies["main"][1] <=> "irq" \notin ready
      BY <1>9, <2>1 DEF SectionInv, CookieInv
    <3>5. m = 0 => c = <<>> /\ n = 1
      BY <1>4, <1>6, EmptySeq
    <3>6. c # <<>> => m >= 1
      BY <1>6, EmptySeq
    <3>7. "I" \in cpsr' <=> "I" \in cookies["main"][n]
      BY <1>1, <2>1
    <3>8. \A k \in 2 .. Len(c) : "I" \in c[k]
      <4>1. \A k \in 2 .. m : k \in 2 .. n
        BY <1>4
      <4>2. QED
        BY <1>6, <2>1, <3>2, <4>1 DEF SectionInv, CookieInv
    <3>9. "I" \in cpsr' <=> c # <<>> \/ "irq" \notin ready
      <4>1. CASE m = 0
        BY <3>4, <3>5, <3>7, <4>1
      <4>2. CASE m # 0
        <5>1. m >= 1 /\ c # <<>>
          BY <1>6, <4>2
        <5>2. QED
          BY <3>3, <3>7, <5>1
      <4>3. QED
        BY <4>1, <4>2
    <3>10. CookieInv'
      BY <1>1, <2>1, <3>1, <3>3, <3>4, <3>6, <3>8 DEF SectionInv, CookieInv
    <3>11. MaskFollowsSections'
      BY <1>1, <2>1, <3>1, <3>9 DEF MaskFollowsSections
    <3>12. QED
      BY <3>10, <3>11
  <2>2. CASE thread # "main"
    <3>1. thread \in {"irq", "exc"} /\ "I" \in cookies[thread][n]
      BY <1>2, <1>4, <2>2 DEF SectionInv, CookieInv, Threads
    <3>2. \A k \in 1 .. m : k \in 1 .. n
      BY <1>4
    <3>3. \A k \in 1 .. Len(cookies'[thread]) : "I" \in cookies'[thread][k]
      BY <1>6, <1>7, <3>1, <3>2 DEF SectionInv, CookieInv
    <3>4. \A t \in {"irq", "exc"} : \A k \in 1 .. Len(cookies'[t]) : "I" \in cookies'[t][k]
      BY <1>7, <3>1, <3>3 DEF SectionInv, CookieInv, Threads
    <3>5. cookies'["main"] = cookies["main"] /\ (thread = "irq" => cookies'["exc"] = cookies["exc"])
      BY <1>7, <2>2 DEF Threads
    <3>6. CookieInv'
      BY <1>1, <2>2, <3>4, <3>5 DEF SectionInv, CookieInv
    <3>7. MaskFollowsSections'
      BY <1>1, <2>2, <3>1, <3>5 DEF SectionInv, MaskFollowsSections
    <3>8. QED
      BY <3>6, <3>7
  <2>3. QED
    BY <2>1, <2>2
<1>12. QED
  BY <1>8, <1>10, <1>11 DEF SectionInv

(* Every step keeps the sections.                                          *)
LEMMA SectionStep == SectionInv /\ [Next]_vars => SectionInv'
<1> SUFFICES ASSUME SectionInv, [Next]_vars PROVE SectionInv'
  OBVIOUS
<1>0. thread \in Threads /\ Len(cookies[thread]) \in Nat
  BY DEF SectionInv, SectionTypes
<1>1. CASE irq_kill
  BY <1>1, KillStep
<1>2. CASE irq_restore
  BY <1>2, RestoreStep
<1>3. CASE FlushTest
  BY <1>3, Advanced DEF FlushTest, KeepCpu
<1>4. CASE FlushTo
  BY <1>4, Advanced DEF FlushTo, KeepCpu
<1>5. CASE FlushFrom
  BY <1>5, Advanced DEF FlushFrom, KeepCpu
<1>6. CASE Drain
  BY <1>6, Advanced DEF Drain, KeepCpu
<1>7. CASE Invalidate
  BY <1>7, Advanced DEF Invalidate, KeepCpu
<1>8. CASE Clean
  BY <1>8, Advanced DEF Clean, KeepCpu
<1>9. CASE SetCache
  BY <1>9, Advanced DEF SetCache, KeepCpu
<1>10. CASE WaitTaken
  BY <1>10, Advanced DEF WaitTaken, KeepCpu
<1>11. CASE WaitGiveUp
  BY <1>11, Advanced DEF WaitGiveUp, KeepCpu
<1>12. CASE PutChar
  BY <1>12, Advanced DEF PutChar, KeepCpu
<1>13. CASE gecko_printf
  <2>1. /\ Path(thread, PrintChar, Len(cookies[thread]), Len(cookies[thread]))
        /\ PrintChar \in Seq(Ops)
    BY <1>0, Procedures
  <2>2. Op = "print" /\ UNCHANGED <<thread, cookies, cpsr, ready>>
    BY <1>13 DEF gecko_printf, KeepCpu
  <2>3. Done \/ Goto(PrintChar \o Tail(todo[thread]))
    BY <1>13 DEF gecko_printf
  <2>4. QED
    BY <2>1, <2>2, <2>3, Advanced, Called
<1>14. CASE NextChar
  <2>1. /\ Path(thread, PrintChar, Len(cookies[thread]), Len(cookies[thread]))
        /\ PrintChar \in Seq(Ops)
    BY <1>0, Procedures
  <2>2. Op = "next" /\ UNCHANGED <<thread, cookies, cpsr, ready>>
    BY <1>14 DEF NextChar, KeepCpu
  <2>3. Done \/ Goto(PrintChar \o Tail(todo[thread]))
    BY <1>14 DEF NextChar
  <2>4. QED
    BY <2>1, <2>2, <2>3, Advanced, Called
<1>15. CASE WaitAgain
  <2>1. Op = "test" /\ UNCHANGED <<thread, cookies, cpsr, ready>>
    BY <1>15 DEF WaitAgain, KeepCpu
  <2>2. /\ Path(thread, dc_invalidaterange, Len(cookies[thread]), Len(cookies[thread]))
        /\ dc_invalidaterange \in Seq(Ops) /\ todo[thread] \in Seq(Ops)
    BY <1>0, Procedures DEF SectionInv, SectionTypes
  <2>3. todo[thread] # <<>> /\ Head(todo[thread]) = "test"
    BY <2>1 DEF Op
  <2>4. ~Starting
    <3>1. Head(Main) = "config"
      BY Threadwise DEF Main
    <3>2. QED
      BY <2>3, <3>1 DEF Starting
  <2>5. Path(thread, todo[thread], Len(cookies[thread]), 0)
    BY <1>0, <2>4 DEF SectionInv, NestInv, Threads
  <2>6. /\ Path(thread, dc_invalidaterange \o todo[thread], Len(cookies[thread]), 0)
        /\ dc_invalidaterange \o todo[thread] \in Seq(Ops)
    BY <2>2, <2>5, PathConcat, ConcatProperties
  <2>7. QED
    BY <1>15, <2>1, <2>6, Moved DEF WaitAgain
<1>16. CASE gecko_init
  <2>1. /\ todo[thread] # <<>> /\ Head(todo[thread]) = "config"
        /\ UNCHANGED <<thread, cookies, cpsr, ready>>
    BY <1>16 DEF gecko_init, Op
  <2>2. Starting
    BY <2>1, ConfigFirst DEF SectionInv
  <2>3. Tail(todo[thread]) = AfterConfig /\ thread = "main" /\ Len(cookies[thread]) = 0
    <3>1. Tail(Main) = AfterConfig
      BY Threadwise, HeadTailMain
    <3>2. QED
      BY <2>2, <3>1 DEF Starting
  <2>4. Goto(AfterConfig) \/ Goto(dc_flushrange \o AfterConfig)
    BY <1>16, <2>3 DEF gecko_init, Done
  <2>5. /\ Path(thread, AfterConfig, 0, 0) /\ AfterConfig \in Seq(Ops)
        /\ Path(thread, dc_flushrange, 0, 0) /\ dc_flushrange \in Seq(Ops)
    BY <2>3, Threadwise, Procedures
  <2>6. /\ Path(thread, dc_flushrange \o AfterConfig, 0, 0)
        /\ dc_flushrange \o AfterConfig \in Seq(Ops)
    BY <2>5, PathConcat, ConcatProperties
  <2>7. QED
    BY <2>1, <2>3, <2>4, <2>5, <2>6, Moved
<1>17. CASE exception_initialize
  <2>1. /\ todo[thread] # <<>> /\ Head(todo[thread]) = "excinit" /\ Op = "excinit"
        /\ todo' = [todo EXCEPT ![thread] = Tail(todo[thread])]
        /\ cpsr' = cpsr /\ ready' = ready \cup {"exc"}
        /\ thread' = thread /\ cookies' = cookies
    BY <1>17 DEF exception_initialize, Op, Done, Goto, Restored
  <2>2. todo \in [Threads -> Seq(Ops)] /\ cookies \in [Threads -> Seq(SUBSET {"I", "F"})]
    BY DEF SectionInv, SectionTypes
  <2>3. PICK m \in Nat : /\ Step(thread, "excinit", Len(cookies[thread]), m)
                         /\ Path(thread, Tail(todo[thread]), m, 0)
    BY <2>1, Advance DEF SectionInv
  <2>4. m = Len(cookies[thread])
    BY <2>3 DEF Step
  <2>5. Tail(todo[thread]) \in Seq(Ops)
    BY <1>0, <2>1, <2>2, HeadTailProperties
  <2>6. /\ todo'[thread] = Tail(todo[thread])
        /\ \A t \in Threads \ {thread} : todo'[t] = todo[t]
    BY <1>0, <2>1, <2>2
  <2>7. SectionTypes'
    BY <1>0, <2>1, <2>2, <2>5 DEF SectionTypes, Threads
  <2>8. NestInv'
    <3>1. thread = "main" \/ Path("main", todo["main"], Len(cookies["main"]), 0)
      BY DEF SectionInv, NestInv, Starting
    <3>2. /\ Path("irq", todo["irq"], Len(cookies["irq"]), 0)
          /\ Path("exc", todo["exc"], Len(cookies["exc"]), 0)
      BY DEF SectionInv, NestInv
    <3>3. Path(thread, todo'[thread], Len(cookies'[thread]), 0)
      BY <2>1, <2>3, <2>4, <2>6
    <3>4. \A t \in Threads : Path(t, todo'[t], Len(cookies'[t]), 0)
      BY <2>1, <2>6, <3>1, <3>2, <3>3 DEF Threads
    <3>5. QED
      BY <3>4 DEF NestInv, Threads
  <2>9. CookieInv' /\ MaskFollowsSections'
    BY <2>1 DEF SectionInv, CookieInv, MaskFollowsSections
  <2>10. QED
    BY <2>7, <2>8, <2>9 DEF SectionInv
<1>18. CASE irq_initialize
  <2>1. /\ todo[thread] # <<>> /\ Head(todo[thread]) = "irqinit" /\ Op = "irqinit"
        /\ todo' = [todo EXCEPT ![thread] = Tail(todo[thread])]
        /\ cpsr' = (cpsr \ {"I", "F"}) \cup {"F"} /\ ready' = ready \cup {"irq"}
        /\ thread' = thread /\ cookies' = cookies
    BY <1>18 DEF irq_initialize, Op, Done, Goto, Restored
  <2>2. todo \in [Threads -> Seq(Ops)] /\ cookies \in [Threads -> Seq(SUBSET {"I", "F"})]
    BY DEF SectionInv, SectionTypes
  <2>3. PICK m \in Nat : /\ Step(thread, "irqinit", Len(cookies[thread]), m)
                         /\ Path(thread, Tail(todo[thread]), m, 0)
    BY <2>1, Advance DEF SectionInv
  <2>4. m = Len(cookies[thread]) /\ m = 0 /\ thread = "main"
    BY <2>3 DEF Step
  <2>5. Tail(todo[thread]) \in Seq(Ops)
    BY <1>0, <2>1, <2>2, HeadTailProperties
  <2>6. /\ todo'[thread] = Tail(todo[thread])
        /\ \A t \in Threads \ {thread} : todo'[t] = todo[t]
    BY <1>0, <2>1, <2>2
  <2>7. SectionTypes'
    BY <1>0, <2>1, <2>2, <2>5 DEF SectionTypes, Threads
  <2>8. NestInv'
    <3>1. thread = "main" \/ Path("main", todo["main"], Len(cookies["main"]), 0)
      BY DEF SectionInv, NestInv, Starting
    <3>2. /\ Path("irq", todo["irq"], Len(cookies["irq"]), 0)
          /\ Path("exc", todo["exc"], Len(cookies["exc"]), 0)
      BY DEF SectionInv, NestInv
    <3>3. Path(thread, todo'[thread], Len(cookies'[thread]), 0)
      BY <2>1, <2>3, <2>4, <2>6
    <3>4. \A t \in Threads : Path(t, todo'[t], Len(cookies'[t]), 0)
      BY <2>1, <2>6, <3>1, <3>2, <3>3 DEF Threads
    <3>5. QED
      BY <3>4 DEF NestInv, Threads
  <2>9. cookies[thread] = <<>>
    BY <1>0, <2>2, <2>4, EmptySeq
  <2>10. CookieInv'
    BY <2>1, <2>4, <2>9 DEF SectionInv, CookieInv
  <2>11. MaskFollowsSections'
    BY <2>1, <2>4, <2>9 DEF MaskFollowsSections
  <2>12. QED
    BY <2>7, <2>8, <2>10, <2>11 DEF SectionInv
<1>19. CASE irq_shutdown
  <2>1. /\ todo[thread] # <<>> /\ Head(todo[thread]) = "irqdown" /\ Op = "irqdown"
        /\ todo' = [todo EXCEPT ![thread] = Tail(todo[thread])]
        /\ cpsr' = cpsr \cup {"I", "F"} /\ ready' = ready \ {"irq"}
        /\ thread' = thread /\ cookies' = cookies
    BY <1>19 DEF irq_shutdown, Op, Done, Goto, Restored
  <2>2. todo \in [Threads -> Seq(Ops)] /\ cookies \in [Threads -> Seq(SUBSET {"I", "F"})]
    BY DEF SectionInv, SectionTypes
  <2>3. PICK m \in Nat : /\ Step(thread, "irqdown", Len(cookies[thread]), m)
                         /\ Path(thread, Tail(todo[thread]), m, 0)
    BY <2>1, Advance DEF SectionInv
  <2>4. m = Len(cookies[thread]) /\ m = 0 /\ thread = "main"
    BY <2>3 DEF Step
  <2>5. Tail(todo[thread]) \in Seq(Ops)
    BY <1>0, <2>1, <2>2, HeadTailProperties
  <2>6. /\ todo'[thread] = Tail(todo[thread])
        /\ \A t \in Threads \ {thread} : todo'[t] = todo[t]
    BY <1>0, <2>1, <2>2
  <2>7. SectionTypes'
    BY <1>0, <2>1, <2>2, <2>5 DEF SectionTypes, Threads
  <2>8. NestInv'
    <3>1. thread = "main" \/ Path("main", todo["main"], Len(cookies["main"]), 0)
      BY DEF SectionInv, NestInv, Starting
    <3>2. /\ Path("irq", todo["irq"], Len(cookies["irq"]), 0)
          /\ Path("exc", todo["exc"], Len(cookies["exc"]), 0)
      BY DEF SectionInv, NestInv
    <3>3. Path(thread, todo'[thread], Len(cookies'[thread]), 0)
      BY <2>1, <2>3, <2>4, <2>6
    <3>4. \A t \in Threads : Path(t, todo'[t], Len(cookies'[t]), 0)
      BY <2>1, <2>6, <3>1, <3>2, <3>3 DEF Threads
    <3>5. QED
      BY <3>4 DEF NestInv, Threads
  <2>9. cookies[thread] = <<>>
    BY <1>0, <2>2, <2>4, EmptySeq
  <2>10. CookieInv'
    BY <2>1, <2>4, <2>9 DEF SectionInv, CookieInv
  <2>11. MaskFollowsSections'
    BY <2>1, <2>4, <2>9 DEF MaskFollowsSections
  <2>12. QED
    BY <2>7, <2>8, <2>10, <2>11 DEF SectionInv
<1>20. CASE IrqReturn
  <2>1. /\ todo[thread] # <<>> /\ Head(todo[thread]) = "rfi" /\ Op = "rfi"
        /\ todo' = [todo EXCEPT ![thread] = Tail(todo[thread])]
        /\ cpsr' = cpsr \ {"I"} /\ ready' = ready
        /\ thread' = "main" /\ cookies' = cookies
    BY <1>20 DEF IrqReturn, Op, Done, Goto, Restored
  <2>2. todo \in [Threads -> Seq(Ops)] /\ cookies \in [Threads -> Seq(SUBSET {"I", "F"})]
    BY DEF SectionInv, SectionTypes
  <2>3. PICK m \in Nat : /\ Step(thread, "rfi", Len(cookies[thread]), m)
                         /\ Path(thread, Tail(todo[thread]), m, 0)
    BY <2>1, Advance DEF SectionInv
  <2>4. m = Len(cookies[thread]) /\ m = 0 /\ thread = "irq"
    BY <2>3 DEF Step
  <2>5. Tail(todo[thread]) \in Seq(Ops)
    BY <1>0, <2>1, <2>2, HeadTailProperties
  <2>6. /\ todo'[thread] = Tail(todo[thread])
        /\ \A t \in Threads \ {thread} : todo'[t] = todo[t]
    BY <1>0, <2>1, <2>2
  <2>7. SectionTypes'
    BY <1>0, <2>1, <2>2, <2>5 DEF SectionTypes, Threads
  <2>8. NestInv'
    <3>1. thread = "main" \/ Path("main", todo["main"], Len(cookies["main"]), 0)
      BY DEF SectionInv, NestInv, Starting
    <3>2. /\ Path("irq", todo["irq"], Len(cookies["irq"]), 0)
          /\ Path("exc", todo["exc"], Len(cookies["exc"]), 0)
      BY DEF SectionInv, NestInv
    <3>3. Path(thread, todo'[thread], Len(cookies'[thread]), 0)
      BY <2>1, <2>3, <2>4, <2>6
    <3>4. \A t \in Threads : Path(t, todo'[t], Len(cookies'[t]), 0)
      BY <2>1, <2>6, <3>1, <3>2, <3>3 DEF Threads
    <3>5. QED
      BY <3>4 DEF NestInv, Threads
  <2>9. cookies[thread] = <<>>
    BY <1>0, <2>2, <2>4, EmptySeq
  <2>10. CookieInv'
    BY <2>1, <2>4, <2>9 DEF SectionInv, CookieInv
  <2>11. MaskFollowsSections'
    BY <2>1, <2>4 DEF SectionInv, CookieInv, MaskFollowsSections
  <2>12. QED
    BY <2>7, <2>8, <2>10, <2>11 DEF SectionInv
<1>21. CASE \E error \in BOOLEAN : Interrupt(error)
  <2>1. PICK error \in BOOLEAN : Interrupt(error)
    BY <1>21
  <2>2. /\ thread = "main" /\ "I" \notin cpsr /\ "irq" \in ready
        /\ thread' = "irq" /\ cpsr' = cpsr \cup {"I"} /\ cookies' = cookies /\ ready' = ready
        /\ todo' = [todo EXCEPT !["irq"] = Handler(error)]
    BY <2>1 DEF Interrupt
  <2>3. todo \in [Threads -> Seq(Ops)] /\ cookies \in [Threads -> Seq(SUBSET {"I", "F"})]
    BY DEF SectionInv, SectionTypes
  <2>4. Handler(error) \in Seq(Ops) /\ Path("irq", Handler(error), 0, 0)
    BY Threadwise
  <2>5. /\ todo'["irq"] = Handler(error) /\ todo'["main"] = todo["main"]
        /\ todo'["exc"] = todo["exc"]
    BY <2>2, <2>3 DEF Threads
  <2>6. cookies["main"] = <<>> /\ cookies["irq"] = <<>> /\ cookies["exc"] = <<>> /\ Len(<<>>) = 0
    BY <2>2 DEF SectionInv, CookieInv, MaskFollowsSections
  <2>7. ~Starting
    BY <2>2 DEF Starting
  <2>8. SectionTypes'
    BY <2>2, <2>3, <2>4 DEF SectionTypes, Threads
  <2>9. NestInv'
    BY <2>2, <2>4, <2>5, <2>6, <2>7 DEF SectionInv, NestInv
  <2>10. CookieInv'
    BY <2>2, <2>6 DEF SectionInv, CookieInv
  <2>11. MaskFollowsSections'
    BY <2>2, <2>6 DEF MaskFollowsSections
  <2>12. QED
    BY <2>8, <2>9, <2>10, <2>11 DEF SectionInv
<1>22. CASE Exception
  <2>1. /\ thread # "exc" /\ "exc" \in ready
        /\ thread' = "exc" /\ cpsr' = cpsr \cup {"I"} /\ cookies' = cookies /\ ready' = ready
        /\ todo' = [todo EXCEPT !["exc"] = exc_handler]
    BY <1>22 DEF Exception
  <2>2. todo \in [Threads -> Seq(Ops)] /\ cookies \in [Threads -> Seq(SUBSET {"I", "F"})]
    BY DEF SectionInv, SectionTypes
  <2>3. exc_handler \in Seq(Ops) /\ Path("exc", exc_handler, 0, 0)
    BY Threadwise
  <2>4. /\ todo'["exc"] = exc_handler /\ todo'["main"] = todo["main"]
        /\ todo'["irq"] = todo["irq"]
    BY <2>1, <2>2 DEF Threads
  <2>5. cookies["exc"] = <<>> /\ Len(<<>>) = 0
    BY <2>1 DEF SectionInv, CookieInv
  <2>6. ~Starting
    BY <2>1 DEF Starting
  <2>7. SectionTypes'
    BY <2>1, <2>2, <2>3 DEF SectionTypes, Threads
  <2>8. NestInv'
    BY <2>1, <2>3, <2>4, <2>5, <2>6 DEF SectionInv, NestInv
  <2>9. CookieInv'
    BY <2>1, <2>5 DEF SectionInv, CookieInv
  <2>10. MaskFollowsSections'
    BY <2>1 DEF MaskFollowsSections
  <2>11. QED
    BY <2>7, <2>8, <2>9, <2>10 DEF SectionInv
<1>23. CASE ArmEvict
  <2>1. UNCHANGED armVars /\ arm'.st = "inv"
    BY <1>23 DEF ArmEvict, NoLine
  <2>2. QED
    BY <2>1, OthersStep
<1>24. CASE BufferDrains
  BY <1>24, OthersStep DEF BufferDrains
<1>25. CASE BusDrains
  BY <1>25, OthersStep DEF BusDrains
<1>26. CASE PpcEvict
  BY <1>26, OthersStep DEF PpcEvict
<1>27. CASE PpcStep
  <2>1. UNCHANGED armVars /\ arm' = arm
    BY <1>27 DEF PpcStep, PpcInvalidate, PpcConfig, PpcPoll, PpcTake, PpcZero, PpcFlush,
       PpcShow,
               PpcFrame
  <2>2. QED
    BY <2>1, OthersStep
<1>28. CASE UNCHANGED vars
  <2>1. UNCHANGED armVars /\ arm' = arm
    BY <1>28 DEF vars, memVars
  <2>2. QED
    BY <2>1, OthersStep
<1>29. CASE systemReset
  BY <1>29, Advanced DEF systemReset, KeepCpu
<1>30. QED
  BY <1>1, <1>2, <1>3, <1>4, <1>5, <1>6, <1>7, <1>8, <1>9, <1>10, <1>11, <1>12, <1>13,
     <1>14, <1>15, <1>16, <1>17, <1>18, <1>19, <1>20, <1>21, <1>22, <1>23, <1>24, <1>25,
     <1>26, <1>27, <1>28, <1>29 DEF Next, ArmStep, Hardware

(* What each thread has left closes the sections it is in, and what it put *)
(* aside in irq_kill is what irq_restore must give back.                   *)
THEOREM SectionInvariant == Spec => []SectionInv
<1>1. Init => SectionInv
  BY SectionInit
<1>2. SectionInv /\ [Next]_vars => SectionInv'
  BY SectionStep
<1>3. QED
  BY <1>1, <1>2, PTL DEF Spec

(* MaskFollowsSections: interrupts are open exactly outside the sections   *)
(* of the main thread, between irq_initialize and irq_shutdown; no section *)
(* inside another, no handler and no exception opens them early or leaves  *)
(* them closed.                                                            *)
THEOREM MaskIsRight == Spec => []MaskFollowsSections
<1>1. SectionInv => MaskFollowsSections
  BY DEF SectionInv
<1>2. QED
  BY <1>1, SectionInvariant, PTL
-----------------------------------------------------------------------------
(* The line and its copies.                                                *)
Bytes == [chr : Int, cfg : Int]
Copies == [st : {"inv", "clean", "dirty"}, chr : Int, cfg : Int]

(* Its types.                                                              *)
LineTypes ==
    /\ mem \in Bytes /\ wbuf \in Bytes /\ abuf \in Bytes /\ rbuf \in Bytes
    /\ arm \in Copies /\ ppc \in Copies
    /\ received \in Int /\ sent \in Seq(Nat) /\ printed \in Seq(Nat)

(* The last character shown.                                               *)
Last == IF printed = <<>> THEN 0 ELSE printed[Len(printed)]

(* On its way from the ARM's cache through the write buffer and the bus to *)
(* memory a character is newer than any in front of it.                    *)
Low == {Last, received, mem.chr, ppc.chr}
Flow ==
    /\ Low \subseteq 0 .. Len(sent)
    /\ {abuf.chr, wbuf.chr} \subseteq {Same} \cup 1 .. Len(sent)
    /\ arm.st = "dirty" => arm.chr \in 1 .. Len(sent)
    /\ abuf.chr # Same => \A x \in Low : abuf.chr > x
    /\ wbuf.chr # Same => \A x \in Low \cup {abuf.chr} : wbuf.chr > x
    /\ arm.st = "dirty" => \A x \in Low \cup {abuf.chr, wbuf.chr} : arm.chr > x

(* What the PowerPC can still read was not shown before, and it writes     *)
(* nothing but the zero.                                                   *)
Fresh ==
    /\ mem.chr = 0 \/ mem.chr > Last
    /\ ppc.chr = 0 \/ ppc.chr > Last
    /\ ppcPc \in {"zero", "flush", "show"} => received = 0 \/ received > Last
    /\ ppc.st = "inv" => ppc.chr = 0
    /\ ppc.st = "dirty" => ppcPc = "flush" /\ ppc.chr = 0
    /\ ppcPc \in {"flush", "show"} =>
           ppc.st = "dirty" \/ (ppc.st = "inv" /\ (mem.chr = 0 \/ mem.chr > received))
    /\ ppcPc = "show" => ppc.st = "inv"

(* The inductive invariant of the line.                                    *)
OrderInv == LineTypes /\ Flow /\ Fresh /\ InOrder

(* A write over a line, ...                                                *)
LEMMA Overlay ==
    ASSUME NEW w \in Bytes, NEW l \in Bytes
    PROVE  /\ Over(w, l) \in Bytes
           /\ Over(w, l).chr = IF w.chr = Same THEN l.chr ELSE w.chr
BY DEF Bytes, Over

(* ... a copy of one, ...                                                  *)
LEMMA CopyFields ==
    ASSUME NEW l \in Bytes, NEW c \in Copies, NEW st \in {"inv", "clean", "dirty"}
    PROVE  /\ Cached(l, st) \in Copies /\ Cached(l, st).chr = l.chr /\ Cached(l, st).st = st
           /\ Line(c) \in Bytes /\ Line(c).chr = c.chr
           /\ NoLine \in Copies /\ NoLine.st = "inv" /\ NoLine.chr = 0
           /\ Nothing \in Bytes /\ Nothing.chr = Same
BY DEF Bytes, Copies, Cached, Line, NoLine, Nothing, Same

(* ... and what the ARM loads are lines.                                   *)
LEMMA FetchType == LineTypes => Fetch \in Bytes
BY Overlay DEF LineTypes, Fetch

(* The empty line is in order.                                             *)
LEMMA OrderInit == Init => OrderInv
<1> SUFFICES ASSUME Init PROVE OrderInv
  OBVIOUS
<1>1. /\ mem \in Bytes /\ mem.chr = 0 /\ Nothing \in Bytes /\ Nothing.chr = Same
      /\ NoLine \in Copies /\ NoLine.st = "inv" /\ NoLine.chr = 0
  BY DEF Init, Bytes, Copies, Nothing, NoLine, Same
<1>2. sent = <<>> /\ printed = <<>> /\ received = 0 /\ ppcPc = "config"
  BY DEF Init
<1>3. wbuf = Nothing /\ abuf = Nothing /\ rbuf = Nothing /\ arm = NoLine /\ ppc = NoLine
  BY DEF Init
<1>4. LineTypes
  BY <1>1, <1>2, <1>3 DEF LineTypes
<1>5. Last = 0 /\ Len(sent) = 0 /\ Len(printed) = 0
  BY <1>2 DEF Last
<1>6. Flow /\ Fresh
  BY <1>1, <1>2, <1>3, <1>5 DEF Flow, Fresh, Low
<1>7. InOrder
  BY <1>5 DEF InOrder
<1>8. QED
  BY <1>4, <1>6, <1>7 DEF OrderInv

(* The ARM's cached line may be dropped or loaded afresh.                  *)
LEMMA CacheStep ==
    ASSUME OrderInv, UNCHANGED <<mem, wbuf, abuf, ppcVars, sent>>, rbuf' \in Bytes,
           arm' = arm \/ (arm' \in Copies /\ arm'.st # "dirty")
    PROVE  OrderInv'
<1>1. UNCHANGED <<ppc, ppcPc, received, printed>>
  BY DEF ppcVars
<1>2. Last' = Last /\ Low' = Low
  BY <1>1 DEF Last, Low
<1>3. LineTypes'
  BY <1>1 DEF OrderInv, LineTypes
<1>4. Flow'
  BY <1>2 DEF OrderInv, Flow
<1>5. Fresh'
  BY <1>1, <1>2 DEF OrderInv, Fresh
<1>6. InOrder'
  BY <1>1 DEF OrderInv, InOrder
<1>7. QED
  BY <1>3, <1>4, <1>5, <1>6 DEF OrderInv

(* The line's dirty character goes into the write buffer.                  *)
LEMMA WriteBack ==
    ASSUME OrderInv, UNCHANGED <<mem, abuf, rbuf, ppcVars, sent>>,
           wbuf' = IF arm.st = "dirty" THEN Line(arm) ELSE wbuf,
           arm' \in Copies, arm'.st # "dirty"
    PROVE  OrderInv'
<1>1. UNCHANGED <<ppc, ppcPc, received, printed>>
  BY DEF ppcVars
<1>2. Last' = Last /\ Low' = Low
  BY <1>1 DEF Last, Low
<1>3. wbuf' \in Bytes /\ wbuf'.chr = IF arm.st = "dirty" THEN arm.chr ELSE wbuf.chr
  BY CopyFields DEF OrderInv, LineTypes
<1>4. LineTypes'
  BY <1>1, <1>3 DEF OrderInv, LineTypes
<1>5. Flow'
  BY <1>2, <1>3 DEF OrderInv, Flow
<1>6. Fresh'
  BY <1>1, <1>2 DEF OrderInv, Fresh
<1>7. InOrder'
  BY <1>1 DEF OrderInv, InOrder
<1>8. QED
  BY <1>4, <1>5, <1>6, <1>7 DEF OrderInv

(* The write buffer goes on the bus.                                       *)
LEMMA OntoBus ==
    ASSUME OrderInv, UNCHANGED <<mem, arm, rbuf, ppcVars, sent>>,
           abuf' = Over(wbuf, abuf), wbuf' = Nothing
    PROVE  OrderInv'
<1>1. UNCHANGED <<ppc, ppcPc, received, printed>>
  BY DEF ppcVars
<1>2. Last' = Last /\ Low' = Low
  BY <1>1 DEF Last, Low
<1>3. /\ abuf' \in Bytes /\ abuf'.chr = IF wbuf.chr = Same THEN abuf.chr ELSE wbuf.chr
      /\ wbuf' \in Bytes /\ wbuf'.chr = Same
  BY Overlay, CopyFields DEF OrderInv, LineTypes
<1>4. LineTypes'
  BY <1>1, <1>3 DEF OrderInv, LineTypes
<1>5. Flow'
  <2>1. arm.chr \in Int
    BY DEF OrderInv, LineTypes, Copies
  <2>2. QED
    BY <1>2, <1>3, <2>1 DEF OrderInv, Flow, Same
<1>6. Fresh'
  BY <1>1, <1>2 DEF OrderInv, Fresh
<1>7. InOrder'
  BY <1>1 DEF OrderInv, InOrder
<1>8. QED
  BY <1>4, <1>5, <1>6, <1>7 DEF OrderInv

(* The bus writes to memory.                                               *)
LEMMA IntoMemory == ASSUME OrderInv, BusDrains PROVE OrderInv'
<1>1. /\ UNCHANGED <<ppc, ppcPc, received, printed, arm, wbuf, sent>>
      /\ mem' = Over(abuf, mem) /\ abuf' = Nothing
      /\ rbuf' = IF rbuf = Nothing THEN Nothing ELSE Over(abuf, rbuf)
  BY DEF BusDrains, ppcVars, armVars
<1>2. Last' = Last
  BY <1>1 DEF Last
<1>3. /\ mem' \in Bytes /\ mem'.chr = IF abuf.chr = Same THEN mem.chr ELSE abuf.chr
      /\ abuf' \in Bytes /\ abuf'.chr = Same /\ rbuf' \in Bytes
  BY <1>1, Overlay, CopyFields DEF OrderInv, LineTypes
<1>4. LineTypes'
  BY <1>1, <1>3 DEF OrderInv, LineTypes
<1>5. Flow'
  <2>1. Low' = {Last, received, mem'.chr, ppc.chr}
    BY <1>1, <1>2 DEF Low
  <2>2. arm.chr \in Int /\ wbuf.chr \in Int /\ abuf.chr \in Int
    BY DEF OrderInv, LineTypes, Copies, Bytes
  <2>3. CASE abuf.chr = Same
    <3>1. Low' = Low
      BY <1>3, <2>1, <2>3 DEF Low
    <3>2. QED
      BY <1>1, <1>3, <2>3, <3>1 DEF OrderInv, Flow
  <2>4. CASE abuf.chr # Same
    <3>1. mem'.chr = abuf.chr
      BY <1>3, <2>4
    <3>2. Last \in Low /\ received \in Low /\ ppc.chr \in Low
      BY DEF Low
    <3>3. abuf.chr \in 1 .. Len(sent) /\ Len(sent) \in Nat
      BY <2>4 DEF OrderInv, LineTypes, Flow
    <3>4. Low' \subseteq Low \cup {abuf.chr}
      BY <2>1, <3>1, <3>2
    <3>5. Low' \subseteq 0 .. Len(sent)
      BY <3>3, <3>4 DEF OrderInv, Flow
    <3>6. wbuf.chr # Same => \A x \in Low' : wbuf.chr > x
      BY <3>4 DEF OrderInv, Flow
    <3>7. arm.st = "dirty" => \A x \in Low' : arm.chr > x
      BY <3>4 DEF OrderInv, Flow
    <3>8. /\ wbuf.chr \in {Same} \cup 1 .. Len(sent)
          /\ arm.st = "dirty" => arm.chr \in 1 .. Len(sent) /\ arm.chr > wbuf.chr
      BY DEF OrderInv, Flow
    <3>9. wbuf.chr # Same => wbuf.chr > Same
      BY <3>8 DEF Same
    <3>10. arm.st = "dirty" => arm.chr > Same
      BY <3>3, <3>8 DEF Same
    <3>11. QED
      BY <1>1, <1>3, <3>5, <3>6, <3>7, <3>8, <3>9, <3>10 DEF Flow
  <2>5. QED
    BY <2>3, <2>4
<1>6. Fresh'
  BY <1>1, <1>2, <1>3 DEF OrderInv, Fresh, Flow, Low
<1>7. InOrder'
  BY <1>1 DEF OrderInv, InOrder
<1>8. QED
  BY <1>4, <1>5, <1>6, <1>7 DEF OrderInv

(* A character that is written is newer than all of them.                  *)
LEMMA PutStep == ASSUME OrderInv, PutChar PROVE OrderInv'
<1> DEFINE N == Len(sent)
           w == [chr |-> N + 1, cfg |-> Same]
<1>1. /\ UNCHANGED <<ppc, ppcPc, received, printed, mem, abuf, rbuf>>
      /\ sent' = Append(sent, N + 1)
      /\ Store(w)
  BY DEF PutChar, Frame, ppcVars
<1>2. Last' = Last /\ Low' = Low
  BY <1>1 DEF Last, Low
<1>3. N \in Nat /\ sent' \in Seq(Nat) /\ Len(sent') = N + 1
  BY <1>1, AppendProperties DEF OrderInv, LineTypes
<1>4. w \in Bytes /\ w.chr = N + 1 /\ w.chr # Same
  BY <1>3 DEF Bytes, Same
<1> HIDE DEF w, N
<1>5. /\ wbuf' \in Bytes /\ arm' \in Copies
      /\ \/ wbuf'.chr = N + 1 /\ arm.st = "inv" /\ arm' = arm
         \/ wbuf' = wbuf /\ arm'.st = "dirty" /\ arm'.chr = N + 1
  <2>1. CASE arm.st = "inv"
    BY <1>1, <1>4, <2>1, Overlay DEF OrderInv, LineTypes, Store
  <2>2. CASE arm.st # "inv"
    <3>1. arm' = Cached(Over(w, Line(arm)), "dirty") /\ wbuf' = wbuf
      BY <1>1, <2>2 DEF Store
    <3>2. Line(arm) \in Bytes
      BY CopyFields DEF OrderInv, LineTypes
    <3>3. Over(w, Line(arm)) \in Bytes /\ Over(w, Line(arm)).chr = N + 1
      BY <1>4, <3>2, Overlay
    <3>4. arm' \in Copies /\ arm'.st = "dirty" /\ arm'.chr = N + 1
      BY <3>1, <3>3, CopyFields DEF OrderInv, LineTypes
    <3>5. QED
      BY <3>1, <3>4 DEF OrderInv, LineTypes
  <2>3. QED
    BY <2>1, <2>2
<1>6. LineTypes'
  BY <1>1, <1>3, <1>5 DEF OrderInv, LineTypes
<1>7. Flow'
  <2>1. Low \subseteq 0 .. N /\ {abuf.chr, wbuf.chr} \subseteq {Same} \cup 1 .. N
    BY DEF OrderInv, Flow, N
  <2>2. (arm.st = "dirty" => arm.chr \in 1 .. N) /\ Len(sent') = N + 1
    BY <1>3 DEF OrderInv, Flow, N
  <2>3. /\ \A x \in Low : x \in Int /\ x < N + 1
        /\ abuf.chr < N + 1 /\ wbuf.chr < N + 1
    BY <1>3, <2>1 DEF Same
  <2>4. CASE wbuf'.chr = N + 1 /\ arm.st = "inv" /\ arm' = arm
    BY <1>1, <1>2, <1>3, <2>1, <2>2, <2>3, <2>4 DEF OrderInv, Flow
  <2>5. CASE wbuf' = wbuf /\ arm'.st = "dirty" /\ arm'.chr = N + 1
    BY <1>1, <1>2, <1>3, <2>1, <2>2, <2>3, <2>5 DEF OrderInv, Flow
  <2>6. QED
    BY <1>5, <2>4, <2>5
<1>8. Fresh'
  BY <1>1, <1>2 DEF OrderInv, Fresh
<1>9. InOrder'
  BY <1>1, <1>3 DEF OrderInv, InOrder, LineTypes, N
<1>10. QED
  BY <1>6, <1>7, <1>8, <1>9 DEF OrderInv

(* nswitch reads the line: memory's character, or the copy it has.         *)
LEMMA PpcLoads ==
    ASSUME OrderInv, PpcLoad, UNCHANGED <<mem, arm, wbuf, abuf, rbuf, sent, printed>>,
           ppcPc \notin {"flush", "show"}, ppcPc' \notin {"flush", "show"},
           received' = received \/ (ppcPc = "take" /\ received' = PpcLine.chr),
           ppcPc' = "zero" => received' = PpcLine.chr
    PROVE  OrderInv'
<1>1. ppc' \in Copies /\ ppc'.st \in {"clean"} /\ ppc'.chr = PpcLine.chr
      /\ PpcLine.chr \in {mem.chr, ppc.chr} /\ PpcLine.chr \in Int
  <2>1. CASE ppc.st = "inv"
    BY <2>1, CopyFields DEF OrderInv, LineTypes, PpcLoad, PpcLine, Bytes
  <2>2. CASE ppc.st # "inv"
    <3>1. ppc.st = "clean"
      BY <2>2 DEF OrderInv, LineTypes, Copies, Fresh
    <3>2. ppc \in Copies /\ mem \in Bytes
      BY Zenon DEF OrderInv, LineTypes
    <3>3. ppc' = ppc /\ PpcLine = Line(ppc)
      BY <2>2, Zenon DEF PpcLoad, PpcLine
    <3>4. PpcLine.chr = ppc.chr /\ ppc.chr \in Int
      BY <3>2, <3>3 DEF Line, Copies
    <3>5. QED
      BY <3>1, <3>2, <3>3, <3>4, Zenon
  <2>3. QED
    BY <2>1, <2>2
<1>2. Last' = Last
  BY DEF Last
<1>3. Low' \subseteq Low
  BY <1>1, <1>2 DEF Low
<1>4. LineTypes'
  BY <1>1 DEF OrderInv, LineTypes
<1>5. Flow'
  BY <1>3 DEF OrderInv, Flow
<1>6. Fresh'
  <2>1. PpcLine.chr = 0 \/ PpcLine.chr > Last
    BY <1>1 DEF OrderInv, Fresh
  <2>2. QED
    BY <1>1, <1>2, <2>1 DEF OrderInv, Fresh
<1>7. InOrder'
  BY DEF OrderInv, InOrder
<1>8. QED
  BY <1>4, <1>5, <1>6, <1>7 DEF OrderInv

(* Its line is dropped, and written back when it is dirty.                 *)
LEMMA PpcDrops ==
    ASSUME OrderInv, ppc' = NoLine, UNCHANGED <<arm, wbuf, abuf, rbuf, sent, printed, received>>,
           mem' = IF ppc.st = "dirty" THEN Line(ppc) ELSE mem,
           \/ ppcPc' = ppcPc
           \/ ppcPc = "flush" /\ ppcPc' = "show"
           \/ ppcPc' \notin {"zero", "flush", "show"}
    PROVE  OrderInv'
<1>1. NoLine \in Copies /\ NoLine.st = "inv" /\ NoLine.chr = 0
  BY CopyFields DEF OrderInv, LineTypes
<1>2. mem' \in Bytes /\ mem'.chr = IF ppc.st = "dirty" THEN 0 ELSE mem.chr
  <2>1. mem \in Bytes /\ ppc \in Copies /\ (ppc.st = "dirty" => ppc.chr = 0)
    BY DEF OrderInv, LineTypes, Fresh
  <2>2. QED
    BY <2>1, CopyFields
<1>3. Last' = Last
  BY DEF Last
<1>4. Low' \subseteq Low \cup {0}
  BY <1>1, <1>2, <1>3 DEF Low
<1>5. LineTypes'
  BY <1>1, <1>2 DEF OrderInv, LineTypes
<1>6. Flow'
  <2>1. Len(sent) \in Nat /\ 0 \in 0 .. Len(sent)
    BY DEF OrderInv, LineTypes
  <2>2. Low' \subseteq 0 .. Len(sent)
    BY <1>4, <2>1 DEF OrderInv, Flow
  <2>3. abuf.chr # Same => \A x \in Low' : abuf.chr > x
    BY <1>4, <2>1 DEF OrderInv, Flow
  <2>4. wbuf.chr # Same => \A x \in Low' \cup {abuf.chr} : wbuf.chr > x
    BY <1>4, <2>1 DEF OrderInv, Flow
  <2>5. arm.st = "dirty" => \A x \in Low' \cup {abuf.chr, wbuf.chr} : arm.chr > x
    BY <1>4, <2>1 DEF OrderInv, Flow
  <2>6. QED
    BY <2>2, <2>3, <2>4, <2>5 DEF OrderInv, Flow
<1>7. Fresh'
  <2>1. CASE ppcPc' = ppcPc
    BY <1>1, <1>2, <1>3, <2>1 DEF OrderInv, Fresh
  <2>2. CASE ppcPc = "flush" /\ ppcPc' = "show"
    BY <1>1, <1>2, <1>3, <2>2 DEF OrderInv, Fresh
  <2>3. CASE ppcPc' \notin {"zero", "flush", "show"}
    BY <1>1, <1>2, <1>3, <2>3 DEF OrderInv, Fresh
  <2>4. QED
    BY <2>1, <2>2, <2>3
<1>8. InOrder'
  BY DEF OrderInv, InOrder
<1>9. QED
  BY <1>5, <1>6, <1>7, <1>8 DEF OrderInv

(* The zero is written into the copy.                                      *)
LEMMA ZeroStep == ASSUME OrderInv, PpcZero PROVE OrderInv'
<1>1. /\ ppcPc = "zero" /\ ppcPc' = "flush" /\ ppc' = Cached([PpcLine EXCEPT !.chr = 0], "dirty")
      /\ UNCHANGED <<mem, arm, wbuf, abuf, rbuf, sent, printed, received>>
  BY DEF PpcZero, PpcFrame, armVars
<1>2. ppc' \in Copies /\ ppc'.st = "dirty" /\ ppc'.chr = 0
  <2>1. PpcLine \in Bytes
    BY CopyFields DEF OrderInv, LineTypes, PpcLine
  <2>2. [PpcLine EXCEPT !.chr = 0] \in Bytes /\ [PpcLine EXCEPT !.chr = 0].chr = 0
    BY <2>1 DEF Bytes
  <2>3. QED
    BY <1>1, <2>2, CopyFields DEF OrderInv, LineTypes
<1>3. Last' = Last
  BY <1>1 DEF Last
<1>4. Low' \subseteq Low \cup {0}
  BY <1>1, <1>2, <1>3 DEF Low
<1>5. LineTypes'
  BY <1>1, <1>2 DEF OrderInv, LineTypes
<1>6. Flow'
  <2>1. Len(sent) \in Nat /\ 0 \in 0 .. Len(sent)
    BY DEF OrderInv, LineTypes
  <2>2. Low' \subseteq 0 .. Len(sent)
    BY <1>4, <2>1 DEF OrderInv, Flow
  <2>3. abuf.chr # Same => \A x \in Low' : abuf.chr > x
    BY <1>4, <2>1 DEF OrderInv, Flow
  <2>4. wbuf.chr # Same => \A x \in Low' \cup {abuf.chr} : wbuf.chr > x
    BY <1>4, <2>1 DEF OrderInv, Flow
  <2>5. arm.st = "dirty" => \A x \in Low' \cup {abuf.chr, wbuf.chr} : arm.chr > x
    BY <1>4, <2>1 DEF OrderInv, Flow
  <2>6. QED
    BY <1>1, <2>2, <2>3, <2>4, <2>5 DEF OrderInv, Flow
<1>7. Fresh'
  BY <1>1, <1>2, <1>3 DEF OrderInv, Fresh
<1>8. InOrder'
  BY <1>1 DEF OrderInv, InOrder
<1>9. QED
  BY <1>5, <1>6, <1>7, <1>8 DEF OrderInv

(* What is shown is newer than what was shown before.                      *)
LEMMA ShowStep == ASSUME OrderInv, PpcShow PROVE OrderInv'
<1>1. /\ ppcPc = "show" /\ ppcPc' = "poll"
      /\ printed' = IF received = 0 THEN printed ELSE Append(printed, received)
      /\ UNCHANGED <<mem, arm, wbuf, abuf, rbuf, sent, ppc, received>>
  BY DEF PpcShow, PpcFrame, armVars
<1>2. /\ received = 0 \/ received > Last
      /\ received \in 0 .. Len(sent) /\ Last \in 0 .. Len(sent) /\ Len(sent) \in Nat
  BY <1>1 DEF OrderInv, LineTypes, Fresh, Flow, Low
<1>3. CASE received = 0
  <2>1. printed' = printed /\ Last' = Last /\ Low' = Low
    BY <1>1, <1>3 DEF Last, Low
  <2>2. LineTypes'
    BY <1>1, <2>1 DEF OrderInv, LineTypes
  <2>3. Flow'
    BY <1>1, <2>1 DEF OrderInv, Flow
  <2>4. Fresh'
    BY <1>1, <2>1 DEF OrderInv, Fresh
  <2>5. InOrder'
    BY <1>1, <2>1 DEF OrderInv, InOrder
  <2>6. QED
    BY <2>2, <2>3, <2>4, <2>5 DEF OrderInv
<1>4. CASE received # 0
  <2> DEFINE n == Len(printed)
  <2>1. n \in Nat /\ received \in Nat /\ received > 0
    BY <1>2, <1>4 DEF OrderInv, LineTypes
  <2>2. /\ printed' \in Seq(Nat) /\ Len(printed') = n + 1 /\ printed'[n + 1] = received
        /\ \A k \in 1 .. n : printed'[k] = printed[k]
    BY <1>1, <1>4, <2>1, AppendProperties DEF OrderInv, LineTypes
  <2>3. Last' = received
    BY <2>1, <2>2 DEF Last
  <2>4. Low' \subseteq Low
    BY <1>1, <2>3 DEF Low
  <2>5. LineTypes'
    BY <1>1, <2>2 DEF OrderInv, LineTypes
  <2>6. Flow'
    BY <1>1, <2>4 DEF OrderInv, Flow
  <2>7. Fresh'
    BY <1>1, <2>3 DEF OrderInv, Fresh
  <2>8. n > 0 => Last = printed[n]
    BY <2>1 DEF Last
  <2>9. \A k \in 1 .. n + 1 : printed'[k] \in 1 .. Len(sent)
    <3>1. received \in 1 .. Len(sent) /\ \A k \in 1 .. n : printed[k] \in 1 .. Len(sent)
      BY <1>2, <2>1 DEF OrderInv, InOrder
    <3>2. ASSUME NEW k \in 1 .. n + 1 PROVE k \in 1 .. n \/ k = n + 1
      BY <2>1
    <3>3. QED
      BY <2>2, <3>1, <3>2
  <2>10. ASSUME NEW k \in 1 .. n PROVE printed'[k] < printed'[k + 1]
    <3>1. CASE k = n
      <4>1. n > 0 /\ n \in 1 .. n /\ Last = printed[n]
        BY <2>1, <2>8, <3>1
      <4>2. printed'[n] = Last /\ printed'[n + 1] = received
        BY <2>2, <4>1
      <4>3. Last < received
        BY <1>2, <1>4
      <4>4. QED
        BY <3>1, <4>2, <4>3
    <3>2. CASE k # n
      <4>1. k \in 1 .. n - 1 /\ k \in 1 .. n /\ k + 1 \in 1 .. n
        BY <2>1, <3>2
      <4>2. printed'[k] = printed[k] /\ printed'[k + 1] = printed[k + 1]
        BY <2>2, <4>1
      <4>3. printed[k] < printed[k + 1]
        BY <4>1 DEF OrderInv, InOrder
      <4>4. QED
        BY <4>2, <4>3
    <3>3. QED
      BY <3>1, <3>2
  <2>11. InOrder'
    <3>1. Len(printed') = n + 1 /\ (n + 1) - 1 = n /\ sent' = sent
      BY <1>1, <2>1, <2>2
    <3>2. QED
      BY <2>9, <2>10, <3>1 DEF InOrder
  <2>12. QED
    BY <2>5, <2>6, <2>7, <2>11 DEF OrderInv
<1>5. QED
  BY <1>3, <1>4

(* Every step keeps the order.                                             *)
LEMMA OrderStep == SectionInv /\ OrderInv /\ [Next]_vars => OrderInv'
<1> SUFFICES ASSUME SectionInv, OrderInv, [Next]_vars PROVE OrderInv'
  OBVIOUS
<1>0. LineTypes
  BY DEF OrderInv
<1>1. CASE irq_kill
  <2>1. UNCHANGED <<mem, wbuf, abuf, ppcVars, sent, arm, rbuf>>
    BY <1>1 DEF irq_kill, KeepMem, memVars, Frame
  <2>2. QED
    BY <1>0, <2>1, CacheStep DEF LineTypes
<1>2. CASE irq_restore
  <2>1. UNCHANGED <<mem, wbuf, abuf, ppcVars, sent, arm, rbuf>>
    BY <1>2 DEF irq_restore, KeepMem, memVars, Frame
  <2>2. QED
    BY <1>0, <2>1, CacheStep DEF LineTypes
<1>3. CASE FlushTest
  <2>1. UNCHANGED <<mem, wbuf, abuf, ppcVars, sent, arm, rbuf>>
    BY <1>3 DEF FlushTest, KeepMem, memVars, Frame
  <2>2. QED
    BY <1>0, <2>1, CacheStep DEF LineTypes
<1>4. CASE FlushFrom
  <2>1. UNCHANGED <<mem, wbuf, abuf, ppcVars, sent, arm, rbuf>>
    BY <1>4 DEF FlushFrom, KeepMem, memVars, Frame
  <2>2. QED
    BY <1>0, <2>1, CacheStep DEF LineTypes
<1>5. CASE gecko_printf
  <2>1. UNCHANGED <<mem, wbuf, abuf, ppcVars, sent, arm, rbuf>>
    BY <1>5 DEF gecko_printf, KeepMem, memVars, Frame
  <2>2. QED
    BY <1>0, <2>1, CacheStep DEF LineTypes
<1>6. CASE NextChar
  <2>1. UNCHANGED <<mem, wbuf, abuf, ppcVars, sent, arm, rbuf>>
    BY <1>6 DEF NextChar, KeepMem, memVars, Frame
  <2>2. QED
    BY <1>0, <2>1, CacheStep DEF LineTypes
<1>7. CASE exception_initialize
  <2>1. UNCHANGED <<mem, wbuf, abuf, ppcVars, sent, arm, rbuf>>
    BY <1>7 DEF exception_initialize, KeepMem, memVars, Frame
  <2>2. QED
    BY <1>0, <2>1, CacheStep DEF LineTypes
<1>8. CASE irq_initialize
  <2>1. UNCHANGED <<mem, wbuf, abuf, ppcVars, sent, arm, rbuf>>
    BY <1>8 DEF irq_initialize, KeepMem, memVars, Frame
  <2>2. QED
    BY <1>0, <2>1, CacheStep DEF LineTypes
<1>9. CASE irq_shutdown
  <2>1. UNCHANGED <<mem, wbuf, abuf, ppcVars, sent, arm, rbuf>>
    BY <1>9 DEF irq_shutdown, KeepMem, memVars, Frame
  <2>2. QED
    BY <1>0, <2>1, CacheStep DEF LineTypes
<1>10. CASE IrqReturn
  <2>1. UNCHANGED <<mem, wbuf, abuf, ppcVars, sent, arm, rbuf>>
    BY <1>10 DEF IrqReturn, KeepMem, memVars, Frame
  <2>2. QED
    BY <1>0, <2>1, CacheStep DEF LineTypes
<1>11. CASE \E error \in BOOLEAN : Interrupt(error)
  <2>1. UNCHANGED <<mem, wbuf, abuf, ppcVars, sent, arm, rbuf>>
    BY <1>11 DEF Interrupt, KeepMem, memVars
  <2>2. QED
    BY <1>0, <2>1, CacheStep DEF LineTypes
<1>12. CASE Exception
  <2>1. UNCHANGED <<mem, wbuf, abuf, ppcVars, sent, arm, rbuf>>
    BY <1>12 DEF Exception, KeepMem, memVars
  <2>2. QED
    BY <1>0, <2>1, CacheStep DEF LineTypes
<1>13. CASE SetCache
  <2>1. UNCHANGED <<mem, wbuf, abuf, ppcVars, sent, arm, rbuf>>
    BY <1>13 DEF SetCache, Frame
  <2>2. QED
    BY <1>0, <2>1, CacheStep DEF LineTypes
<1>14. CASE UNCHANGED vars
  <2>1. UNCHANGED <<mem, wbuf, abuf, ppcVars, sent, arm, rbuf>>
    BY <1>14 DEF vars, memVars, armVars
  <2>2. QED
    BY <1>0, <2>1, CacheStep DEF LineTypes
<1>15. CASE FlushTo
  <2>1. UNCHANGED <<mem, wbuf, abuf, ppcVars, sent, arm>>
    BY <1>15 DEF FlushTo, Frame
  <2>2. rbuf' = rbuf \/ rbuf' = Nothing
    BY <1>15 DEF FlushTo
  <2>3. rbuf' \in Bytes
    BY <1>0, <2>2, CopyFields DEF LineTypes
  <2>4. QED
    BY <2>1, <2>3, CacheStep
<1>16. CASE Invalidate
  <2>1. UNCHANGED <<mem, wbuf, abuf, ppcVars, sent, rbuf>> /\ arm' = NoLine
    BY <1>16 DEF Invalidate, Frame
  <2>2. arm' \in Copies /\ arm'.st # "dirty" /\ rbuf' \in Bytes
    BY <1>0, <2>1, CopyFields DEF LineTypes
  <2>3. QED
    BY <2>1, <2>2, CacheStep
<1>17. CASE WaitTaken \/ WaitAgain \/ WaitGiveUp
  <2>1. Fill /\ UNCHANGED <<ppcVars, sent>>
    BY <1>17 DEF WaitTaken, WaitAgain, WaitGiveUp, Frame
  <2>2. UNCHANGED <<mem, wbuf, abuf>>
    BY <2>1 DEF Fill
  <2>3. Fetch \in Bytes /\ arm \in Copies
    BY <1>0, FetchType DEF LineTypes
  <2>4. rbuf' = Fetch \/ rbuf' = rbuf
    BY <2>1 DEF Fill
  <2>5. arm' = arm \/ arm' = Cached(Fetch, "clean")
    BY <2>1 DEF Fill
  <2>6. arm' = arm \/ (arm' \in Copies /\ arm'.st # "dirty")
    BY <2>3, <2>5, CopyFields
  <2>7. QED
    BY <1>0, <2>1, <2>2, <2>3, <2>4, <2>6, CacheStep DEF LineTypes
<1>18. CASE Clean
  <2>1. /\ UNCHANGED <<mem, abuf, rbuf, ppcVars, sent>>
        /\ wbuf' = IF arm.st = "dirty" THEN Line(arm) ELSE wbuf
        /\ arm' = [arm EXCEPT !.st = IF @ = "dirty" THEN "clean" ELSE @]
    BY <1>18 DEF Clean, Frame
  <2>2. arm' \in Copies /\ arm'.st # "dirty"
    BY <1>0, <2>1 DEF LineTypes, Copies
  <2>3. QED
    BY <2>1, <2>2, WriteBack
<1>19. CASE ArmEvict
  <2>1. /\ UNCHANGED <<mem, abuf, rbuf, ppcVars, sent>>
        /\ wbuf' = IF arm.st = "dirty" THEN Line(arm) ELSE wbuf
        /\ arm' = NoLine
    BY <1>19 DEF ArmEvict, armVars
  <2>2. arm' \in Copies /\ arm'.st # "dirty"
    BY <1>0, <2>1, CopyFields DEF LineTypes
  <2>3. QED
    BY <2>1, <2>2, WriteBack
<1>20. CASE Drain
  BY <1>20, OntoBus DEF Drain, Frame
<1>21. CASE BufferDrains
  BY <1>21, OntoBus DEF BufferDrains, armVars
<1>22. CASE BusDrains
  BY <1>22, IntoMemory
<1>23. CASE PutChar
  BY <1>23, PutStep
<1>24. CASE gecko_init
  <2>1. /\ todo[thread] # <<>> /\ Head(todo[thread]) = "config"
        /\ UNCHANGED <<mem, abuf, rbuf, ppcVars, sent>>
    BY <1>24 DEF gecko_init, Op, Frame
  <2>2. arm.st = "inv"
    BY <2>1, ConfigFirst DEF SectionInv, Starting
  <2> DEFINE w == [chr |-> Same, cfg |-> 0]
  <2>3. arm' = arm /\ (wbuf' = wbuf \/ wbuf' = Over(w, wbuf))
    BY <1>24, <2>2 DEF gecko_init, Store
  <2>4. w \in Bytes /\ w.chr = Same
    BY DEF Bytes, Same
  <2> HIDE DEF w
  <2>5. wbuf' \in Bytes /\ wbuf'.chr = wbuf.chr
    BY <1>0, <2>3, <2>4, Overlay DEF LineTypes
  <2>6. UNCHANGED <<ppc, ppcPc, received, printed>>
    BY <2>1 DEF ppcVars
  <2>7. Last' = Last /\ Low' = Low
    BY <2>1, <2>6 DEF Last, Low
  <2>8. LineTypes'
    BY <1>0, <2>1, <2>3, <2>5, <2>6 DEF LineTypes
  <2>9. Flow'
    BY <2>1, <2>3, <2>5, <2>7 DEF OrderInv, Flow
  <2>10. Fresh'
    BY <2>1, <2>6, <2>7 DEF OrderInv, Fresh
  <2>11. InOrder'
    BY <2>1, <2>6 DEF OrderInv, InOrder
  <2>12. QED
    BY <2>8, <2>9, <2>10, <2>11 DEF OrderInv
<1>25. CASE PpcInvalidate
  <2>1. /\ ppc' = NoLine /\ UNCHANGED <<arm, wbuf, abuf, rbuf, sent, printed, received, mem>>
        /\ ppcPc \in {"config", "poll"} /\ ppcPc' \in {"config2", "poll2"}
    BY <1>25 DEF PpcInvalidate, PpcFrame, armVars
  <2>2. ppc.st # "dirty"
    BY <2>1 DEF OrderInv, Fresh
  <2>3. mem' = IF ppc.st = "dirty" THEN Line(ppc) ELSE mem
    BY <2>1, <2>2
  <2>4. QED
    BY <2>1, <2>3, PpcDrops
<1>26. CASE PpcConfig
  <2>1. /\ PpcLoad /\ UNCHANGED <<mem, arm, wbuf, abuf, rbuf, sent, printed>>
        /\ ppcPc = "config2" /\ ppcPc' \in {"config", "poll"} /\ received' = received
    BY <1>26 DEF PpcConfig, PpcFrame, armVars
  <2>2. QED
    BY <2>1, PpcLoads
<1>27. CASE PpcPoll
  <2>1. /\ PpcLoad /\ UNCHANGED <<mem, arm, wbuf, abuf, rbuf, sent, printed>>
        /\ ppcPc = "poll2" /\ ppcPc' \in {"poll", "take"} /\ received' = received
    BY <1>27 DEF PpcPoll, PpcFrame, armVars
  <2>2. QED
    BY <2>1, PpcLoads
<1>28. CASE PpcTake
  <2>1. /\ PpcLoad /\ UNCHANGED <<mem, arm, wbuf, abuf, rbuf, sent, printed>>
        /\ ppcPc = "take" /\ ppcPc' = "zero" /\ received' = PpcLine.chr
    BY <1>28 DEF PpcTake, PpcFrame, armVars
  <2>2. QED
    BY <2>1, PpcLoads
<1>29. CASE PpcZero
  BY <1>29, ZeroStep
<1>30. CASE PpcFlush
  BY <1>30, PpcDrops DEF PpcFlush, PpcFrame, armVars
<1>31. CASE PpcShow
  BY <1>31, ShowStep
<1>32. CASE PpcEvict
  BY <1>32, PpcDrops DEF PpcEvict, armVars
<1>33. CASE systemReset
  <2>1. UNCHANGED <<mem, wbuf, abuf, ppcVars, sent, arm, rbuf>>
    BY <1>33 DEF systemReset, KeepMem, memVars, Frame
  <2>2. QED
    BY <1>0, <2>1, CacheStep DEF LineTypes
<1>34. QED
  BY <1>1, <1>2, <1>3, <1>4, <1>5, <1>6, <1>7, <1>8, <1>9, <1>10, <1>11, <1>12, <1>13,
     <1>14, <1>15, <1>16, <1>17, <1>18, <1>19, <1>20, <1>21, <1>22, <1>23, <1>24, <1>25,
     <1>26, <1>27, <1>28, <1>29, <1>30, <1>31, <1>32, <1>33 DEF Next, ArmStep, PpcStep, Hardware

(* The copies of the line are ordered by their age.                        *)
THEOREM OrderInvariant == Spec => []OrderInv
<1>1. Init => OrderInv
  BY OrderInit
<1>2. SectionInv /\ OrderInv /\ [Next]_vars => OrderInv'
  BY OrderStep
<1>3. QED
  BY <1>1, <1>2, SectionInvariant, PTL DEF Spec

(* InOrder: the screen shows characters that were sent, in their order and *)
(* none twice, with a reader that is late or dead, with messages that give *)
(* up, and whatever is interrupted or evicted.                             *)
THEOREM ShownInOrder == Spec => []InOrder
<1>1. OrderInv => InOrder
  BY DEF OrderInv
<1>2. QED
  BY <1>1, OrderInvariant, PTL

-----------------------------------------------------------------------------
(* At most one character on its way.  Three things about what the main     *)
(* thread has left to do carry the argument: a character is put only right *)
(* after the test, and cleaned out of the cache next; ...                  *)
Layout(s) ==
    /\ \A k \in 1 .. Len(s) : s[k] = "put" =>
           /\ k = 1 \/ s[k - 1] = "test"
           /\ k + 2 <= Len(s) /\ s[k + 1] = "kill" /\ s[k + 2] = "clean"
    /\ \A k \in 1 .. Len(s) : \A i \in 1 .. k - 1 :
           s[i] \in {"print", "next", "test"} => s[k] # "test"

(* ... the line is invalidated before it is tested; ...                    *)
Covered(s) == \A k \in 1 .. Len(s) : s[k] = "test" => \E j \in 1 .. k - 1 : s[j] = "inval"

(* ... and the procedures of memory.c do not print.                        *)
Free(s, S) == \A k \in 1 .. Len(s) : s[k] \notin S

(* Sequences without certain operations, one after the other.              *)
LEMMA ConcatFree ==
    ASSUME NEW S, NEW P \in Seq(Ops), NEW Q \in Seq(Ops), Free(P, S), Free(Q, S)
    PROVE  Free(P \o Q, S)
<1>1. /\ Len(P) \in Nat /\ Len(Q) \in Nat /\ Len(P \o Q) = Len(P) + Len(Q)
      /\ \A i \in 1 .. Len(P) + Len(Q) :
             (P \o Q)[i] = IF i <= Len(P) THEN P[i] ELSE Q[i - Len(P)]
  BY ConcatProperties
<1>2. ASSUME NEW k \in 1 .. Len(P \o Q) PROVE (P \o Q)[k] \notin S
  <2>1. CASE k <= Len(P)
    BY <1>1, <2>1 DEF Free
  <2>2. CASE k > Len(P)
    <3>1. k - Len(P) \in 1 .. Len(Q) /\ (P \o Q)[k] = Q[k - Len(P)]
      BY <1>1, <2>2
    <3>2. QED
      BY <3>1 DEF Free
  <2>3. QED
    BY <1>1, <2>1, <2>2
<1>3. QED
  BY <1>2 DEF Free

(* What is left after the first operation.                                 *)
LEMMA LayoutTail ==
    ASSUME NEW s \in Seq(Ops), s # <<>>, Layout(s)
    PROVE  /\ Layout(Tail(s))
           /\ Head(s) \in {"print", "next", "test"} => Free(Tail(s), {"test"})
           /\ Head(s) \in {"print", "next"} => Free(Tail(s), {"test", "put"})
           /\ Tail(s) # <<>> /\ Head(Tail(s)) = "put" => Head(s) = "test"
           /\ Covered(s) /\ Head(s) # "inval" => Covered(Tail(s))
<1> DEFINE t == Tail(s)
           n == Len(s)
<1>1. /\ n \in Nat /\ n >= 1 /\ t \in Seq(Ops) /\ Len(t) = n - 1 /\ Head(s) = s[1]
      /\ \A k \in 1 .. n - 1 : t[k] = s[k + 1]
  BY EmptySeq, HeadTailProperties
<1>2. /\ \A k \in 1 .. n : s[k] = "put" =>
             /\ k = 1 \/ s[k - 1] = "test"
             /\ k + 2 <= n /\ s[k + 1] = "kill" /\ s[k + 2] = "clean"
      /\ \A k \in 1 .. n : \A i \in 1 .. k - 1 :
             s[i] \in {"print", "next", "test"} => s[k] # "test"
  BY DEF Layout
<1>3. Covered(s) <=> \A k \in 1 .. n : s[k] = "test" => \E j \in 1 .. k - 1 : s[j] = "inval"
  BY DEF Covered
<1>4. t # <<>> => Len(t) >= 1 /\ Head(t) = t[1]
  BY <1>1, EmptySeq
<1> HIDE DEF n, t
<1>5. ASSUME NEW k \in 1 .. n - 1, t[k] = "put"
      PROVE  /\ k = 1 \/ t[k - 1] = "test"
             /\ k + 2 <= n - 1 /\ t[k + 1] = "kill" /\ t[k + 2] = "clean"
  <2>1. k + 1 \in 1 .. n /\ s[k + 1] = "put"
    BY <1>1, <1>5
  <2>2. /\ s[(k + 1) - 1] = "test" /\ (k + 1) + 2 <= n
        /\ s[(k + 1) + 1] = "kill" /\ s[(k + 1) + 2] = "clean"
    BY <1>1, <1>2, <2>1
  <2>3. /\ t[k + 1] = s[(k + 1) + 1] /\ t[k + 2] = s[(k + 1) + 2]
        /\ k # 1 => t[k - 1] = s[(k + 1) - 1]
    <3>1. /\ k + 1 \in 1 .. n - 1 /\ k + 2 \in 1 .. n - 1 /\ (k + 2) + 1 = (k + 1) + 2
          /\ k # 1 => k - 1 \in 1 .. n - 1 /\ (k - 1) + 1 = (k + 1) - 1
      BY <1>1, <2>2
    <3>2. QED
      BY <1>1, <3>1
  <2>4. QED
    BY <1>1, <2>2, <2>3
<1>6. ASSUME NEW k \in 1 .. n - 1, NEW i \in 1 .. k - 1, t[i] \in {"print", "next", "test"}
      PROVE  t[k] # "test"
  <2>1. /\ k + 1 \in 1 .. n /\ i + 1 \in 1 .. (k + 1) - 1
        /\ t[k] = s[k + 1] /\ t[i] = s[i + 1]
    BY <1>1
  <2>2. QED
    BY <1>2, <1>6, <2>1
<1>7. Layout(t)
  BY <1>1, <1>5, <1>6 DEF Layout
<1>8. Head(s) \in {"print", "next", "test"} => Free(t, {"test"})
  <2> SUFFICES ASSUME Head(s) \in {"print", "next", "test"}, NEW k \in 1 .. n - 1
               PROVE  t[k] # "test"
    BY <1>1 DEF Free
  <2>1. k + 1 \in 1 .. n /\ 1 \in 1 .. (k + 1) - 1 /\ t[k] = s[k + 1] /\ s[1] = Head(s)
    BY <1>1
  <2>2. QED
    BY <1>2, <2>1
<1>9. Head(s) \in {"print", "next"} => Free(t, {"test", "put"})
  <2> SUFFICES ASSUME Head(s) \in {"print", "next"}, NEW k \in 1 .. n - 1
               PROVE  t[k] # "put"
    BY <1>1, <1>8 DEF Free
  <2> SUFFICES ASSUME t[k] = "put" PROVE FALSE
    OBVIOUS
  <2>1. k = 1 \/ t[k - 1] = "test"
    BY <1>5
  <2>2. CASE k = 1
    <3>1. 2 \in 1 .. n /\ s[2] = "put" /\ 2 - 1 = 1
      BY <1>1, <2>2
    <3>2. s[1] = "test"
      BY <1>2, <3>1
    <3>3. QED
      BY <1>1, <3>2
  <2>3. CASE k # 1
    <3>1. k - 1 \in 1 .. n - 1
      BY <1>1, <2>3
    <3>2. QED
      BY <1>1, <1>8, <2>1, <2>3, <3>1 DEF Free
  <2>4. QED
    BY <2>2, <2>3
<1>10. t # <<>> /\ Head(t) = "put" => Head(s) = "test"
  <2> SUFFICES ASSUME t # <<>>, Head(t) = "put" PROVE Head(s) = "test"
    OBVIOUS
  <2>1. 2 \in 1 .. n /\ s[2] = "put" /\ 2 - 1 = 1
    BY <1>1, <1>4
  <2>2. QED
    BY <1>1, <1>2, <2>1
<1>11. ASSUME Covered(s), Head(s) # "inval" PROVE Covered(t)
  <2> SUFFICES ASSUME NEW k \in 1 .. n - 1, t[k] = "test"
               PROVE  \E j \in 1 .. k - 1 : t[j] = "inval"
    BY <1>1 DEF Covered
  <2>1. k + 1 \in 1 .. n /\ s[k + 1] = "test"
    BY <1>1
  <2>2. PICK j \in 1 .. (k + 1) - 1 : s[j] = "inval"
    BY <1>3, <1>11, <2>1
  <2>3. j # 1
    BY <1>1, <1>11, <2>2
  <2>4. j - 1 \in 1 .. k - 1 /\ t[j - 1] = s[j]
    BY <1>1, <2>2, <2>3
  <2>5. QED
    BY <2>2, <2>4
<1>12. QED
  BY <1>7, <1>8, <1>9, <1>10, <1>11 DEF t

(* A procedure that neither tests nor puts, and then the rest.             *)
LEMMA LayoutPlain ==
    ASSUME NEW P \in Seq(Ops), NEW s \in Seq(Ops), Layout(s), s = <<>> \/ Head(s) # "put",
           Free(P, {"test", "put", "print", "next"})
    PROVE  Layout(P \o s)
<1> DEFINE m == Len(P)
           n == Len(s)
           u == P \o s
<1>1. /\ m \in Nat /\ n \in Nat /\ Len(u) = m + n
      /\ \A i \in 1 .. m + n : u[i] = IF i <= m THEN P[i] ELSE s[i - m]
  BY ConcatProperties
<1>2. /\ \A k \in 1 .. n : s[k] = "put" =>
             /\ k = 1 \/ s[k - 1] = "test"
             /\ k + 2 <= n /\ s[k + 1] = "kill" /\ s[k + 2] = "clean"
      /\ \A k \in 1 .. n : \A i \in 1 .. k - 1 :
             s[i] \in {"print", "next", "test"} => s[k] # "test"
  BY DEF Layout
<1>3. \A k \in 1 .. m : P[k] \notin {"test", "put", "print", "next"}
  BY DEF Free
<1>4. n >= 1 => s[1] # "put"
  BY EmptySeq
<1> HIDE DEF m, n, u
<1>5. \A k \in 1 .. n : u[m + k] = s[k]
  BY <1>1
<1>6. \A k \in 1 .. m : u[k] = P[k]
  BY <1>1
<1>7. ASSUME NEW k \in 1 .. m + n, k > m PROVE k - m \in 1 .. n /\ u[k] = s[k - m]
  BY <1>1, <1>7
<1>8. ASSUME NEW k \in 1 .. m + n, u[k] = "put"
      PROVE  /\ k = 1 \/ u[k - 1] = "test"
             /\ k + 2 <= m + n /\ u[k + 1] = "kill" /\ u[k + 2] = "clean"
  <2>1. k > m
    BY <1>1, <1>3, <1>6, <1>8
  <2>2. PICK j \in 1 .. n : k = m + j /\ s[j] = "put"
    BY <1>1, <1>7, <1>8, <2>1
  <2>3. j # 1
    BY <1>1, <1>4, <2>2
  <2>4. s[j - 1] = "test" /\ j + 2 <= n /\ s[j + 1] = "kill" /\ s[j + 2] = "clean"
    BY <1>2, <2>2, <2>3
  <2>5. /\ j - 1 \in 1 .. n /\ j + 1 \in 1 .. n /\ j + 2 \in 1 .. n
        /\ k - 1 = m + (j - 1) /\ k + 1 = m + (j + 1) /\ k + 2 = m + (j + 2)
    BY <1>1, <2>2, <2>3, <2>4
  <2>6. u[k - 1] = s[j - 1] /\ u[k + 1] = s[j + 1] /\ u[k + 2] = s[j + 2]
    BY <1>5, <2>5
  <2>7. k + 2 <= m + n
    BY <1>1, <2>4, <2>5
  <2>8. QED
    BY <2>4, <2>6, <2>7
<1>9. ASSUME NEW k \in 1 .. m + n, NEW i \in 1 .. k - 1, u[i] \in {"print", "next", "test"}
      PROVE  u[k] # "test"
  <2>1. i \in 1 .. m + n /\ i > m
    BY <1>1, <1>3, <1>6, <1>9
  <2>2. i - m \in 1 .. n /\ u[i] = s[i - m]
    BY <1>7, <2>1
  <2>3. k > m
    BY <1>1, <2>1
  <2>4. k - m \in 1 .. n /\ u[k] = s[k - m]
    BY <1>7, <2>3
  <2>5. i - m \in 1 .. (k - m) - 1
    BY <1>1, <2>2, <2>4
  <2>6. QED
    BY <1>2, <1>9, <2>2, <2>4, <2>5
<1>10. QED
  BY <1>1, <1>8, <1>9 DEF Layout, u

(* The test, the character, and a flush.                                   *)
LEMMA LayoutPut ==
    ASSUME NEW s \in Seq(Ops), Free(s, {"test", "put"}), Len(s) >= 2,
           s[1] = "kill", s[2] = "clean"
    PROVE  Layout(<<"test", "put">> \o s)
<1> DEFINE P == <<"test", "put">>
           n == Len(s)
           u == P \o s
<1>1. P \in Seq(Ops) /\ Len(P) = 2 /\ P[1] = "test" /\ P[2] = "put"
  BY Tuples
<1> HIDE DEF P
<1>2. /\ n \in Nat /\ n >= 2 /\ Len(u) = 2 + n
      /\ \A i \in 1 .. 2 + n : u[i] = IF i <= 2 THEN P[i] ELSE s[i - 2]
  <2>0. P \in Seq(Ops) /\ Len(s) \in Nat
    BY <1>1
  <2>1. /\ Len(P \o s) = Len(P) + Len(s)
        /\ \A i \in 1 .. Len(P) + Len(s) :
               (P \o s)[i] = IF i <= Len(P) THEN P[i] ELSE s[i - Len(P)]
    BY <2>0, ConcatProperties, Zenon
  <2>2. QED
    BY <1>1, <2>0, <2>1
<1>3. \A k \in 1 .. n : s[k] \notin {"test", "put"}
  BY DEF Free
<1> HIDE DEF n, u
<1>4. u[1] = "test" /\ u[2] = "put" /\ u[3] = "kill" /\ u[4] = "clean"
  BY <1>1, <1>2
<1>5. ASSUME NEW k \in 3 .. 2 + n PROVE u[k] \notin {"test", "put"}
  <2>1. k - 2 \in 1 .. n /\ u[k] = s[k - 2]
    BY <1>2
  <2>2. QED
    BY <1>3, <2>1
<1>6. ASSUME NEW k \in 1 .. 2 + n, u[k] = "put" PROVE k = 2
  <2>1. k \in 3 .. 2 + n \/ k = 1 \/ k = 2
    BY <1>2
  <2>2. QED
    BY <1>4, <1>5, <1>6, <2>1
<1>7. ASSUME NEW k \in 1 .. 2 + n, u[k] = "put"
      PROVE  /\ k = 1 \/ u[k - 1] = "test"
             /\ k + 2 <= 2 + n /\ u[k + 1] = "kill" /\ u[k + 2] = "clean"
  BY <1>2, <1>4, <1>6, <1>7
<1>8. ASSUME NEW k \in 1 .. 2 + n, NEW i \in 1 .. k - 1 PROVE u[k] # "test"
  <2>1. k \in 3 .. 2 + n \/ k = 2
    BY <1>2
  <2>2. QED
    BY <1>4, <1>5, <2>1
<1>9. QED
  BY <1>2, <1>7, <1>8 DEF Layout, u, P

(* A sequence with neither is laid out as it should be.                    *)
LEMMA LayoutFree ==
    ASSUME NEW s \in Seq(Ops), Free(s, {"test", "put"})
    PROVE  Layout(s) /\ Covered(s)
BY DEF Free, Layout, Covered

(* The first two operations of a sequence, and of it with others behind.   *)
LEMMA FirstTwo ==
    ASSUME NEW P \in Seq(Ops), NEW s \in Seq(Ops), Len(P) >= 2
    PROVE  /\ P \o s \in Seq(Ops) /\ Len(P \o s) >= 2
           /\ (P \o s)[1] = P[1] /\ (P \o s)[2] = P[2]
<1>1. Len(P) \in Nat /\ Len(s) \in Nat
  OBVIOUS
<1>2. QED
  BY <1>1, ConcatProperties

(* The invalidation is before every test of the rest.                      *)
LEMMA CoveredCall ==
    ASSUME NEW P \in Seq(Ops), NEW s \in Seq(Ops), Len(P) >= 2, P[2] = "inval", Free(P, {"test"})
    PROVE  Covered(P \o s)
<1> DEFINE u == P \o s
<1>1. Len(P) \in Nat /\ u[2] = "inval"
  BY FirstTwo
<1>2. \A k \in 1 .. Len(P) : u[k] = P[k] /\ P[k] # "test"
  <2>1. /\ Len(P) \in Nat /\ Len(s) \in Nat
        /\ \A i \in 1 .. Len(P) + Len(s) : u[i] = IF i <= Len(P) THEN P[i] ELSE s[i - Len(P)]
    BY ConcatProperties
  <2>2. QED
    BY <2>1 DEF Free
<1> HIDE DEF u
<1>3. ASSUME NEW k \in 1 .. Len(u), u[k] = "test" PROVE \E j \in 1 .. k - 1 : u[j] = "inval"
  <2>1. k > Len(P)
    BY <1>1, <1>2, <1>3
  <2>2. 2 \in 1 .. k - 1
    BY <1>1, <2>1
  <2>3. QED
    BY <1>1, <2>2
<1>4. QED
  BY <1>3 DEF Covered, u

(* The flush that follows a character starts with its clean, the           *)
(* invalidation with its inval.                                            *)
LEMMA Flushes ==
    /\ dc_invalidaterange \in Seq(Ops) /\ dc_flushrange \in Seq(Ops)
    /\ Free(dc_invalidaterange, {"test", "put", "print", "next"})
    /\ Len(dc_invalidaterange) >= 2 /\ dc_invalidaterange[2] = "inval"
    /\ dc_invalidaterange[1] = "kill"
    /\ Free(dc_flushrange, {"test", "put", "print", "next"})
    /\ Len(dc_flushrange) >= 2 /\ dc_flushrange[1] = "kill" /\ dc_flushrange[2] = "clean"
<1> DEFINE S == {"test", "put", "print", "next"}
           I == <<"kill", "inval">>
           C == <<"kill", "clean", "drain">>
           R == <<"restore">>
<1>1. I \in Seq(Ops) /\ C \in Seq(Ops) /\ R \in Seq(Ops)
  BY Tuples
<1>2. ahb_flush_to \in Seq(Ops) /\ ahb_flush_from \in Seq(Ops)
  BY Tuples
<1>3. Free(I, S) /\ Free(C, S) /\ Free(R, S)
  BY DEF Free
<1>4. Free(ahb_flush_to, S) /\ Free(ahb_flush_from, S)
  BY DEF Free, ahb_flush_to, ahb_flush_from
<1>5. Len(I) >= 2 /\ I[1] = "kill" /\ I[2] = "inval"
  OBVIOUS
<1>6. Len(C) >= 2 /\ C[1] = "kill" /\ C[2] = "clean"
  OBVIOUS
<1>7. /\ dc_invalidaterange = (I \o ahb_flush_to) \o R
      /\ dc_flushrange = (C \o ahb_flush_from) \o R
  BY DEF dc_invalidaterange, dc_flushrange
<1> HIDE DEF S, I, C, R
<1>8. /\ I \o ahb_flush_to \in Seq(Ops) /\ Len(I \o ahb_flush_to) >= 2
      /\ (I \o ahb_flush_to)[1] = "kill" /\ (I \o ahb_flush_to)[2] = "inval"
  BY <1>1, <1>2, <1>5, FirstTwo, Zenon
<1>9. /\ C \o ahb_flush_from \in Seq(Ops) /\ Len(C \o ahb_flush_from) >= 2
      /\ (C \o ahb_flush_from)[1] = "kill" /\ (C \o ahb_flush_from)[2] = "clean"
  BY <1>1, <1>2, <1>6, FirstTwo, Zenon
<1>10. Free(I \o ahb_flush_to, S) /\ Free(C \o ahb_flush_from, S)
  BY <1>1, <1>2, <1>3, <1>4, ConcatFree
<1>11. Free(dc_invalidaterange, S) /\ Free(dc_flushrange, S)
  BY <1>1, <1>3, <1>7, <1>8, <1>9, <1>10, ConcatFree
<1>12. /\ dc_invalidaterange \in Seq(Ops) /\ Len(dc_invalidaterange) >= 2
       /\ dc_invalidaterange[1] = "kill" /\ dc_invalidaterange[2] = "inval"
  BY <1>1, <1>7, <1>8, FirstTwo
<1>13. /\ dc_flushrange \in Seq(Ops) /\ Len(dc_flushrange) >= 2
       /\ dc_flushrange[1] = "kill" /\ dc_flushrange[2] = "clean"
  BY <1>1, <1>7, <1>9, FirstTwo
<1>14. QED
  BY <1>11, <1>12, <1>13 DEF S

(* A sequence that starts with an operation does it first.                 *)
LEMMA Starts ==
    ASSUME NEW s \in Seq(Ops), Len(s) >= 2
    PROVE  s # <<>> /\ Head(s) = s[1]
BY EmptySeq

(* Sequences after one another, ...                                        *)
After(a, b) == a \o b

(* ... grouped from either end: three, ...                                 *)
LEMMA Regroup3 ==
    ASSUME NEW a \in Seq(Ops), NEW b \in Seq(Ops), NEW c \in Seq(Ops)
    PROVE  After(After(a, b), c) = After(a, After(b, c))
BY ConcatAssociative DEF After

(* ... and five.                                                           *)
LEMMA Regroup ==
    ASSUME NEW I \in Seq(Ops), NEW P \in Seq(Ops), NEW F \in Seq(Ops), NEW X \in Seq(Ops),
           NEW Q \in Seq(Ops)
    PROVE  After(After(After(After(I, P), F), X), Q)
               = After(I, After(P, After(F, After(X, Q))))
<1>1. \A a, b \in Seq(Ops) : After(a, b) \in Seq(Ops)
  BY ConcatProperties DEF After
<1>2. /\ After(I, P) \in Seq(Ops) /\ After(After(I, P), F) \in Seq(Ops)
      /\ After(X, Q) \in Seq(Ops) /\ After(F, After(X, Q)) \in Seq(Ops)
  BY <1>1
<1>3. After(After(After(After(I, P), F), X), Q) = After(After(After(I, P), F), After(X, Q))
  BY <1>2, Regroup3
<1>4. After(After(After(I, P), F), After(X, Q)) = After(After(I, P), After(F, After(X, Q)))
  BY <1>2, Regroup3
<1>5. After(After(I, P), After(F, After(X, Q))) = After(I, After(P, After(F, After(X, Q))))
  BY <1>2, Regroup3
<1>6. QED
  BY <1>3, <1>4, <1>5

(* gecko_printf's loop body, called by one that does not test again.       *)
LEMMA LayoutPrint ==
    ASSUME NEW Q \in Seq(Ops), Free(Q, {"test", "put"})
    PROVE  /\ PrintChar \o Q \in Seq(Ops)
           /\ Layout(PrintChar \o Q) /\ Covered(PrintChar \o Q)
           /\ PrintChar \o Q # <<>> /\ Head(PrintChar \o Q) = "kill"
<1> DEFINE X == <<"next">>
           P == <<"test", "put">>
           I == dc_invalidaterange
           F == dc_flushrange
           S == {"test", "put"}
<1>1. X \in Seq(Ops) /\ P \in Seq(Ops)
  BY Tuples
<1>2. Free(X, S)
  BY DEF Free
<1>3. PrintChar = ((I \o P) \o F) \o X
  BY DEF PrintChar
<1>4. /\ I \in Seq(Ops) /\ F \in Seq(Ops) /\ Len(I) >= 2 /\ I[1] = "kill" /\ I[2] = "inval"
      /\ Len(F) >= 2 /\ F[1] = "kill" /\ F[2] = "clean"
      /\ Free(I, {"test", "put", "print", "next"}) /\ Free(F, S) /\ Free(I, {"test"})
  BY Flushes DEF Free
<1>5. Free(Q, S)
  OBVIOUS
<1> DEFINE x == X \o Q
           f == F \o x
           p == P \o f
           i == I \o p
<1>6. \A s \in Seq(Ops) : Free(s, S) /\ Len(s) >= 2 /\ s[1] = "kill" /\ s[2] = "clean"
                              => Layout(P \o s)
  BY LayoutPut
<1> HIDE DEF X, P, I, F, S
<1>7. x \in Seq(Ops) /\ Free(x, S)
  BY <1>1, <1>2, <1>5, ConcatProperties, ConcatFree
<1> HIDE DEF x
<1>8. f \in Seq(Ops) /\ Free(f, S) /\ Len(f) >= 2 /\ f[1] = "kill" /\ f[2] = "clean"
  BY <1>4, <1>7, FirstTwo, ConcatFree
<1> HIDE DEF f
<1>9. p \in Seq(Ops) /\ Layout(p)
  BY <1>1, <1>6, <1>8, ConcatProperties
<1>10. p # <<>> /\ Head(p) = "test"
  <2>1. Len(P) >= 2 /\ P[1] = "test"
    BY DEF P
  <2>2. p \in Seq(Ops) /\ Len(p) >= 2 /\ p[1] = "test"
    BY <1>1, <1>8, <2>1, FirstTwo, Zenon
  <2>3. QED
    BY <2>2, Starts
<1> HIDE DEF p
<1>11. i \in Seq(Ops) /\ Len(i) >= 2 /\ i[1] = "kill"
  BY <1>4, <1>9, FirstTwo
<1>12. Layout(i) /\ Covered(i)
  BY <1>4, <1>9, <1>10, LayoutPlain, CoveredCall
<1>13. PrintChar \o Q = i
  <2>1. I \in Seq(Ops) /\ P \in Seq(Ops) /\ F \in Seq(Ops) /\ X \in Seq(Ops)
    BY <1>1, <1>4
  <2>2. After(After(After(After(I, P), F), X), Q)
            = After(I, After(P, After(F, After(X, Q))))
    BY <2>1, Regroup
  <2>3. QED
    BY <1>3, <2>2, Zenon DEF x, f, p, After
<1> HIDE DEF i
<1>14. i # <<>> /\ Head(i) = "kill"
  BY <1>11, Starts
<1>15. QED
  BY <1>11, <1>12, <1>13, <1>14

(* _main itself neither tests nor puts.                                    *)
LEMMA LayoutMain ==
    AfterConfig \in Seq(Ops) /\ Free(AfterConfig, {"test", "put"})
    /\ Main \in Seq(Ops) /\ Free(Main, {"test", "put"})
<1> DEFINE S == {"test", "put"}
           a == <<"excinit">>
           b == <<"irqinit", "print", "irqdown", "print">>
           r == <<"reset">>
           c == <<"config">>
<1>1. /\ a \in Seq(Ops) /\ b \in Seq(Ops) /\ r \in Seq(Ops) /\ c \in Seq(Ops)
      /\ mem_initialize \in Seq(Ops) /\ mem_shutdown \in Seq(Ops)
  BY Tuples
<1>2. Free(a, S) /\ Free(b, S) /\ Free(r, S) /\ Free(c, S)
  BY DEF Free
<1>3. Free(mem_initialize, S) /\ Free(mem_shutdown, S)
  BY DEF Free, mem_initialize, mem_shutdown
<1>4. AfterConfig = (((a \o mem_initialize) \o b) \o mem_shutdown) \o r /\ Main = c \o AfterConfig
  BY DEF AfterConfig, Main
<1> HIDE DEF S, a, b, r, c
<1>5. a \o mem_initialize \in Seq(Ops) /\ Free(a \o mem_initialize, S)
  BY <1>1, <1>2, <1>3, ConcatFree, ConcatProperties
<1>6. (a \o mem_initialize) \o b \in Seq(Ops) /\ Free((a \o mem_initialize) \o b, S)
  BY <1>1, <1>2, <1>5, ConcatFree, ConcatProperties
<1>7. /\ ((a \o mem_initialize) \o b) \o mem_shutdown \in Seq(Ops)
      /\ Free(((a \o mem_initialize) \o b) \o mem_shutdown, S)
  BY <1>1, <1>3, <1>6, ConcatFree, ConcatProperties
<1>8. AfterConfig \in Seq(Ops) /\ Free(AfterConfig, S)
  BY <1>1, <1>2, <1>4, <1>7, ConcatFree, ConcatProperties
<1>9. Main \in Seq(Ops) /\ Free(Main, S)
  BY <1>1, <1>2, <1>4, <1>8, ConcatFree, ConcatProperties
<1>10. QED
  BY <1>8, <1>9 DEF S

-----------------------------------------------------------------------------
(* No character is on its way and memory's has been taken.                 *)
Quiet == arm.st # "dirty" /\ wbuf.chr = Same /\ abuf.chr = Same /\ mem.chr = 0

(* The main thread, undisturbed: it puts a character when all is quiet, it *)
(* tests a line it does not have in its cache, and a dirty line is cleaned *)
(* before it is invalidated.                                               *)
MainInv ==
    /\ thread = "main"
    /\ Layout(todo["main"])
    /\ Covered(todo["main"]) \/ arm.st = "inv"
    /\ Op = "put" => Quiet
    /\ arm.st = "dirty" =>
           \/ Op = "clean"
           \/ Op = "kill" /\ Len(todo["main"]) >= 2 /\ todo["main"][2] = "clean"

(* What the bus has read ahead is not older than memory: without this the  *)
(* main thread could see the zero in front of a character in memory.       *)
Ahead ==
    /\ rbuf # Nothing => rbuf.chr \in Nat
    /\ rbuf # Nothing /\ rbuf.chr = 0 => mem.chr = 0

(* How many characters nswitch has taken; they are the first ones.         *)
Taking == ppcPc \in {"zero", "flush", "show"}
Gone == Len(printed) + (IF Taking THEN 1 ELSE 0)
Gapless ==
    /\ \A i \in 1 .. Len(printed) : printed[i] = i
    /\ Taking => received = Len(printed) + 1

(* The last character is in exactly one place until it is taken, and in    *)
(* memory until its zero is.                                               *)
Place ==
    /\ Gone = Len(sent) \/ Gone = Len(sent) - 1
    /\ Gone = Len(sent) - 1 =>
           arm.st = "dirty" \/ wbuf.chr # Same \/ abuf.chr # Same \/ mem.chr # 0
    /\ arm.st = "dirty" => /\ Gone = Len(sent) - 1 /\ arm.chr = Len(sent)
                           /\ mem.chr = 0 /\ wbuf.chr = Same /\ abuf.chr = Same
    /\ wbuf.chr # Same => /\ Gone = Len(sent) - 1 /\ wbuf.chr = Len(sent)
                          /\ mem.chr = 0 /\ abuf.chr = Same
    /\ abuf.chr # Same => Gone = Len(sent) - 1 /\ abuf.chr = Len(sent) /\ mem.chr = 0
    /\ mem.chr # 0 => /\ mem.chr = Len(sent)
                      /\ Gone = Len(sent) =>
                             ppcPc = "zero" \/ (ppcPc = "flush" /\ ppc.st = "dirty")

(* What nswitch has in its cache when it takes a character.                *)
Grip ==
    /\ ppcPc = "take" => /\ Gone = Len(sent) - 1 /\ mem.chr # 0
                         /\ ppc.st = "inv" \/ ppc.chr = mem.chr
    /\ ppcPc = "zero" => Gone = Len(sent) /\ mem.chr # 0
    /\ ppc.st = "dirty" => Gone = Len(sent) /\ mem.chr # 0
    /\ ppcPc \in {"config2", "poll2"} => ppc.st = "inv"

(* The inductive invariant.                                                *)
OneInv == Gapless /\ Place /\ Grip
PromptInv ==
    /\ giveups \in Nat /\ traps \in Nat /\ Ahead
    /\ giveups = 0 /\ traps = 0 => MainInv /\ OneInv

(* What a load that misses returns, and what a zero of it says.            *)
LEMMA FetchChr ==
    ASSUME OrderInv, Ahead
    PROVE  /\ Fetch \in Bytes /\ Fetch.chr \in Nat
           /\ Fetch.chr = 0 => wbuf.chr = Same /\ abuf.chr = Same /\ mem.chr = 0
<1>1. mem \in Bytes /\ wbuf \in Bytes /\ abuf \in Bytes /\ rbuf \in Bytes
  BY DEF OrderInv, LineTypes
<1>2. /\ mem.chr \in Nat /\ wbuf.chr \in {Same} \cup (Nat \ {0})
      /\ abuf.chr \in {Same} \cup (Nat \ {0})
  BY DEF OrderInv, LineTypes, Flow, Low
<1> DEFINE b == IF rbuf # Nothing THEN rbuf ELSE mem
<1>3. b \in Bytes /\ b.chr \in Nat /\ (b.chr = 0 => mem.chr = 0)
  BY <1>1, <1>2 DEF Ahead
<1>4. Fetch = Over(wbuf, Over(abuf, b))
  BY DEF Fetch
<1> HIDE DEF b
<1>5. Over(abuf, b) \in Bytes /\ Over(abuf, b).chr = IF abuf.chr = Same THEN b.chr ELSE abuf.chr
  BY <1>1, <1>3, Overlay
<1>6. /\ Fetch \in Bytes
      /\ Fetch.chr = IF wbuf.chr = Same THEN Over(abuf, b).chr ELSE wbuf.chr
  BY <1>1, <1>4, <1>5, Overlay
<1>7. QED
  BY <1>2, <1>3, <1>5, <1>6

(* What was read ahead stays as new as memory.                             *)
LEMMA AheadKept ==
    ASSUME OrderInv, Ahead, [Next]_vars
    PROVE  Ahead'
<1>1. mem \in Bytes /\ abuf \in Bytes /\ rbuf \in Bytes /\ ppc \in Copies /\ mem.chr \in Nat
  BY DEF OrderInv, LineTypes, Flow, Low
<1>2. CASE UNCHANGED <<mem, rbuf>>
  BY <1>2 DEF Ahead
<1>3. CASE FlushTo
  BY <1>3 DEF FlushTo, Ahead
<1>4. CASE WaitTaken \/ WaitAgain \/ WaitGiveUp
  <2>1. mem' = mem /\ (rbuf' = rbuf \/ rbuf' = Fetch)
    BY <1>4 DEF WaitTaken, WaitAgain, WaitGiveUp, Fill
  <2>2. QED
    BY <2>1, FetchChr DEF Ahead
<1>5. CASE BusDrains
  <2>1. /\ mem' = Over(abuf, mem)
        /\ rbuf' = IF rbuf = Nothing THEN Nothing ELSE Over(abuf, rbuf)
    BY <1>5 DEF BusDrains
  <2>2. /\ Over(abuf, mem).chr = IF abuf.chr = Same THEN mem.chr ELSE abuf.chr
        /\ Over(abuf, rbuf).chr = IF abuf.chr = Same THEN rbuf.chr ELSE abuf.chr
    BY <1>1, Overlay
  <2>3. abuf.chr \in {Same} \cup Nat
    BY DEF OrderInv, LineTypes, Flow
  <2>4. QED
    BY <2>1, <2>2, <2>3 DEF Ahead
<1>6. CASE PpcFlush \/ PpcEvict
  <2>1. rbuf' = rbuf /\ mem' = IF ppc.st = "dirty" THEN Line(ppc) ELSE mem
    BY <1>6 DEF PpcFlush, PpcEvict, PpcFrame
  <2>2. ppc.st = "dirty" => Line(ppc).chr = 0
    BY <1>1, CopyFields DEF OrderInv, Fresh
  <2>3. QED
    BY <2>1, <2>2 DEF Ahead
<1>7. CASE PpcStep /\ ~PpcFlush
  <2>1. UNCHANGED <<mem, rbuf>>
    BY <1>7 DEF PpcStep, PpcInvalidate, PpcConfig, PpcPoll, PpcTake, PpcZero, PpcShow, PpcFrame
  <2>2. QED
    BY <1>2, <2>1
<1>8. CASE irq_kill \/ irq_restore \/ FlushTest \/ FlushFrom \/ gecko_printf \/ NextChar
           \/ exception_initialize \/ irq_initialize \/ irq_shutdown \/ IrqReturn \/ Exception
           \/ systemReset
           \/ \E error \in BOOLEAN : Interrupt(error)
  <2>1. UNCHANGED <<mem, rbuf>>
    BY <1>8 DEF irq_kill, irq_restore, FlushTest, FlushFrom, gecko_printf, NextChar,
                exception_initialize, irq_initialize, irq_shutdown, IrqReturn, Exception,
                systemReset, Interrupt, KeepMem, memVars
  <2>2. QED
    BY <1>2, <2>1
<1>9. CASE Drain \/ Invalidate \/ Clean \/ SetCache \/ gecko_init \/ PutChar \/ ArmEvict
           \/ BufferDrains
  <2>1. UNCHANGED <<mem, rbuf>>
    BY <1>9 DEF Drain, Invalidate, Clean, SetCache, gecko_init, PutChar, ArmEvict, BufferDrains
  <2>2. QED
    BY <1>2, <2>1
<1>10. CASE UNCHANGED vars
  BY <1>2, <1>10 DEF vars, memVars
<1>11. QED
  BY <1>3, <1>4, <1>5, <1>6, <1>7, <1>8, <1>9, <1>10
     DEF Next, ArmStep, PpcStep, Hardware

(* A line that is tested is not in the cache.                              *)
LEMMA TestMisses ==
    ASSUME SectionTypes, MainInv, Op = "test"
    PROVE  arm.st = "inv"
<1> DEFINE s == todo["main"]
<1>1. s \in Seq(Ops) /\ s # <<>> /\ Head(s) = "test" /\ (Covered(s) \/ arm.st = "inv")
  BY DEF SectionTypes, Threads, MainInv, Op
<1> HIDE DEF s
<1>2. Len(s) \in Nat /\ Len(s) >= 1 /\ s[1] = "test"
  BY <1>1, EmptySeq
<1>3. ~Covered(s)
  BY <1>2 DEF Covered
<1>4. QED
  BY <1>1, <1>3

(* The first operation and the others, by their places.                    *)
LEMMA TailFacts ==
    ASSUME NEW s \in Seq(Ops), s # <<>>
    PROVE  /\ Tail(s) \in Seq(Ops) /\ Len(s) \in Nat /\ Len(s) >= 1
           /\ Len(Tail(s)) = Len(s) - 1 /\ Head(s) = s[1]
           /\ \A i \in 1 .. Len(s) - 1 : Tail(s)[i] = s[i + 1]
           /\ Len(s) >= 2 => Tail(s) # <<>> /\ Head(Tail(s)) = s[2]
<1>1. /\ Tail(s) \in Seq(Ops) /\ Len(s) \in Nat /\ Len(s) >= 1
      /\ Len(Tail(s)) = Len(s) - 1 /\ Head(s) = s[1]
      /\ \A i \in 1 .. Len(s) - 1 : Tail(s)[i] = s[i + 1]
  BY EmptySeq, HeadTailProperties
<1> DEFINE t == Tail(s)
<1>2. t \in Seq(Ops) /\ Len(t) = Len(s) - 1 /\ \A i \in 1 .. Len(s) - 1 : t[i] = s[i + 1]
  BY <1>1
<1> HIDE DEF t
<1>3. ASSUME Len(s) >= 2 PROVE t # <<>> /\ Head(t) = s[2]
  <2>1. Len(t) >= 1 /\ t[1] = s[1 + 1]
    BY <1>1, <1>2, <1>3
  <2>2. QED
    BY <1>2, <2>1, EmptySeq
<1>4. QED
  BY <1>1, <1>3 DEF t

(* The main thread goes on with its next operation.                        *)
LEMMA MainGoesOn ==
    ASSUME SectionTypes, MainInv, todo["main"] # <<>>, thread' = "main",
           todo' = [todo EXCEPT !["main"] = Tail(todo["main"])],
           (arm.st = "dirty")' => (arm.st = "dirty" /\ Op # "clean") \/ Op = "put",
           arm.st = "inv" => (arm.st = "inv")' \/ Op = "test",
           Op = "inval" => (arm.st = "inv")',
           Op = "test" => Quiet'
    PROVE  MainInv'
<1> DEFINE s == todo["main"]
           t == Tail(s)
<1>1. /\ s \in Seq(Ops) /\ s # <<>> /\ Layout(s) /\ Op = Head(s)
      /\ Covered(s) \/ arm.st = "inv"
      /\ arm.st = "dirty" => Op = "clean" \/ (Op = "kill" /\ Len(s) >= 2 /\ s[2] = "clean")
  BY DEF SectionTypes, Threads, MainInv, Op
<1>2. (todo["main"])' = t
  BY DEF SectionTypes, Threads
<1>3. /\ t \in Seq(Ops) /\ Len(s) \in Nat /\ Len(s) >= 1 /\ Len(t) = Len(s) - 1
      /\ \A i \in 1 .. Len(s) - 1 : t[i] = s[i + 1]
      /\ Head(s) = s[1] /\ (Len(s) >= 2 => t # <<>> /\ Head(t) = s[2])
  <2> HIDE DEF s
  <2> QED
    BY <1>1, TailFacts
<1>4. /\ Layout(t) /\ (Head(s) = "test" => Free(t, {"test"}))
      /\ t # <<>> /\ Head(t) = "put" => Head(s) = "test"
      /\ Covered(s) /\ Head(s) # "inval" => Covered(t)
  <2> HIDE DEF s
  <2> QED
    BY <1>1, LayoutTail
<1> HIDE DEF s, t
<1>5. Op' = IF t = <<>> THEN "none" ELSE Head(t)
  BY <1>2 DEF Op
<1>6. (Covered(todo["main"]) \/ arm.st = "inv")'
  <2>1. CASE Op = "inval"
    BY <2>1
  <2>2. CASE Op = "test"
    <3>1. Covered(t)
      BY <1>1, <1>4, <2>2 DEF Free, Covered
    <3>2. QED
      BY <1>2, <3>1
  <2>3. CASE Op # "inval" /\ Op # "test"
    BY <1>1, <1>2, <1>4, <2>3
  <2>4. QED
    BY <2>1, <2>2, <2>3
<1>7. (Op = "put" => Quiet)'
  <2>1. Op' = "put" => Op = "test"
    BY <1>1, <1>4, <1>5
  <2>2. QED
    BY <2>1
<1>8. (arm.st = "dirty")' =>
          \/ Op' = "clean"
          \/ Op' = "kill" /\ Len(t) >= 2 /\ t[2] = "clean"
  <2>1. CASE arm.st = "dirty" /\ Op # "clean"
    <3>1. Len(s) >= 2 /\ s[2] = "clean"
      BY <1>1, <2>1
    <3>2. QED
      BY <1>3, <1>5, <3>1
  <2>2. CASE Op = "put"
    <3>1. s[1] = "put" /\ 1 \in 1 .. Len(s)
      BY <1>1, <1>3, <2>2
    <3>2. 1 + 2 <= Len(s) /\ s[1 + 1] = "kill" /\ s[1 + 2] = "clean"
      BY <1>1, <3>1 DEF Layout
    <3>3. Len(t) >= 2 /\ t # <<>> /\ Head(t) = "kill" /\ t[2] = "clean"
      BY <1>3, <3>2
    <3>4. QED
      BY <1>3, <1>5, <3>3
  <2>3. QED
    BY <2>1, <2>2
<1>9. QED
  BY <1>2, <1>4, <1>6, <1>7, <1>8 DEF MainInv

(* It calls a procedure.                                                   *)
LEMMA MainCalls ==
    ASSUME SectionTypes, MainInv, NEW u \in Seq(Ops), thread' = "main",
           todo' = [todo EXCEPT !["main"] = u], (arm.st # "dirty")',
           Layout(u), Covered(u), u # <<>>, Head(u) = "kill"
    PROVE  MainInv'
<1>1. (todo["main"])' = u
  BY DEF SectionTypes, Threads
<1>2. Op' = "kill"
  BY <1>1 DEF Op
<1>3. QED
  BY <1>1, <1>2 DEF MainInv

(* The hardware or nswitch makes a step.                                   *)
LEMMA MainWaits ==
    ASSUME MainInv, UNCHANGED armVars, arm' = arm \/ (arm.st = "inv")', Quiet => Quiet'
    PROVE  MainInv'
<1>1. UNCHANGED <<thread, todo>> /\ Op' = Op
  BY DEF armVars, Op
<1>2. QED
  BY <1>1 DEF MainInv

(* Numbers of characters.                                                  *)
LEMMA Counts == OrderInv => Len(sent) \in Nat /\ Len(printed) \in Nat /\ Gone \in Nat
BY DEF OrderInv, LineTypes, Gone

(* nswitch makes no step and no character moves: caches and masks.         *)
LEMMA OneKept ==
    ASSUME OneInv, UNCHANGED <<mem, ppcVars, sent>>, wbuf'.chr = wbuf.chr, abuf'.chr = abuf.chr,
           arm' = arm \/ (arm.st # "dirty" /\ arm'.st # "dirty")
    PROVE  OneInv'
<1>1. UNCHANGED <<ppc, ppcPc, received, printed>>
  BY DEF ppcVars
<1>2. Gone' = Gone /\ Taking' = Taking
  BY <1>1 DEF Gone, Taking
<1>3. Gapless'
  BY <1>1, <1>2 DEF OneInv, Gapless
<1>4. Place'
  BY <1>1, <1>2 DEF OneInv, Place
<1>5. Grip'
  BY <1>1, <1>2 DEF OneInv, Grip
<1>6. QED
  BY <1>3, <1>4, <1>5 DEF OneInv

(* The dirty character goes into the write buffer, ...                     *)
LEMMA OneWriteBack ==
    ASSUME OrderInv, OneInv, UNCHANGED <<mem, abuf, ppcVars, sent>>,
           wbuf' = IF arm.st = "dirty" THEN Line(arm) ELSE wbuf, arm'.st # "dirty"
    PROVE  OneInv'
<1>1. UNCHANGED <<ppc, ppcPc, received, printed>>
  BY DEF ppcVars
<1>2. Gone' = Gone /\ Taking' = Taking
  BY <1>1 DEF Gone, Taking
<1>3. wbuf'.chr = IF arm.st = "dirty" THEN arm.chr ELSE wbuf.chr
  BY CopyFields DEF OrderInv, LineTypes
<1>4. Len(sent) \in Nat /\ Len(sent) # Same
  BY Counts DEF Same
<1>5. Gapless'
  BY <1>1, <1>2 DEF OneInv, Gapless
<1>6. Place'
  BY <1>1, <1>2, <1>3, <1>4 DEF OneInv, Place
<1>7. Grip'
  BY <1>1, <1>2 DEF OneInv, Grip
<1>8. QED
  BY <1>5, <1>6, <1>7 DEF OneInv

(* ... from it on the bus, ...                                             *)
LEMMA OneOnBus ==
    ASSUME OrderInv, OneInv, UNCHANGED <<mem, arm, ppcVars, sent>>,
           abuf' = Over(wbuf, abuf), wbuf' = Nothing
    PROVE  OneInv'
<1>1. UNCHANGED <<ppc, ppcPc, received, printed>>
  BY DEF ppcVars
<1>2. Gone' = Gone /\ Taking' = Taking
  BY <1>1 DEF Gone, Taking
<1>3. abuf'.chr = (IF wbuf.chr = Same THEN abuf.chr ELSE wbuf.chr) /\ wbuf'.chr = Same
  BY Overlay, CopyFields DEF OrderInv, LineTypes
<1>4. Gapless'
  BY <1>1, <1>2 DEF OneInv, Gapless
<1>5. Place'
  BY <1>1, <1>2, <1>3 DEF OneInv, Place
<1>6. Grip'
  BY <1>1, <1>2 DEF OneInv, Grip
<1>7. QED
  BY <1>4, <1>5, <1>6 DEF OneInv

(* ... and from there into memory.                                         *)
LEMMA OneIntoMemory ==
    ASSUME OrderInv, OneInv, BusDrains
    PROVE  OneInv'
<1>1. /\ UNCHANGED <<ppc, ppcPc, received, printed, arm, wbuf, sent>>
      /\ mem' = Over(abuf, mem) /\ abuf' = Nothing
  BY DEF BusDrains, ppcVars, armVars
<1>2. Gone' = Gone /\ Taking' = Taking
  BY <1>1 DEF Gone, Taking
<1>3. mem'.chr = (IF abuf.chr = Same THEN mem.chr ELSE abuf.chr) /\ abuf'.chr = Same
  BY <1>1, Overlay, CopyFields DEF OrderInv, LineTypes
<1>4. Len(sent) \in Nat /\ Gone \in Nat
  BY Counts
<1>5. Gapless'
  BY <1>1, <1>2 DEF OneInv, Gapless
<1>6. CASE abuf.chr = Same
  <2>1. mem'.chr = mem.chr
    BY <1>3, <1>6
  <2>2. Place'
    BY <1>1, <1>2, <1>3, <1>6, <2>1 DEF OneInv, Place
  <2>3. Grip'
    BY <1>1, <1>2, <2>1 DEF OneInv, Grip
  <2>4. QED
    BY <1>5, <2>2, <2>3 DEF OneInv
<1>7. CASE abuf.chr # Same
  <2>1. /\ mem'.chr = Len(sent) /\ Gone = Len(sent) - 1 /\ mem.chr = 0
        /\ arm.st # "dirty" /\ wbuf.chr = Same /\ Len(sent) # 0
    BY <1>3, <1>4, <1>7 DEF OneInv, Place
  <2>2. Place'
    BY <1>1, <1>2, <1>3, <1>4, <2>1 DEF Place
  <2>3. Grip'
    BY <1>1, <1>2, <1>4, <2>1 DEF OneInv, Grip
  <2>4. QED
    BY <1>5, <2>2, <2>3 DEF OneInv
<1>8. QED
  BY <1>6, <1>7

(* A character is put when the one before it has been taken.               *)
LEMMA OnePut ==
    ASSUME OrderInv, OneInv, Quiet, PutChar
    PROVE  OneInv'
<1> DEFINE w == [chr |-> Len(sent) + 1, cfg |-> Same]
<1>1. /\ UNCHANGED <<ppc, ppcPc, received, printed, mem, abuf>>
      /\ sent' = Append(sent, Len(sent) + 1) /\ Store(w)
  BY DEF PutChar, Frame, ppcVars
<1>2. Gone' = Gone /\ Taking' = Taking
  BY <1>1 DEF Gone, Taking
<1>3. Len(sent) \in Nat /\ Len(sent') = Len(sent) + 1 /\ Gone \in Nat
  BY <1>1, Counts, AppendProperties DEF OrderInv, LineTypes
<1>4. w \in Bytes /\ w.chr = Len(sent) + 1 /\ w.chr # Same
  BY <1>3 DEF Bytes, Same
<1> HIDE DEF w
<1>5. \/ wbuf'.chr = Len(sent) + 1 /\ arm' = arm
      \/ wbuf' = wbuf /\ arm'.st = "dirty" /\ arm'.chr = Len(sent) + 1
  <2>1. CASE arm.st = "inv"
    BY <1>1, <1>4, <2>1, Overlay DEF OrderInv, LineTypes, Store
  <2>2. CASE arm.st # "inv"
    <3>1. arm' = Cached(Over(w, Line(arm)), "dirty") /\ wbuf' = wbuf
      BY <1>1, <2>2 DEF Store
    <3>2. Line(arm) \in Bytes
      BY CopyFields DEF OrderInv, LineTypes
    <3>3. Over(w, Line(arm)) \in Bytes /\ Over(w, Line(arm)).chr = Len(sent) + 1
      BY <1>4, <3>2, Overlay
    <3>4. arm'.st = "dirty" /\ arm'.chr = Len(sent) + 1
      BY <3>1, <3>3, CopyFields DEF OrderInv, LineTypes
    <3>5. QED
      BY <3>1, <3>4
  <2>3. QED
    BY <2>1, <2>2
<1>6. Gone = Len(sent)
  BY DEF OneInv, Place, Quiet
<1>7. Gapless'
  BY <1>1, <1>2 DEF OneInv, Gapless
<1>8. Place'
  <2>1. Len(sent) + 1 # Same
    BY <1>4
  <2>2. mem'.chr = 0 /\ abuf'.chr = Same /\ Gone' = Len(sent') - 1
    BY <1>1, <1>2, <1>3, <1>6 DEF Quiet
  <2>3. CASE wbuf'.chr = Len(sent) + 1 /\ arm' = arm
    BY <1>3, <2>1, <2>2, <2>3 DEF Place, Quiet
  <2>4. CASE wbuf' = wbuf /\ arm'.st = "dirty" /\ arm'.chr = Len(sent) + 1
    BY <1>3, <2>1, <2>2, <2>4 DEF Place, Quiet
  <2>5. QED
    BY <1>5, <2>3, <2>4
<1>9. Grip'
  BY <1>1, <1>2 DEF OneInv, Grip, Quiet
<1>10. QED
  BY <1>7, <1>8, <1>9 DEF OneInv

(* nswitch polls or waits for the configuration.                           *)
LEMMA OnePoll ==
    ASSUME OrderInv, OneInv, PpcInvalidate \/ PpcConfig \/ PpcPoll
    PROVE  OneInv'
<1>1. /\ UNCHANGED <<mem, arm, wbuf, abuf, sent, printed, received>>
      /\ ppcPc \in {"config", "poll", "config2", "poll2"}
      /\ ppcPc' \in {"config", "poll", "config2", "poll2", "take"}
      /\ ppcPc' \in {"config2", "poll2"} => ppc' = NoLine
  BY DEF PpcInvalidate, PpcConfig, PpcPoll, PpcFrame, armVars
<1>2. Gone' = Gone /\ ~Taking /\ ~Taking'
  BY <1>1 DEF Gone, Taking
<1>3. Len(sent) \in Nat /\ mem \in Bytes /\ ppc \in Copies
  BY Counts DEF OrderInv, LineTypes
<1>4. NoLine.st = "inv"
  BY DEF NoLine
<1>5. (ppc.st # "dirty")'
  <2>1. ppc.st # "dirty"
    BY <1>1 DEF OrderInv, Fresh
  <2>2. CASE PpcInvalidate
    BY <1>4, <2>2 DEF PpcInvalidate
  <2>3. CASE PpcConfig \/ PpcPoll
    <3>1. ppc' = Cached(mem, "clean") \/ ppc' = ppc
      BY <2>3 DEF PpcConfig, PpcPoll, PpcLoad
    <3>2. Cached(mem, "clean").st = "clean"
      BY <1>3, CopyFields
    <3>3. QED
      BY <2>1, <3>1, <3>2
  <2>4. QED
    BY <2>2, <2>3
<1>6. ASSUME ppcPc' = "take" PROVE (Gone = Len(sent) - 1 /\ mem.chr # 0
                                    /\ (ppc.st = "inv" \/ ppc.chr = mem.chr))'
  <2>1. ppcPc = "poll2" /\ PpcLoad /\ PpcLine.chr # 0
    BY <1>6 DEF PpcInvalidate, PpcConfig, PpcPoll
  <2>2. ppc.st = "inv"
    BY <2>1 DEF OneInv, Grip
  <2>3. mem.chr # 0 /\ ppc' = Cached(mem, "clean")
    BY <2>1, <2>2 DEF PpcLine, PpcLoad
  <2>4. ppc'.chr = mem.chr
    BY <1>3, <2>3, CopyFields
  <2>5. Gone = Len(sent) - 1
    BY <2>1, <2>3 DEF OneInv, Place
  <2>6. QED
    BY <1>1, <1>2, <2>3, <2>4, <2>5
<1>7. Gapless'
  BY <1>1, <1>2 DEF OneInv, Gapless
<1>8. Place'
  BY <1>1, <1>2 DEF OneInv, Place
<1>9. Grip'
  BY <1>1, <1>4, <1>5, <1>6 DEF Grip
<1>10. QED
  BY <1>7, <1>8, <1>9 DEF OneInv

(* It takes the character.                                                 *)
LEMMA OneTake ==
    ASSUME OrderInv, OneInv, PpcTake
    PROVE  OneInv'
<1>1. /\ UNCHANGED <<mem, arm, wbuf, abuf, sent, printed>> /\ PpcLoad
      /\ ppcPc = "take" /\ ppcPc' = "zero" /\ received' = PpcLine.chr
  BY DEF PpcTake, PpcFrame, armVars
<1>2. /\ Gone = Len(printed) /\ Gone' = Len(printed) + 1 /\ Taking'
  BY <1>1, Counts DEF Gone, Taking
<1>3. Len(sent) \in Nat /\ Gone \in Nat /\ mem \in Bytes /\ ppc \in Copies
  BY Counts DEF OrderInv, LineTypes
<1>4. /\ Gone = Len(sent) - 1 /\ mem.chr # 0 /\ mem.chr = Len(sent)
      /\ ppc.st = "inv" \/ ppc.chr = mem.chr
      /\ arm.st # "dirty" /\ wbuf.chr = Same /\ abuf.chr = Same
  BY <1>1 DEF OneInv, Place, Grip
<1>5. received' = Len(sent)
  <2>1. Line(ppc).chr = ppc.chr
    BY <1>3, CopyFields
  <2>2. QED
    BY <1>1, <1>4, <2>1 DEF PpcLine
<1>6. ppc.st # "dirty" /\ (ppc' = ppc \/ ppc' = Cached(mem, "clean"))
  BY <1>1 DEF OrderInv, Fresh, PpcLoad
<1>7. ppc'.st # "dirty"
  BY <1>3, <1>6, CopyFields
<1>8. Gapless'
  BY <1>1, <1>2, <1>3, <1>4, <1>5 DEF OneInv, Gapless
<1>9. Gone' = Len(sent)
  BY <1>2, <1>3, <1>4
<1>10. Place'
  BY <1>1, <1>3, <1>4, <1>9 DEF Place
<1>11. Grip'
  BY <1>1, <1>4, <1>7, <1>9 DEF Grip
<1>12. QED
  BY <1>8, <1>10, <1>11 DEF OneInv

(* It zeroes it in its cache, ...                                          *)
LEMMA OneZero ==
    ASSUME OrderInv, OneInv, PpcZero
    PROVE  OneInv'
<1>1. /\ ppcPc = "zero" /\ ppcPc' = "flush" /\ ppc' = Cached([PpcLine EXCEPT !.chr = 0], "dirty")
      /\ UNCHANGED <<mem, arm, wbuf, abuf, sent, printed, received>>
  BY DEF PpcZero, PpcFrame, armVars
<1>2. Gone' = Gone /\ Taking /\ Taking'
  BY <1>1 DEF Gone, Taking
<1>3. ppc'.st = "dirty"
  BY <1>1 DEF Cached
<1>4. Gapless'
  BY <1>1, <1>2 DEF OneInv, Gapless
<1>5. Place'
  BY <1>1, <1>2, <1>3 DEF OneInv, Place
<1>6. Grip'
  BY <1>1, <1>2, <1>3 DEF OneInv, Grip
<1>7. QED
  BY <1>4, <1>5, <1>6 DEF OneInv

(* ... writes the zero to memory, now or when the line is evicted, ...     *)
LEMMA OneDrops ==
    ASSUME OrderInv, OneInv, PpcFlush \/ PpcEvict
    PROVE  OneInv'
<1>1. /\ ppc' = NoLine /\ UNCHANGED <<arm, wbuf, abuf, sent, printed, received>>
      /\ mem' = IF ppc.st = "dirty" THEN Line(ppc) ELSE mem
      /\ ppcPc' = ppcPc \/ (ppcPc = "flush" /\ ppcPc' = "show")
  BY DEF PpcFlush, PpcEvict, PpcFrame, armVars
<1>2. Gone' = Gone /\ Taking' = Taking
  BY <1>1 DEF Gone, Taking
<1>3. NoLine.st = "inv"
  BY DEF NoLine
<1>4. Len(sent) \in Nat
  BY Counts
<1>5. Gapless'
  BY <1>1, <1>2 DEF OneInv, Gapless
<1>6. CASE ppc.st = "dirty"
  <2>1. ppcPc = "flush" /\ Line(ppc).chr = 0
    BY <1>6, CopyFields DEF OrderInv, LineTypes, Fresh
  <2>2. mem'.chr = 0 /\ Gone = Len(sent) /\ ppcPc' \in {"flush", "show"}
    BY <1>1, <1>6, <2>1 DEF OneInv, Grip
  <2>3. Place'
    BY <1>1, <1>2, <1>4, <2>2 DEF OneInv, Place
  <2>4. Grip'
    BY <1>1, <1>3, <2>2 DEF Grip
  <2>5. QED
    BY <1>5, <2>3, <2>4 DEF OneInv
<1>7. CASE ppc.st # "dirty"
  <2>1. mem' = mem
    BY <1>1, <1>7
  <2>2. Place'
    BY <1>1, <1>2, <1>7, <2>1 DEF OneInv, Place
  <2>3. Grip'
    BY <1>1, <1>2, <1>3, <2>1 DEF OneInv, Grip
  <2>4. QED
    BY <1>5, <2>2, <2>3 DEF OneInv
<1>8. QED
  BY <1>6, <1>7

(* ... and shows it.                                                       *)
LEMMA OneShow ==
    ASSUME OrderInv, OneInv, PpcShow
    PROVE  OneInv'
<1>1. /\ ppcPc = "show" /\ ppcPc' = "poll"
      /\ printed' = IF received = 0 THEN printed ELSE Append(printed, received)
      /\ UNCHANGED <<mem, arm, wbuf, abuf, sent, ppc>>
  BY DEF PpcShow, PpcFrame, armVars
<1>2. Taking /\ ~Taking'
  BY <1>1 DEF Taking
<1>3. received = Len(printed) + 1 /\ Len(printed) \in Nat /\ printed \in Seq(Nat)
  BY <1>2, Counts DEF OneInv, Gapless, OrderInv, LineTypes
<1>4. /\ Len(printed') = Len(printed) + 1 /\ printed'[Len(printed) + 1] = received
      /\ \A k \in 1 .. Len(printed) : printed'[k] = printed[k]
  <2>1. received # 0 /\ received \in Nat
    BY <1>3
  <2>2. QED
    BY <1>1, <1>3, <2>1, AppendProperties
<1>5. Gone' = Gone
  BY <1>2, <1>3, <1>4 DEF Gone
<1>6. ppc.st # "dirty"
  BY <1>1 DEF OrderInv, Fresh
<1>7. Gapless'
  <2>1. ASSUME NEW i \in 1 .. Len(printed) + 1 PROVE printed'[i] = i
    <3>1. i \in 1 .. Len(printed) \/ i = Len(printed) + 1
      BY <1>3
    <3>2. QED
      BY <1>3, <1>4, <3>1 DEF OneInv, Gapless
  <2>2. QED
    BY <1>2, <1>4, <2>1 DEF Gapless
<1>8. Place'
  BY <1>1, <1>5, <1>6 DEF OneInv, Place
<1>9. Grip'
  BY <1>1, <1>6 DEF Grip
<1>10. QED
  BY <1>7, <1>8, <1>9 DEF OneInv

(* Give-ups and traps are counted.                                         *)
LEMMA Counted ==
    ASSUME giveups \in Nat, traps \in Nat, [Next]_vars
    PROVE  /\ giveups' \in Nat /\ traps' \in Nat
           /\ giveups' = 0 /\ traps' = 0 =>
                  /\ giveups = 0 /\ traps = 0 /\ ~WaitGiveUp /\ ~Exception
                  /\ ~\E error \in BOOLEAN : Interrupt(error)
<1>1. CASE WaitGiveUp
  BY <1>1 DEF WaitGiveUp, Frame
<1>2. CASE Exception
  BY <1>2 DEF Exception
<1>3. CASE \E error \in BOOLEAN : Interrupt(error)
  BY <1>3 DEF Interrupt
<1>4. CASE (ArmStep \/ PpcStep \/ Hardware \/ UNCHANGED vars) /\ ~WaitGiveUp /\ ~Exception
           /\ ~\E error \in BOOLEAN : Interrupt(error)
  <2>1. ArmStep => UNCHANGED <<giveups, traps>>
    BY DEF ArmStep, irq_kill, irq_restore, FlushTest, FlushTo, FlushFrom, Drain, Invalidate,
           Clean, SetCache, gecko_init, gecko_printf, WaitTaken, WaitAgain, PutChar, NextChar,
           exception_initialize, irq_initialize, irq_shutdown, IrqReturn, systemReset, Frame
  <2>2. PpcStep => UNCHANGED <<giveups, traps>>
    BY DEF PpcStep, PpcInvalidate, PpcConfig, PpcPoll, PpcTake, PpcZero, PpcFlush, PpcShow,
           PpcFrame
  <2>3. Hardware => UNCHANGED <<giveups, traps>>
    BY DEF Hardware, ArmEvict, BufferDrains, BusDrains, PpcEvict
  <2>4. UNCHANGED vars => UNCHANGED <<giveups, traps>>
    BY DEF vars
  <2>5. QED
    BY <1>4, <2>1, <2>2, <2>3, <2>4
<1>5. QED
  BY <1>1, <1>2, <1>3, <1>4 DEF Next

(* Operations on masks, the bus and the cache that move no character.      *)
LEMMA PlainStep ==
    ASSUME SectionInv, OrderInv, MainInv, OneInv,
           irq_kill \/ irq_restore \/ FlushTest \/ FlushTo \/ FlushFrom \/ SetCache \/ Invalidate
           \/ exception_initialize \/ irq_initialize \/ irq_shutdown \/ IrqReturn
           \/ systemReset
    PROVE  MainInv' /\ OneInv'
<1>1. thread = "main" /\ thread' = "main" /\ todo["main"] # <<>>
  <2>1. thread = "main" /\ Op # "none"
    BY DEF MainInv, irq_kill, irq_restore, FlushTest, FlushTo, FlushFrom, SetCache, Invalidate,
           exception_initialize, irq_initialize, irq_shutdown, IrqReturn, systemReset
  <2>2. thread' = "main"
    BY <2>1 DEF irq_kill, irq_restore, FlushTest, FlushTo, FlushFrom, SetCache, Invalidate,
           exception_initialize, irq_initialize, irq_shutdown, IrqReturn, systemReset, KeepCpu
  <2>3. QED
    BY <2>1, <2>2 DEF Op
<1>2. todo' = [todo EXCEPT !["main"] = Tail(todo["main"])]
  BY <1>1 DEF irq_kill, irq_restore, FlushTest, FlushTo, FlushFrom, SetCache, Invalidate,
           exception_initialize, irq_initialize, irq_shutdown, IrqReturn, systemReset, Done, Goto
<1>3. Op \notin {"put", "test", "clean"}
  BY DEF irq_kill, irq_restore, FlushTest, FlushTo, FlushFrom, SetCache, Invalidate,
           exception_initialize, irq_initialize, irq_shutdown, IrqReturn, systemReset
<1>4. UNCHANGED <<mem, wbuf, abuf, ppcVars, sent>>
  BY DEF irq_kill, irq_restore, FlushTest, FlushTo, FlushFrom, SetCache, Invalidate,
           exception_initialize, irq_initialize, irq_shutdown, IrqReturn, systemReset,
           KeepMem, memVars, Frame
<1>5. (Op = "inval" => arm' = NoLine) /\ (arm' = arm \/ (Op \in {"inval", "dcinval"} /\ arm' = NoLine))
  BY DEF irq_kill, irq_restore, FlushTest, FlushTo, FlushFrom, SetCache, Invalidate,
           exception_initialize, irq_initialize, irq_shutdown, IrqReturn, systemReset, KeepMem, memVars
<1>6. NoLine.st = "inv"
  BY DEF NoLine
<1>7. Op \in {"inval", "dcinval"} => arm.st # "dirty"
  BY DEF MainInv
<1>8. MainInv'
  BY <1>1, <1>2, <1>3, <1>5, <1>6, MainGoesOn DEF SectionInv
<1>9. OneInv'
  BY <1>4, <1>5, <1>6, <1>7, OneKept
<1>10. QED
  BY <1>8, <1>9

(* The operations that move one.                                           *)
LEMMA MovingStep ==
    ASSUME SectionInv, OrderInv, MainInv, OneInv, Drain \/ Clean \/ PutChar
    PROVE  MainInv' /\ OneInv'
<1>1. thread = "main" /\ thread' = "main" /\ todo["main"] # <<>>
  BY DEF MainInv, Drain, Clean, PutChar, KeepCpu, Op
<1>2. todo' = [todo EXCEPT !["main"] = Tail(todo["main"])]
  BY <1>1 DEF Drain, Clean, PutChar, Done, Goto
<1>3. arm \in Copies
  BY DEF OrderInv, LineTypes
<1>4. CASE Drain
  <2>1. /\ Op = "drain" /\ UNCHANGED <<mem, arm, ppcVars, sent>>
        /\ abuf' = Over(wbuf, abuf) /\ wbuf' = Nothing
    BY <1>4 DEF Drain, Frame
  <2>2. MainInv'
    BY <1>1, <1>2, <2>1, MainGoesOn DEF SectionInv
  <2>3. OneInv'
    BY <2>1, OneOnBus
  <2>4. QED
    BY <2>2, <2>3
<1>5. CASE Clean
  <2>1. /\ Op = "clean" /\ UNCHANGED <<mem, abuf, ppcVars, sent>>
        /\ wbuf' = IF arm.st = "dirty" THEN Line(arm) ELSE wbuf
        /\ arm' = [arm EXCEPT !.st = IF @ = "dirty" THEN "clean" ELSE @]
    BY <1>5 DEF Clean, Frame
  <2>2. arm'.st = IF arm.st = "dirty" THEN "clean" ELSE arm.st
    BY <1>3, <2>1 DEF Copies
  <2>3. MainInv'
    BY <1>1, <1>2, <2>1, <2>2, MainGoesOn DEF SectionInv
  <2>4. OneInv'
    BY <2>1, <2>2, OneWriteBack
  <2>5. QED
    BY <2>3, <2>4
<1>6. CASE PutChar
  <2>1. Op = "put" /\ (arm.st = "inv" => arm' = arm)
    BY <1>6 DEF PutChar, Store
  <2>2. MainInv'
    BY <1>1, <1>2, <2>1, MainGoesOn DEF SectionInv
  <2>3. OneInv'
    BY <1>6, <2>1, OnePut DEF MainInv
  <2>4. QED
    BY <2>2, <2>3
<1>7. QED
  BY <1>4, <1>5, <1>6

(* The test goes on only when all is quiet, ...                            *)
LEMMA TestStep ==
    ASSUME SectionInv, OrderInv, Ahead, MainInv, OneInv, WaitTaken \/ WaitAgain
    PROVE  MainInv' /\ OneInv'
<1>1. /\ thread = "main" /\ thread' = "main" /\ Op = "test" /\ todo["main"] # <<>>
      /\ Head(todo["main"]) = "test" /\ Fill /\ UNCHANGED <<ppcVars, sent>>
  BY DEF MainInv, WaitTaken, WaitAgain, KeepCpu, Op, Frame
<1>2. arm.st = "inv"
  BY <1>1, TestMisses DEF SectionInv
<1>3. UNCHANGED <<mem, wbuf, abuf>> /\ (arm' = arm \/ arm' = Cached(Fetch, "clean"))
  BY <1>1 DEF Fill
<1>4. arm'.st # "dirty"
  <2>1. Fetch \in Bytes /\ arm \in Copies
    BY FetchChr DEF OrderInv, LineTypes
  <2>2. QED
    BY <1>2, <1>3, <2>1, CopyFields
<1>5. OneInv'
  BY <1>1, <1>2, <1>3, <1>4, OneKept
<1>6. CASE WaitTaken
  <2>1. todo' = [todo EXCEPT !["main"] = Tail(todo["main"])]
    BY <1>1, <1>6 DEF WaitTaken, Done, Goto
  <2>2. Fetch.chr = 0
    BY <1>2, <1>6 DEF WaitTaken, Load
  <2>3. Quiet'
    BY <1>3, <1>4, <2>2, FetchChr DEF Quiet
  <2>4. MainInv'
    BY <1>1, <1>4, <2>1, <2>3, MainGoesOn DEF SectionInv
  <2>5. QED
    BY <1>5, <2>4
<1>7. CASE WaitAgain
  <2> DEFINE s == todo["main"]
             u == dc_invalidaterange \o s
  <2>1. todo' = [todo EXCEPT !["main"] = u]
    BY <1>1, <1>7 DEF WaitAgain, Goto
  <2>2. s \in Seq(Ops) /\ s # <<>> /\ Head(s) = "test" /\ Layout(s)
    BY <1>1 DEF SectionInv, SectionTypes, Threads, MainInv
  <2> HIDE DEF s
  <2>3. u \in Seq(Ops) /\ Len(u) >= 2 /\ u[1] = "kill"
    BY <2>2, Flushes, FirstTwo
  <2>4. Layout(u)
    BY <2>2, Flushes, LayoutPlain
  <2>5. Covered(u)
    BY <2>2, Flushes, CoveredCall DEF Free
  <2> HIDE DEF u
  <2>6. u # <<>> /\ Head(u) = "kill"
    BY <2>3, Starts
  <2>7. MainInv'
    BY <1>1, <1>4, <2>1, <2>3, <2>4, <2>5, <2>6, MainCalls DEF SectionInv
  <2>8. QED
    BY <1>5, <2>7
<1>8. QED
  BY <1>6, <1>7

(* ... and a message or its next character starts with it.                 *)
LEMMA PrintStep ==
    ASSUME SectionInv, OrderInv, MainInv, OneInv, gecko_printf \/ NextChar
    PROVE  MainInv' /\ OneInv'
<1> DEFINE s == todo["main"]
<1>1. /\ thread = "main" /\ thread' = "main" /\ s # <<>> /\ Op = Head(s)
      /\ Head(s) \in {"print", "next"} /\ arm' = arm
      /\ UNCHANGED <<mem, arm, wbuf, abuf, ppcVars, sent>>
  BY DEF MainInv, gecko_printf, NextChar, KeepCpu, Op, Frame, KeepMem, memVars
<1>2. \/ todo' = [todo EXCEPT !["main"] = PrintChar \o Tail(s)]
      \/ todo' = [todo EXCEPT !["main"] = Tail(s)]
  BY <1>1 DEF gecko_printf, NextChar, Done, Goto
<1>3. s \in Seq(Ops) /\ Layout(s)
  BY DEF SectionInv, SectionTypes, Threads, MainInv
<1>4. arm.st # "dirty"
  BY <1>1 DEF MainInv
<1>5. OneInv'
  BY <1>1, OneKept
<1>6. CASE todo' = [todo EXCEPT !["main"] = Tail(s)]
  BY <1>1, <1>4, <1>5, <1>6, MainGoesOn DEF SectionInv
<1>7. CASE todo' = [todo EXCEPT !["main"] = PrintChar \o Tail(s)]
  <2> HIDE DEF s
  <2> DEFINE q == Tail(s)
             u == PrintChar \o q
  <2>1. q \in Seq(Ops) /\ Free(q, {"test", "put"})
    BY <1>1, <1>3, LayoutTail, TailFacts
  <2> HIDE DEF q
  <2>2. u \in Seq(Ops) /\ Layout(u) /\ Covered(u) /\ u # <<>> /\ Head(u) = "kill"
    BY <2>1, LayoutPrint
  <2> HIDE DEF u
  <2>3. todo' = [todo EXCEPT !["main"] = u]
    BY <1>7 DEF u, q
  <2>4. MainInv'
    BY <1>1, <1>4, <2>2, <2>3, MainCalls DEF SectionInv
  <2>5. QED
    BY <1>5, <2>4
<1>8. QED
  BY <1>2, <1>6, <1>7

(* gecko_init comes before every character.                                *)
LEMMA ConfigStep ==
    ASSUME SectionInv, OrderInv, MainInv, OneInv, gecko_init
    PROVE  MainInv' /\ OneInv'
<1>1. /\ thread = "main" /\ thread' = "main" /\ todo["main"] # <<>> /\ Op = "config"
      /\ Head(todo["main"]) = "config" /\ UNCHANGED <<mem, abuf, ppcVars, sent>>
  BY DEF MainInv, gecko_init, Op, Frame
<1>2. Starting
  BY <1>1, ConfigFirst DEF SectionInv
<1>3. arm.st = "inv" /\ todo["main"] = Main
  BY <1>2 DEF Starting
<1> DEFINE w == [chr |-> Same, cfg |-> 0]
<1>4. arm' = arm /\ (wbuf' = wbuf \/ wbuf' = Over(w, wbuf))
  BY <1>3 DEF gecko_init, Store
<1>5. w \in Bytes /\ w.chr = Same
  BY DEF Bytes, Same
<1> HIDE DEF w
<1>6. wbuf'.chr = wbuf.chr
  BY <1>4, <1>5, Overlay DEF OrderInv, LineTypes
<1>7. OneInv'
  BY <1>1, <1>4, <1>6, OneKept
<1> DEFINE u == dc_flushrange \o AfterConfig
<1>8. \/ todo' = [todo EXCEPT !["main"] = Tail(todo["main"])]
      \/ todo' = [todo EXCEPT !["main"] = u]
  BY <1>1, <1>3, HeadTailMain DEF gecko_init, Done, Goto
<1>9. /\ u \in Seq(Ops) /\ Len(u) >= 2 /\ u[1] = "kill"
  BY LayoutMain, Flushes, FirstTwo
<1>10. Layout(u) /\ Covered(u)
  <2>1. Free(dc_flushrange, {"test", "put"})
    BY Flushes DEF Free
  <2>2. Free(u, {"test", "put"})
    BY <2>1, LayoutMain, Flushes, ConcatFree
  <2> HIDE DEF u
  <2>3. QED
    BY <1>9, <2>2, LayoutFree
<1> HIDE DEF u
<1>11. u # <<>> /\ Head(u) = "kill"
  BY <1>9, Starts
<1>12. MainInv'
  <2>1. CASE todo' = [todo EXCEPT !["main"] = Tail(todo["main"])]
    BY <1>1, <1>3, <1>4, <2>1, MainGoesOn DEF SectionInv
  <2>2. CASE todo' = [todo EXCEPT !["main"] = u]
    BY <1>1, <1>3, <1>4, <1>9, <1>10, <1>11, <2>2, MainCalls DEF SectionInv
  <2>3. QED
    BY <1>8, <2>1, <2>2
<1>13. QED
  BY <1>7, <1>12

(* The hardware and nswitch.                                               *)
LEMMA OutsideStep ==
    ASSUME OrderInv, MainInv, OneInv, PpcStep \/ Hardware
    PROVE  MainInv' /\ OneInv'
<1>1. UNCHANGED armVars
  BY DEF PpcStep, PpcInvalidate, PpcConfig, PpcPoll, PpcTake, PpcZero, PpcFlush, PpcShow,
         PpcFrame, Hardware, ArmEvict, BufferDrains, BusDrains, PpcEvict
<1>2. /\ mem \in Bytes /\ wbuf \in Bytes /\ abuf \in Bytes /\ arm \in Copies /\ ppc \in Copies
      /\ NoLine.st = "inv"
  BY DEF OrderInv, LineTypes, NoLine
<1>3. sent' = sent
  BY <1>1 DEF armVars
<1>4. CASE ArmEvict
  <2>1. /\ arm' = NoLine /\ wbuf' = IF arm.st = "dirty" THEN Line(arm) ELSE wbuf
        /\ UNCHANGED <<mem, abuf, ppcVars>>
    BY <1>4 DEF ArmEvict
  <2>2. Quiet => Quiet'
    BY <1>2, <2>1 DEF Quiet
  <2>3. QED
    BY <1>1, <1>2, <1>3, <2>1, <2>2, MainWaits, OneWriteBack
<1>5. CASE BufferDrains
  <2>1. abuf' = Over(wbuf, abuf) /\ wbuf' = Nothing /\ UNCHANGED <<mem, arm, ppcVars>>
    BY <1>5 DEF BufferDrains
  <2>2. abuf'.chr = (IF wbuf.chr = Same THEN abuf.chr ELSE wbuf.chr) /\ wbuf'.chr = Same
    BY <1>2, <2>1, Overlay, CopyFields
  <2>3. Quiet => Quiet'
    BY <2>1, <2>2 DEF Quiet
  <2>4. QED
    BY <1>1, <1>3, <2>1, <2>3, MainWaits, OneOnBus
<1>6. CASE BusDrains
  <2>1. mem' = Over(abuf, mem) /\ abuf' = Nothing /\ UNCHANGED <<arm, wbuf>>
    BY <1>6 DEF BusDrains
  <2>2. mem'.chr = (IF abuf.chr = Same THEN mem.chr ELSE abuf.chr) /\ abuf'.chr = Same
    BY <1>2, <2>1, Overlay, CopyFields
  <2>3. Quiet => Quiet'
    BY <2>1, <2>2 DEF Quiet
  <2>4. QED
    BY <1>1, <1>6, <2>1, <2>3, MainWaits, OneIntoMemory
<1>7. CASE PpcFlush \/ PpcEvict
  <2>1. mem' = (IF ppc.st = "dirty" THEN Line(ppc) ELSE mem) /\ UNCHANGED <<arm, wbuf, abuf>>
    BY <1>7 DEF PpcFlush, PpcEvict, PpcFrame
  <2>2. ppc.st = "dirty" => Line(ppc).chr = 0
    BY <1>2, CopyFields DEF OrderInv, Fresh
  <2>3. Quiet => Quiet'
    BY <2>1, <2>2 DEF Quiet
  <2>4. QED
    BY <1>1, <1>7, <2>1, <2>3, MainWaits, OneDrops
<1>8. CASE PpcInvalidate \/ PpcConfig \/ PpcPoll \/ PpcTake \/ PpcZero \/ PpcShow
  <2>1. UNCHANGED <<mem, arm, wbuf, abuf>>
    BY <1>8 DEF PpcInvalidate, PpcConfig, PpcPoll, PpcTake, PpcZero, PpcShow, PpcFrame
  <2>2. Quiet => Quiet'
    BY <2>1 DEF Quiet
  <2>3. MainInv'
    BY <1>1, <2>1, <2>2, MainWaits
  <2>4. QED
    BY <1>8, <2>3, OnePoll, OneTake, OneZero, OneShow
<1>9. QED
  BY <1>4, <1>5, <1>6, <1>7, <1>8 DEF PpcStep, Hardware

(* Every step keeps it.                                                    *)
LEMMA PromptStep == SectionInv /\ OrderInv /\ PromptInv /\ [Next]_vars => PromptInv'
<1> SUFFICES ASSUME SectionInv, OrderInv, PromptInv, [Next]_vars PROVE PromptInv'
  OBVIOUS
<1>1. giveups \in Nat /\ traps \in Nat /\ Ahead
  BY DEF PromptInv
<1>2. giveups' \in Nat /\ traps' \in Nat /\ Ahead'
  BY <1>1, Counted, AheadKept
<1>3. ASSUME giveups' = 0, traps' = 0 PROVE MainInv' /\ OneInv'
  <2>1. /\ ~WaitGiveUp /\ ~Exception /\ ~\E error \in BOOLEAN : Interrupt(error)
        /\ MainInv /\ OneInv
    BY <1>1, <1>3, Counted DEF PromptInv
  <2>2. CASE UNCHANGED vars
    <3>1. UNCHANGED <<armVars, arm, wbuf, abuf, mem, ppcVars, sent>>
      BY <2>2 DEF vars, memVars, armVars
    <3>2. Quiet' = Quiet
      BY <3>1 DEF Quiet
    <3>3. QED
      BY <2>1, <3>1, <3>2, MainWaits, OneKept
  <2>3. CASE PpcStep \/ Hardware
    BY <2>1, <2>3, OutsideStep
  <2>4. CASE ArmStep
    BY <1>1, <2>1, <2>4, PlainStep, MovingStep, TestStep, PrintStep, ConfigStep DEF ArmStep
  <2>5. QED
    BY <2>1, <2>2, <2>3, <2>4 DEF Next
<1>4. QED
  BY <1>2, <1>3 DEF PromptInv

(* Nothing is on its way at the start.                                     *)
LEMMA PromptInit == Init => PromptInv
<1> SUFFICES ASSUME Init PROVE PromptInv
  OBVIOUS
<1>1. /\ giveups = 0 /\ traps = 0 /\ thread = "main" /\ sent = <<>> /\ printed = <<>>
      /\ ppcPc = "config" /\ arm = NoLine /\ ppc = NoLine /\ rbuf = Nothing
      /\ wbuf = Nothing /\ abuf = Nothing /\ todo["main"] = Main /\ mem = [chr |-> 0, cfg |-> 3]
  BY DEF Init, Threads
<1>2. NoLine.st = "inv" /\ NoLine.chr = 0 /\ Nothing.chr = Same /\ mem.chr = 0
  BY <1>1 DEF NoLine, Nothing
<1>3. Layout(todo["main"]) /\ Covered(todo["main"])
  BY <1>1, LayoutMain, LayoutFree
<1>4. Op = "config"
  <2>1. Main # <<>>
    <3>1. Main \in Seq(Ops) /\ <<"config">> \in Seq(Ops) /\ AfterConfig \in Seq(Ops)
      BY HeadTailMain, Tuples, LayoutMain
    <3>2. Len(Main) # 0
      BY <3>1, ConcatProperties DEF Main
    <3>3. QED
      BY <3>2
  <2>2. QED
    BY <1>1, <2>1, HeadTailMain DEF Op
<1>5. MainInv
  BY <1>1, <1>2, <1>3, <1>4 DEF MainInv
<1>6. Len(sent) = 0 /\ Len(printed) = 0 /\ ~Taking /\ Gone = 0
  BY <1>1 DEF Taking, Gone
<1>7. Gapless
  BY <1>6 DEF Gapless
<1>8. Place /\ Grip
  BY <1>1, <1>2, <1>6 DEF Place, Grip
<1>9. Ahead
  BY <1>1 DEF Ahead
<1>10. QED
  BY <1>1, <1>5, <1>7, <1>8, <1>9 DEF PromptInv, OneInv

(* What has been taken, one by one.                                        *)
LEMMA TakenIs ==
    ASSUME LineTypes, received \in Nat
    PROVE  /\ Len(Taken) = Gone
           /\ \A i \in 1 .. Len(printed) : Taken[i] = printed[i]
           /\ Taking => Taken[Len(printed) + 1] = received
<1>1. printed \in Seq(Nat) /\ Len(printed) \in Nat
  BY DEF LineTypes
<1>2. CASE Taking
  <2>1. Taken = printed \o <<received>>
    BY <1>2 DEF Taken, Taking
  <2> DEFINE r == <<received>>
  <2>2. r \in Seq(Nat) /\ Len(r) = 1 /\ r[1] = received
    OBVIOUS
  <2> HIDE DEF r
  <2>3. /\ Len(printed \o r) = Len(printed) + Len(r)
        /\ \A i \in 1 .. Len(printed) + Len(r) : (printed \o r)[i] =
               IF i <= Len(printed) THEN printed[i] ELSE r[i - Len(printed)]
    BY <1>1, <2>2, ConcatProperties
  <2>4. Taken = printed \o r
    BY <2>1 DEF r
  <2>5. QED
    BY <1>1, <1>2, <2>2, <2>3, <2>4 DEF Gone
<1>3. CASE ~Taking
  <2>1. Taken = printed
    BY <1>1, <1>3, ConcatEmptySeq DEF Taken, Taking
  <2>2. QED
    BY <1>1, <1>3, <2>1 DEF Gone
<1>4. QED
  BY <1>2, <1>3

(* Undisturbed, the last character is in one place until it is taken.      *)
THEOREM PromptInvariant == Spec => []PromptInv
<1>1. Init => PromptInv
  BY PromptInit
<1>2. SectionInv /\ OrderInv /\ PromptInv /\ [Next]_vars => PromptInv'
  BY PromptStep
<1>3. QED
  BY <1>1, <1>2, SectionInvariant, OrderInvariant, PTL DEF Spec

(* NoneLostIfPrompt: as long as gecko_printf has not given up and nothing  *)
(* has interrupted the main thread, at most one character is on its way    *)
(* and those taken are the first ones, whatever is evicted and whenever    *)
(* the buffers drain.                                                      *)
THEOREM NoneLost == Spec => []NoneLostIfPrompt
<1>1. OrderInv /\ PromptInv => NoneLostIfPrompt
  <2> SUFFICES ASSUME OrderInv, PromptInv, giveups = 0, traps = 0
               PROVE  /\ Len(sent) - Len(Taken) \in {0, 1}
                      /\ \A i \in 1 .. Len(Taken) : Taken[i] = i
    BY DEF NoneLostIfPrompt
  <2>1. OneInv /\ LineTypes
    BY DEF PromptInv, OrderInv
  <2>2. received \in Nat
    BY DEF OrderInv, LineTypes, Flow, Low
  <2>3. /\ Len(Taken) = Gone
        /\ \A i \in 1 .. Len(printed) : Taken[i] = printed[i]
        /\ Taking => Taken[Len(printed) + 1] = received
    BY <2>1, <2>2, TakenIs
  <2>4. Len(sent) \in Nat /\ Len(printed) \in Nat /\ Gone \in Nat
    BY Counts
  <2>5. Len(sent) - Len(Taken) \in {0, 1}
    BY <2>1, <2>3, <2>4 DEF OneInv, Place
  <2>6. ASSUME NEW i \in 1 .. Len(Taken) PROVE Taken[i] = i
    <3>1. i \in 1 .. Len(printed) \/ (Taking /\ i = Len(printed) + 1)
      BY <2>3, <2>4 DEF Gone
    <3>2. QED
      BY <2>1, <2>3, <3>1 DEF OneInv, Gapless
  <2>7. QED
    BY <2>5, <2>6
<1>2. QED
  BY <1>1, OrderInvariant, PromptInvariant, PTL
=============================================================================
