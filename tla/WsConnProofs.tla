---------------------------- MODULE WsConnProofs ----------------------------
(***************************************************************************)
(* Theorems about the WebSocket connection: types, for any peer; and for a *)
(* server that does not send before it was sent something, that pongs      *)
(* answer pings and, if messages are not fragmented either, that the       *)
(* decoder finds a stream of bytes.                                        *)
(*                                                                         *)
(* The inductive invariant, WsInv, says what the cells on their way are:   *)
(* whole frames, the last of which may be cut short once the peer has      *)
(* gone, with bytes that follow those that were read.  So the proof is     *)
(* about sequences: what remains of them when a frame is read (Behind),    *)
(* when the peer goes (Begins), and when it sends a frame (OneMore).       *)
(***************************************************************************)
EXTENDS WsConn, SequenceTheorems, TLAPS

-----------------------------------------------------------------------------
(* The inductive invariant, for a server that does not send before it was  *)
(* sent something                                                          *)

Cells == [cell : {"http", "head", "byte"}, op : Opcodes \cup {""}, n : Int]

\* While the upgrade lasts nothing but the HTTP head is on its way, and when
\* it is over no other can come.
Opening ==
  /\ in \in Seq(Cells)
  /\ stage # "open" =>
       /\ in \in {<<>>, <<HttpHead>>}
       /\ out = <<>> /\ sent = 0 /\ pings = 0 /\ got = <<>>
       /\ reader = "reading" /\ writer = "idle" /\ closer = "idle"
  /\ peer = "silent" => in = <<>> /\ stage # "open"
  /\ role = "accept" /\ stage = "reply" => peer # "silent" /\ in = <<>>

\* The bytes of a frame show what frame it is.
OfKind(op, v) ==
  IF op = "ping" THEN v < 0 ELSE IF op \in {"data", "continuation"} THEN v > 0 ELSE v = 0

\* s is one frame behind another, the last of which may be cut short.
Framed(s) ==
  /\ s # <<>> => s[1].cell = "head"
  /\ \A i \in DOMAIN s :
       /\ s[i].cell # "http"
       /\ s[i].cell = "head" =>
            /\ s[i].op \in Opcodes /\ s[i].n \in Nat
            /\ s[i].op = "ping" => s[i].n = 1
            /\ \A j \in DOMAIN s :
                 /\ i < j /\ j <= i + s[i].n => s[j].cell = "byte" /\ OfKind(s[i].op, s[j].n)
                 /\ j = i + s[i].n + 1 => s[j].cell = "head"

\* It is not cut short.
Whole(s) == \A i \in DOMAIN s : s[i].cell = "head" => i + s[i].n <= Len(s)

IsByte(s, i) == s[i].cell = "byte"

\* The bytes of data come in order, and the pings do.
Ordered(s) ==
  \A i, j \in DOMAIN s :
    i < j /\ IsByte(s, i) /\ IsByte(s, j) =>
      /\ s[i].n > 0 /\ s[j].n > 0 => s[i].n < s[j].n
      /\ s[i].n < 0 /\ s[j].n < 0 => s[i].n > s[j].n

\* m bytes of data and p pings have been sent.
InRange(s, m, p) == \A i \in DOMAIN s : IsByte(s, i) => 0 - p <= s[i].n /\ s[i].n <= m

FramesInOrder ==
  reader \in {"reading", "ponging"} /\ stage = "open" =>
    /\ Framed(in) /\ Ordered(in) /\ InRange(in, sent, pings)
    /\ peer # "gone" => Whole(in)

\* v is a ping that has been read: those still to come were sent after it.
Before(v, s) == \A i \in DOMAIN s : IsByte(s, i) /\ s[i].n < 0 => s[i].n < v

OutFrames == [op : Opcodes, data : Seq(Int), whole : BOOLEAN]

PongsInOrder ==
  /\ out \in Seq(OutFrames)
  /\ reader = "ponging" =>
       /\ stage = "open"
       /\ \E v \in (0 - pings)..(0 - 1) : ping = <<v>> /\ Before(v, in)
  /\ \A i \in DOMAIN out : out[i].op = "pong" =>
       /\ \E v \in (0 - pings)..(0 - 1) : out[i].data = <<v>>
       /\ reader \in {"reading", "ponging"} => Before(out[i].data[1], in)
       /\ reader = "ponging" => ping[1] < out[i].data[1]
  /\ PongsEchoPings

\* In a stream of which g bytes of data have been read and m were sent, and
\* whose messages are not fragmented, the next byte of data is always there
\* before the one after it.
Numbered(s, g, m) ==
  /\ g <= m
  /\ \A i \in DOMAIN s :
       /\ s[i].op # "continuation"
       /\ IsByte(s, i) /\ s[i].n > 0 =>
            /\ g < s[i].n
            /\ \/ s[i].n = g + 1
               \/ \E j \in DOMAIN s : j < i /\ IsByte(s, j) /\ s[j].n = s[i].n - 1
       /\ s[i].cell = "head" /\ s[i].op = "data" =>
            \A j \in DOMAIN s : i < j /\ j <= i + s[i].n => s[j].n = s[i + 1].n + (j - i - 1)

\* And the last one that was sent is there.
Complete(s, g, m) == m = g \/ \E i \in DOMAIN s : IsByte(s, i) /\ s[i].n = m

DataInOrder ==
  ~Fragments =>
    /\ Len(got) <= sent
    /\ reader \in {"reading", "ponging"} /\ stage = "open" =>
         /\ Numbered(in, Len(got), sent)
         /\ peer # "gone" => Complete(in, Len(got), sent)

WsInv == TypeOK /\ Opening /\ FramesInOrder /\ PongsInOrder /\ DataInOrder


-----------------------------------------------------------------------------
(* Cells                                                                     *)

\* t is what is left of s behind its first k cells.
Behind(t, s, k) ==
  /\ s \in Seq(Cells) /\ t \in Seq(Cells) /\ k \in Nat
  /\ Len(s) = Len(t) + k
  /\ \A i \in 1..Len(t) : t[i] = s[i + k]

\* t is the beginning of s.
Begins(t, s) ==
  /\ s \in Seq(Cells) /\ t \in Seq(Cells)
  /\ Len(t) <= Len(s)
  /\ \A i \in 1..Len(t) : t[i] = s[i]

\* t is s and a frame behind it.
OneMore(t, s, op, n) ==
  /\ s \in Seq(Cells) /\ t \in Seq(Cells) /\ op \in Opcodes /\ n \in Nat
  /\ Len(t) = Len(s) + 1 + n
  /\ \A i \in 1..Len(s) : t[i] = s[i]
  /\ t[Len(s) + 1] = FrameHead(op, n)
  /\ \A i \in 1..n : t[Len(s) + 1 + i].cell = "byte" /\ t[Len(s) + 1 + i].op = ""

\* The bytes of the frame that was put behind s: those of its kind, ...
NewOfKind(t, s, op, n) == \A i \in 1..n : OfKind(op, t[Len(s) + 1 + i].n)

\* ... in order, and after those up to data m and ping p, ...
NewInOrder(t, s, n, m, p, m1, p1) ==
  /\ \A i \in 1..n : LET v == t[Len(s) + 1 + i].n
                     IN  /\ v > 0 => m < v /\ v <= m1
                         /\ v < 0 => v < 0 - p /\ 0 - p1 <= v
  /\ \A i, j \in 1..n : i < j =>
       LET v == t[Len(s) + 1 + i].n
           w == t[Len(s) + 1 + j].n
       IN  /\ v > 0 /\ w > 0 => v < w
           /\ v < 0 /\ w < 0 => v > w

\* ... and the next ones, if it is data.
NewAreNext(t, s, op, n, m, m1) ==
  /\ op = "data" => m1 = m + n /\ \A i \in 1..n : t[Len(s) + 1 + i].n = m + i
  /\ op # "data" => m1 = m /\ \A i \in 1..n : t[Len(s) + 1 + i].n <= 0

\* What a sequence of cells consists of.
LEMMA CellTypes ==
  ASSUME NEW s \in Seq(Cells)
  PROVE  /\ Len(s) \in Nat /\ DOMAIN s = 1..Len(s)
         /\ \A i \in 1..Len(s) : s[i].n \in Int /\ s[i].cell \in {"http", "head", "byte"}
<1>1. Len(s) \in Nat /\ DOMAIN s = 1..Len(s) /\ \A i \in 1..Len(s) : s[i] \in Cells
  OBVIOUS
<1>2. \A c \in Cells : c.n \in Int /\ c.cell \in {"http", "head", "byte"}
  BY DEF Cells
<1> QED
  BY <1>1, <1>2

\* What is cut off behind its first cells is framed when a frame begins there.
LEMMA BehindFramed ==
  ASSUME NEW s, NEW t, NEW n \in Nat, Behind(t, s, n + 1),
         Framed(s), s[1].cell = "head", s[1].n = n
  PROVE  Framed(t) /\ (Whole(s) => Whole(t))
<1> DEFINE k == n + 1
<1>1. /\ Len(s) \in Nat /\ Len(t) \in Nat /\ k \in Nat /\ Len(s) = Len(t) + k /\ k >= 1
      /\ DOMAIN s = 1..Len(s) /\ DOMAIN t = 1..Len(t)
  BY CellTypes DEF Behind
<1>2. \A i \in 1..Len(t) : t[i] = s[i + k] /\ i + k \in 1..Len(s)
  BY <1>1 DEF Behind
<1>3. t # <<>> => t[1].cell = "head"
  <2>1. CASE Len(t) = 0
    BY <2>1 DEF Behind
  <2>2. CASE Len(t) > 0
    <3>1. 1 \in 1..Len(t) /\ 1 \in 1..Len(s) /\ 1 + k \in 1..Len(s) /\ 1 + k = 1 + n + 1
      BY <1>1, <2>2
    <3>2. s[1 + k].cell = "head"
      BY <1>1, <3>1 DEF Framed
    <3> QED
      BY <1>2, <3>1, <3>2
  <2> QED
    BY <1>1, <2>1, <2>2
<1>4. ASSUME NEW i \in 1..Len(t)
      PROVE  /\ t[i].cell # "http"
             /\ t[i].cell = "head" =>
                  /\ t[i].op \in Opcodes /\ t[i].n \in Nat
                  /\ t[i].op = "ping" => t[i].n = 1
                  /\ \A j \in 1..Len(t) :
                       /\ i < j /\ j <= i + t[i].n => t[j].cell = "byte" /\ OfKind(t[i].op, t[j].n)
                       /\ j = i + t[i].n + 1 => t[j].cell = "head"
  <2>1. t[i] = s[i + k] /\ i + k \in 1..Len(s)
    BY <1>2
  <2>2. /\ s[i + k].cell # "http"
        /\ s[i + k].cell = "head" =>
             /\ s[i + k].op \in Opcodes /\ s[i + k].n \in Nat
             /\ s[i + k].op = "ping" => s[i + k].n = 1
             /\ \A j \in 1..Len(s) :
                  /\ i + k < j /\ j <= (i + k) + s[i + k].n
                       => s[j].cell = "byte" /\ OfKind(s[i + k].op, s[j].n)
                  /\ j = (i + k) + s[i + k].n + 1 => s[j].cell = "head"
    <3> HIDE DEF k
    <3> QED
      BY <1>1, <2>1 DEF Framed
  <2> SUFFICES ASSUME t[i].cell = "head", NEW j \in 1..Len(t)
               PROVE  /\ i < j /\ j <= i + t[i].n => t[j].cell = "byte" /\ OfKind(t[i].op, t[j].n)
                      /\ j = i + t[i].n + 1 => t[j].cell = "head"
    BY <2>1, <2>2
  <2>3. t[j] = s[j + k] /\ j + k \in 1..Len(s)
    BY <1>2
  <2> DEFINE m == t[i].n
  <2>4. m \in Nat /\ s[i + k].n = m
    BY <2>1, <2>2
  <2>5. /\ i + k < j + k /\ j + k <= (i + k) + m
             => s[j + k].cell = "byte" /\ OfKind(t[i].op, s[j + k].n)
        /\ j + k = (i + k) + m + 1 => s[j + k].cell = "head"
    BY <2>1, <2>2, <2>3, <2>4
  <2> HIDE DEF m, k
  <2>6. /\ i < j => i + k < j + k
        /\ j <= i + m => j + k <= (i + k) + m
        /\ j = i + m + 1 => j + k = (i + k) + m + 1
    BY <1>1, <2>4
  <2> QED
    BY <2>3, <2>5, <2>6 DEF m
<1>5. Framed(t)
  BY <1>1, <1>3, <1>4 DEF Framed
<1>6. ASSUME Whole(s), NEW i \in 1..Len(t), t[i].cell = "head"
      PROVE  i + t[i].n <= Len(t)
  <2>1. t[i] = s[i + k] /\ i + k \in 1..Len(s)
    BY <1>2
  <2>2. (i + k) + s[i + k].n <= Len(s)
    <3> HIDE DEF k
    <3> QED
      BY <1>1, <1>6, <2>1 DEF Whole
  <2>3. t[i].n \in Int
    BY CellTypes DEF Behind
  <2> HIDE DEF k
  <2> QED
    BY <1>1, <2>1, <2>2, <2>3
<1> QED
  BY <1>1, <1>5, <1>6 DEF Whole

\* Order and range of the bytes are those of the longer sequence.
LEMMA BehindOrdered ==
  ASSUME NEW s, NEW t, NEW k, Behind(t, s, k)
  PROVE  /\ Ordered(s) => Ordered(t)
         /\ \A m, p : InRange(s, m, p) => InRange(t, m, p)
         /\ \A v : Before(v, s) => Before(v, t)
<1>1. /\ Len(s) \in Nat /\ Len(t) \in Nat /\ k \in Nat /\ Len(s) = Len(t) + k
      /\ DOMAIN s = 1..Len(s) /\ DOMAIN t = 1..Len(t)
  BY CellTypes DEF Behind
<1>2. \A i \in 1..Len(t) : t[i] = s[i + k] /\ i + k \in 1..Len(s)
  BY <1>1 DEF Behind
<1>3. \A i, j \in 1..Len(t) : i < j => i + k < j + k
  BY <1>1
<1>4. Ordered(s) => Ordered(t)
  BY <1>1, <1>2, <1>3 DEF Ordered, IsByte
<1>5. ASSUME NEW m, NEW p PROVE InRange(s, m, p) => InRange(t, m, p)
  BY <1>1, <1>2 DEF InRange, IsByte
<1>6. ASSUME NEW v PROVE Before(v, s) => Before(v, t)
  BY <1>1, <1>2 DEF Before, IsByte
<1> QED
  BY <1>4, <1>5, <1>6

\* What is left when the peer goes is as orderly as before, though no longer whole.
LEMMA BeginsKept ==
  ASSUME NEW s, NEW t, Begins(t, s)
  PROVE  /\ Framed(s) => Framed(t)
         /\ Ordered(s) => Ordered(t)
         /\ \A m, p : InRange(s, m, p) => InRange(t, m, p)
         /\ \A v : Before(v, s) => Before(v, t)
         /\ \A g, m : Numbered(s, g, m) => Numbered(t, g, m)
<1>1. /\ Len(s) \in Nat /\ Len(t) \in Nat /\ Len(t) <= Len(s)
      /\ DOMAIN s = 1..Len(s) /\ DOMAIN t = 1..Len(t)
  BY CellTypes DEF Begins
<1>2. \A i \in 1..Len(t) : t[i] = s[i] /\ i \in 1..Len(s)
  BY <1>1 DEF Begins
<1>3. Framed(s) => Framed(t)
  <2> SUFFICES ASSUME Framed(s) PROVE Framed(t)
    OBVIOUS
  <2>1. t # <<>> => t[1].cell = "head"
    <3>1. CASE Len(t) = 0
      BY <3>1 DEF Begins
    <3>2. CASE Len(t) > 0
      <4>1. 1 \in 1..Len(t) /\ 1 \in 1..Len(s)
        BY <1>1, <3>2
      <4>2. s # <<>>
        BY <1>1, <4>1
      <4> QED
        BY <1>2, <4>1, <4>2 DEF Framed
    <3> QED
      BY <1>1, <3>1, <3>2
  <2> QED
    BY <1>1, <1>2, <2>1 DEF Framed
<1>4. Ordered(s) => Ordered(t)
  BY <1>1, <1>2 DEF Ordered, IsByte
<1>5. ASSUME NEW m, NEW p PROVE InRange(s, m, p) => InRange(t, m, p)
  BY <1>1, <1>2 DEF InRange, IsByte
<1>6. ASSUME NEW v PROVE Before(v, s) => Before(v, t)
  BY <1>1, <1>2 DEF Before, IsByte
<1>7. ASSUME NEW g, NEW m, Numbered(s, g, m) PROVE Numbered(t, g, m)
  <2>1. ASSUME NEW i \in 1..Len(t)
        PROVE  /\ t[i].op # "continuation"
               /\ IsByte(t, i) /\ t[i].n > 0 =>
                    /\ g < t[i].n
                    /\ \/ t[i].n = g + 1
                       \/ \E j \in 1..Len(t) : j < i /\ IsByte(t, j) /\ t[j].n = t[i].n - 1
               /\ t[i].cell = "head" /\ t[i].op = "data" =>
                    \A j \in 1..Len(t) : i < j /\ j <= i + t[i].n => t[j].n = t[i + 1].n + (j - i - 1)
    <3>1. t[i] = s[i] /\ i \in 1..Len(s)
      BY <1>2
    <3>2. t[i].op # "continuation"
      BY <1>1, <1>7, <3>1 DEF Numbered
    <3>3. ASSUME IsByte(t, i), t[i].n > 0
          PROVE  /\ g < t[i].n
                 /\ \/ t[i].n = g + 1
                    \/ \E j \in 1..Len(t) : j < i /\ IsByte(t, j) /\ t[j].n = t[i].n - 1
      <4>1. IsByte(s, i) /\ s[i].n > 0
        BY <3>1, <3>3 DEF IsByte
      <4>2. /\ g < s[i].n
            /\ \/ s[i].n = g + 1
               \/ \E j \in 1..Len(s) : j < i /\ IsByte(s, j) /\ s[j].n = s[i].n - 1
        BY <1>1, <1>7, <3>1, <4>1 DEF Numbered
      <4>3. \A j \in 1..Len(s) : j < i => j \in 1..Len(t)
        BY <1>1
      <4> QED
        BY <1>2, <3>1, <4>2, <4>3 DEF IsByte
    <3>4. ASSUME t[i].cell = "head", t[i].op = "data", NEW j \in 1..Len(t), i < j, j <= i + t[i].n
          PROVE  t[j].n = t[i + 1].n + (j - i - 1)
      <4>1. i + 1 \in 1..Len(t)
        BY <1>1, <3>4
      <4>2. t[i + 1] = s[i + 1] /\ t[j] = s[j] /\ j \in 1..Len(s)
        BY <1>2, <4>1
      <4>3. s[j].n = s[i + 1].n + (j - i - 1)
        BY <1>1, <1>7, <3>1, <3>4, <4>2 DEF Numbered
      <4> QED
        BY <4>2, <4>3
    <3> QED
      BY <3>2, <3>3, <3>4
  <2>2. g <= m
    BY <1>7 DEF Numbered
  <2> QED
    BY <1>1, <2>1, <2>2 DEF Numbered
<1> QED
  BY <1>3, <1>4, <1>5, <1>6, <1>7

\* A frame behind whole frames.
LEMMA OneMoreFramed ==
  ASSUME NEW s, NEW t, NEW op, NEW n, OneMore(t, s, op, n), Framed(s), Whole(s),
         op = "ping" => n = 1, NewOfKind(t, s, op, n)
  PROVE  Framed(t) /\ Whole(t)
<1> DEFINE L == Len(s)
<1>1. /\ L \in Nat /\ n \in Nat /\ Len(t) \in Nat /\ Len(t) = L + 1 + n
      /\ DOMAIN s = 1..L /\ DOMAIN t = 1..Len(t) /\ op \in Opcodes
  BY CellTypes DEF OneMore
<1>2. \A i \in 1..L : t[i] = s[i] /\ i \in 1..Len(t)
  <2>1. \A i \in 1..L : t[i] = s[i]
    BY DEF OneMore
  <2>2. \A i \in 1..L : i \in 1..Len(t)
    BY <1>1
  <2> QED
    BY <2>1, <2>2
<1>3. /\ t[L + 1].cell = "head" /\ t[L + 1].op = op /\ t[L + 1].n = n
      /\ \A i \in 1..n : t[L + 1 + i].cell = "byte"
  <2>1. t[L + 1] = FrameHead(op, n) /\ \A i \in 1..n : t[L + 1 + i].cell = "byte"
    BY DEF OneMore
  <2> QED
    BY <2>1 DEF FrameHead
<1>4. \A i \in 1..n : OfKind(op, t[L + 1 + i].n)
  BY DEF NewOfKind
<1>5. \A j \in 1..Len(t) : j \in 1..L \/ j = L + 1 \/ \E i \in 1..n : j = L + 1 + i
  <2> SUFFICES ASSUME NEW j \in 1..Len(t), j \notin 1..L, j # L + 1
               PROVE  \E i \in 1..n : j = L + 1 + i
    OBVIOUS
  <2>1. j - L - 1 \in 1..n /\ j = L + 1 + (j - L - 1)
    BY <1>1
  <2> QED
    BY <2>1
<1> HIDE DEF L
<1>6. t # <<>> => t[1].cell = "head"
  <2>1. CASE L = 0
    BY <1>1, <1>3, <2>1
  <2>2. CASE L # 0
    <3>1. 1 \in 1..L
      BY <1>1, <2>2
    <3>2. s # <<>>
      BY <1>1, <2>2 DEF L
    <3> QED
      BY <1>2, <3>1, <3>2 DEF Framed
  <2> QED
    BY <2>1, <2>2
<1>7. ASSUME NEW i \in 1..L, s[i].cell = "head"
      PROVE  /\ s[i].op \in Opcodes /\ s[i].n \in Nat
             /\ s[i].op = "ping" => s[i].n = 1
             /\ i + s[i].n <= L
             /\ \A j \in 1..L :
                  /\ i < j /\ j <= i + s[i].n => s[j].cell = "byte" /\ OfKind(s[i].op, s[j].n)
                  /\ j = i + s[i].n + 1 => s[j].cell = "head"
  BY <1>1, <1>7 DEF Framed, Whole, L
<1>8. \A i \in 1..L : s[i].cell # "http"
  BY <1>1 DEF Framed
<1>9. ASSUME NEW i \in 1..Len(t)
      PROVE  /\ t[i].cell # "http"
             /\ t[i].cell = "head" =>
                  /\ t[i].op \in Opcodes /\ t[i].n \in Nat
                  /\ t[i].op = "ping" => t[i].n = 1
                  /\ i + t[i].n <= Len(t)
                  /\ \A j \in 1..Len(t) :
                       /\ i < j /\ j <= i + t[i].n => t[j].cell = "byte" /\ OfKind(t[i].op, t[j].n)
                       /\ j = i + t[i].n + 1 => t[j].cell = "head"
  <2>1. CASE i \in 1..L
    <3>1. t[i] = s[i]
      BY <1>2, <2>1
    <3> SUFFICES ASSUME t[i].cell = "head"
                 PROVE  /\ s[i].op \in Opcodes /\ s[i].n \in Nat
                        /\ s[i].op = "ping" => s[i].n = 1
                        /\ i + s[i].n <= Len(t)
                        /\ \A j \in 1..Len(t) :
                             /\ i < j /\ j <= i + s[i].n => t[j].cell = "byte" /\ OfKind(s[i].op, t[j].n)
                             /\ j = i + s[i].n + 1 => t[j].cell = "head"
      BY <1>8, <2>1, <3>1
    <3>2. /\ s[i].op \in Opcodes /\ s[i].n \in Nat
          /\ s[i].op = "ping" => s[i].n = 1
          /\ i + s[i].n <= L
      BY <1>7, <2>1, <3>1
    <3> DEFINE m == s[i].n
    <3>3. m \in Nat /\ i + m <= L /\ i + m <= Len(t)
      <4> HIDE DEF m
      <4>1. m \in Nat /\ i + m <= L
        BY <3>2 DEF m
      <4> QED
        BY <1>1, <2>1, <4>1
    <3>4. ASSUME NEW j \in 1..Len(t)
          PROVE  /\ i < j /\ j <= i + m => t[j].cell = "byte" /\ OfKind(s[i].op, t[j].n)
                 /\ j = i + m + 1 => t[j].cell = "head"
      <4>1. CASE j \in 1..L
        <5>1. t[j] = s[j]
          BY <1>2, <4>1
        <5> QED
          BY <1>7, <2>1, <3>1, <4>1, <5>1
      <4>2. CASE j \notin 1..L
        <5>1. ~(j <= i + m) /\ (j = i + m + 1 => j = L + 1)
          <6> HIDE DEF m
          <6> QED
            BY <1>1, <2>1, <3>3, <4>2
        <5> QED
          BY <1>3, <5>1
      <4> QED
        BY <4>1, <4>2
    <3> QED
      BY <3>2, <3>3, <3>4
  <2>2. CASE i = L + 1
    <3>1. ASSUME NEW j \in 1..Len(t)
          PROVE  /\ i < j /\ j <= i + n => t[j].cell = "byte" /\ OfKind(op, t[j].n)
                 /\ j # i + n + 1
      <4>1. j # i + n + 1
        BY <1>1, <2>2
      <4>2. i < j => ~(j \in 1..L) /\ j # L + 1
        BY <1>1, <2>2
      <4> QED
        BY <1>3, <1>4, <1>5, <4>1, <4>2
    <3>2. i + n <= Len(t)
      BY <1>1, <2>2
    <3> QED
      BY <1>1, <1>3, <2>2, <3>1, <3>2
  <2>3. CASE \E k \in 1..n : i = L + 1 + k
    BY <1>3, <2>3
  <2> QED
    BY <1>5, <2>1, <2>2, <2>3
<1> QED
  BY <1>1, <1>6, <1>9 DEF Framed, Whole

\* The bytes of the new frame come after all others of their kind.
LEMMA OneMoreOrdered ==
  ASSUME NEW s, NEW t, NEW op, NEW n, OneMore(t, s, op, n), NEW m \in Nat, NEW p \in Nat,
         NEW m1 \in Nat, NEW p1 \in Nat, m <= m1, p <= p1,
         Ordered(s), InRange(s, m, p), NewInOrder(t, s, n, m, p, m1, p1)
  PROVE  Ordered(t) /\ InRange(t, m1, p1)
<1> DEFINE L == Len(s)
           V(i) == t[L + 1 + i].n
<1>1. /\ L \in Nat /\ n \in Nat /\ Len(t) \in Nat /\ Len(t) = L + 1 + n
      /\ DOMAIN s = 1..L /\ DOMAIN t = 1..Len(t)
  BY CellTypes DEF OneMore
<1>2. \A i \in 1..L : t[i] = s[i] /\ i \in 1..Len(t) /\ s[i].n \in Int
  <2>1. \A i \in 1..L : t[i] = s[i] /\ s[i].n \in Int
    BY CellTypes DEF OneMore
  <2>2. \A i \in 1..L : i \in 1..Len(t)
    BY <1>1
  <2> QED
    BY <2>1, <2>2
<1>3. t[L + 1].cell = "head" /\ \A i \in 1..n : V(i) \in Int
  <2>1. \A i \in 1..n : L + 1 + i \in 1..Len(t)
    BY <1>1
  <2>2. \A i \in 1..Len(t) : t[i].n \in Int
    BY CellTypes DEF OneMore
  <2>3. t[L + 1] = FrameHead(op, n)
    BY DEF OneMore
  <2>4. t[L + 1].cell = "head"
    BY <2>3 DEF FrameHead
  <2> QED
    BY <2>1, <2>2, <2>4
<1>4. \A j \in 1..Len(t) : j \in 1..L \/ j = L + 1 \/ \E i \in 1..n : j = L + 1 + i
  <2> SUFFICES ASSUME NEW j \in 1..Len(t), j \notin 1..L, j # L + 1
               PROVE  \E i \in 1..n : j = L + 1 + i
    OBVIOUS
  <2>1. j - L - 1 \in 1..n /\ j = L + 1 + (j - L - 1)
    BY <1>1
  <2> QED
    BY <2>1
<1>5. \A i \in 1..n : /\ V(i) > 0 => m < V(i) /\ V(i) <= m1
                      /\ V(i) < 0 => V(i) < 0 - p /\ 0 - p1 <= V(i)
  BY DEF NewInOrder
<1>6. \A i, j \in 1..n : i < j => /\ V(i) > 0 /\ V(j) > 0 => V(i) < V(j)
                                  /\ V(i) < 0 /\ V(j) < 0 => V(i) > V(j)
  BY DEF NewInOrder
<1>7. \A i \in 1..L : IsByte(s, i) => 0 - p <= s[i].n /\ s[i].n <= m
  BY <1>1 DEF InRange
<1> HIDE DEF L
<1>8. ASSUME NEW j \in 1..Len(t), IsByte(t, j)
      PROVE  \/ j \in 1..L /\ t[j] = s[j] /\ IsByte(s, j)
             \/ \E i \in 1..n : j = L + 1 + i
  <2>1. t[L + 1].cell # "byte"
    BY <1>3
  <2> QED
    BY <1>2, <1>4, <1>8, <2>1 DEF IsByte
<1>9. InRange(t, m1, p1)
  <2> SUFFICES ASSUME NEW j \in 1..Len(t), IsByte(t, j)
               PROVE  0 - p1 <= t[j].n /\ t[j].n <= m1
    BY <1>1 DEF InRange
  <2>1. CASE j \in 1..L /\ t[j] = s[j] /\ IsByte(s, j)
    <3>1. s[j].n \in Int /\ 0 - p <= s[j].n /\ s[j].n <= m
      BY <1>2, <1>7, <2>1
    <3> QED
      BY <2>1, <3>1
  <2>2. CASE \E i \in 1..n : j = L + 1 + i
    <3>1. PICK i \in 1..n : j = L + 1 + i
      BY <2>2
    <3>2. t[j].n = V(i)
      BY <3>1
    <3>3. V(i) \in Int /\ (V(i) > 0 => V(i) <= m1) /\ (V(i) < 0 => 0 - p1 <= V(i))
      BY <1>3, <1>5
    <3> HIDE DEF V
    <3> QED
      BY <3>2, <3>3
  <2> QED
    BY <1>8, <2>1, <2>2
<1>10. Ordered(t)
  <2> SUFFICES ASSUME NEW i \in 1..Len(t), NEW j \in 1..Len(t), i < j, IsByte(t, i), IsByte(t, j)
               PROVE  /\ t[i].n > 0 /\ t[j].n > 0 => t[i].n < t[j].n
                      /\ t[i].n < 0 /\ t[j].n < 0 => t[i].n > t[j].n
    BY <1>1 DEF Ordered
  <2>1. CASE j \in 1..L /\ t[j] = s[j] /\ IsByte(s, j)
    <3>1. i \in 1..L
      BY <1>1, <2>1
    <3>2. t[i] = s[i] /\ IsByte(s, i)
      BY <1>2, <3>1 DEF IsByte
    <3> QED
      BY <1>1, <2>1, <3>1, <3>2 DEF Ordered
  <2>2. CASE \E k \in 1..n : j = L + 1 + k
    <3>1. PICK k \in 1..n : j = L + 1 + k
      BY <2>2
    <3>2. t[j].n = V(k)
      BY <3>1
    <3>3. CASE i \in 1..L /\ t[i] = s[i] /\ IsByte(s, i)
      <4>1. s[i].n \in Int /\ 0 - p <= s[i].n /\ s[i].n <= m
        BY <1>2, <1>7, <3>3
      <4>2. V(k) \in Int /\ (V(k) > 0 => m < V(k)) /\ (V(k) < 0 => V(k) < 0 - p)
        BY <1>3, <1>5
      <4> HIDE DEF V
      <4> QED
        BY <3>2, <3>3, <4>1, <4>2
    <3>4. CASE \E l \in 1..n : i = L + 1 + l
      <4>1. PICK l \in 1..n : i = L + 1 + l
        BY <3>4
      <4>2. t[i].n = V(l) /\ l < k
        BY <1>1, <3>1, <4>1
      <4> QED
        BY <1>6, <3>2, <4>2
    <3> QED
      BY <1>8, <3>3, <3>4
  <2> QED
    BY <1>8, <2>1, <2>2
<1> QED
  BY <1>9, <1>10

\* What is behind the bytes up to number g1 goes on from there.
LEMMA BehindNumbered ==
  ASSUME NEW s, NEW t, NEW k \in Nat, Behind(t, s, k), NEW g \in Nat, NEW m \in Nat, NEW g1 \in Nat,
         g <= g1, g1 <= m,
         \A j \in 1..k : IsByte(s, j) => s[j].n <= g1,
         \A j \in (k + 1)..Len(s) : IsByte(s, j) /\ s[j].n > 0 => g1 < s[j].n,
         Numbered(s, g, m)
  PROVE  Numbered(t, g1, m) /\ (Complete(s, g, m) => Complete(t, g1, m))
<1>1. /\ Len(s) \in Nat /\ Len(t) \in Nat /\ Len(s) = Len(t) + k
      /\ DOMAIN s = 1..Len(s) /\ DOMAIN t = 1..Len(t)
  BY CellTypes DEF Behind
<1>2. \A i \in 1..Len(t) : t[i] = s[i + k] /\ i + k \in 1..Len(s) /\ i + k \in (k + 1)..Len(s)
  <2>1. \A i \in 1..Len(t) : t[i] = s[i + k]
    BY DEF Behind
  <2>2. \A i \in 1..Len(t) : i + k \in 1..Len(s) /\ i + k \in (k + 1)..Len(s)
    BY <1>1
  <2> QED
    BY <2>1, <2>2
<1>3. \A j \in 1..Len(s) : s[j].n \in Int
  BY CellTypes DEF Behind
<1>4. \A j \in 1..Len(s) : j \in 1..k \/ (j - k \in 1..Len(t) /\ (j - k) + k = j)
  BY <1>1
<1>5. ASSUME NEW i \in 1..Len(t)
      PROVE  /\ t[i].op # "continuation"
             /\ IsByte(t, i) /\ t[i].n > 0 =>
                  /\ g1 < t[i].n
                  /\ \/ t[i].n = g1 + 1
                     \/ \E j \in 1..Len(t) : j < i /\ IsByte(t, j) /\ t[j].n = t[i].n - 1
             /\ t[i].cell = "head" /\ t[i].op = "data" =>
                  \A j \in 1..Len(t) : i < j /\ j <= i + t[i].n => t[j].n = t[i + 1].n + (j - i - 1)
  <2>1. t[i] = s[i + k] /\ i + k \in 1..Len(s) /\ i + k \in (k + 1)..Len(s)
    BY <1>2
  <2>2. t[i].op # "continuation"
    BY <1>1, <2>1 DEF Numbered
  <2>3. ASSUME IsByte(t, i), t[i].n > 0
        PROVE  /\ g1 < t[i].n
               /\ \/ t[i].n = g1 + 1
                  \/ \E j \in 1..Len(t) : j < i /\ IsByte(t, j) /\ t[j].n = t[i].n - 1
    <3> DEFINE v == s[i + k].n
    <3>1. IsByte(s, i + k) /\ v > 0 /\ t[i].n = v /\ v \in Int
      BY <1>3, <2>1, <2>3 DEF IsByte
    <3>2. g1 < v
      BY <2>1, <3>1
    <3>3. \/ v = g + 1
          \/ \E j \in 1..Len(s) : j < i + k /\ IsByte(s, j) /\ s[j].n = v - 1
      BY <1>1, <2>1, <3>1 DEF Numbered
    <3> HIDE DEF v
    <3>4. CASE v = g + 1
      <4>1. g < v /\ g1 < v
        BY <3>2, <3>4
      <4>2. v = g1 + 1
        BY <3>2, <3>4
      <4> QED
        BY <3>1, <3>2, <4>2
    <3>5. ASSUME NEW j \in 1..Len(s), j < i + k, IsByte(s, j), s[j].n = v - 1
          PROVE  v = g1 + 1 \/ \E l \in 1..Len(t) : l < i /\ IsByte(t, l) /\ t[l].n = v - 1
      <4>1. CASE j \in 1..k
        <5>1. v - 1 <= g1
          BY <3>5, <4>1
        <5>2. v \in Int
          BY <3>1
        <5>3. v = g1 + 1
          BY <3>2, <5>1, <5>2
        <5> QED
          BY <5>3
      <4>2. CASE j \notin 1..k
        <5> DEFINE l == j - k
        <5>1. l \in 1..Len(t) /\ l + k = j /\ l < i
          BY <1>4, <3>5, <4>2
        <5>2. t[l] = s[j]
          BY <1>2, <5>1
        <5> QED
          BY <3>5, <5>1, <5>2 DEF IsByte
      <4> QED
        BY <4>1, <4>2
    <3> QED
      BY <3>1, <3>2, <3>3, <3>4, <3>5
  <2>4. ASSUME t[i].cell = "head", t[i].op = "data", NEW j \in 1..Len(t), i < j, j <= i + t[i].n
        PROVE  t[j].n = t[i + 1].n + (j - i - 1)
    <3>1. i + 1 \in 1..Len(t) /\ (i + 1) + k = (i + k) + 1
      BY <1>1, <2>4
    <3>2. t[i + 1] = s[(i + k) + 1] /\ t[j] = s[j + k] /\ j + k \in 1..Len(s)
      BY <1>2, <3>1
    <3>3. i + k < j + k /\ (j + k) - (i + k) - 1 = j - i - 1
      BY <1>1, <2>4
    <3> DEFINE c == s[i + k].n
    <3>4. c \in Int /\ t[i].n = c
      BY <1>3, <2>1
    <3>5. j + k <= (i + k) + c
      <4> HIDE DEF c
      <4> QED
        BY <2>4, <3>4
    <3>6. s[j + k].n = s[(i + k) + 1].n + ((j + k) - (i + k) - 1)
      BY <1>1, <2>1, <2>4, <3>2, <3>3, <3>5 DEF Numbered
    <3> QED
      BY <3>2, <3>3, <3>6
  <2> QED
    BY <2>2, <2>3, <2>4
<1>6. Numbered(t, g1, m)
  BY <1>1, <1>5 DEF Numbered
<1>7. ASSUME Complete(s, g, m) PROVE Complete(t, g1, m)
  <2>1. CASE m = g
    BY <2>1 DEF Complete
  <2>2. ASSUME NEW j \in 1..Len(s), IsByte(s, j), s[j].n = m
        PROVE  Complete(t, g1, m)
    <3>1. CASE j \in 1..k
      <4>1. m <= g1
        BY <2>2, <3>1
      <4> QED
        BY <4>1 DEF Complete
    <3>2. CASE j \notin 1..k
      <4>1. j - k \in 1..Len(t) /\ t[j - k] = s[j]
        BY <1>2, <1>4, <3>2
      <4> QED
        BY <1>1, <2>2, <4>1 DEF Complete, IsByte
    <3> QED
      BY <3>1, <3>2
  <2> QED
    BY <1>1, <1>7, <2>1, <2>2 DEF Complete
<1> QED
  BY <1>6, <1>7

\* The bytes of the first frame, as far as they are there, are the next ones.
LEMMA FirstData ==
  ASSUME NEW s \in Seq(Cells), NEW n \in Nat, Framed(s), s # <<>>,
         s[1].cell = "head", s[1].op = "data", s[1].n = n,
         NEW g \in Nat, NEW m \in Nat, NEW p \in Nat, Numbered(s, g, m), InRange(s, m, p),
         NEW i \in 1..n, i + 1 <= Len(s)
  PROVE  IsByte(s, i + 1) /\ s[i + 1].n = g + i /\ g + i <= m
<1>1. /\ Len(s) \in Nat /\ DOMAIN s = 1..Len(s) /\ 1 \in 1..Len(s) /\ 2 \in 1..Len(s)
      /\ i + 1 \in 1..Len(s)
  BY CellTypes
<1>2. 1 < 2 /\ 2 <= 1 + n /\ 1 < i + 1 /\ i + 1 <= 1 + n
  OBVIOUS
<1>3. IsByte(s, 2) /\ s[2].n > 0 /\ IsByte(s, i + 1)
  BY <1>1, <1>2 DEF Framed, OfKind, IsByte
<1>4. s[2].n = g + 1
  <2>1. \/ s[2].n = g + 1
        \/ \E j \in 1..Len(s) : j < 2 /\ IsByte(s, j) /\ s[j].n = s[2].n - 1
    BY <1>1, <1>3 DEF Numbered
  <2>2. \A j \in 1..Len(s) : j < 2 => j = 1
    BY <1>1
  <2> QED
    BY <2>1, <2>2 DEF IsByte
<1>5. s[i + 1].n = s[1 + 1].n + ((i + 1) - 1 - 1)
  BY <1>1, <1>2 DEF Numbered
<1>6. 1 + 1 = 2 /\ (g + 1) + ((i + 1) - 1 - 1) = g + i
  OBVIOUS
<1>7. s[i + 1].n = g + i
  BY <1>4, <1>5, <1>6
<1>8. s[i + 1].n <= m
  BY <1>1, <1>3 DEF InRange
<1> QED
  BY <1>3, <1>7, <1>8

\* When a message has been read, the next one follows.
LEMMA DataRead ==
  ASSUME NEW s, NEW t, NEW n \in Nat, Behind(t, s, n + 1), Framed(s), Ordered(s),
         s[1].cell = "head", s[1].op = "data", s[1].n = n,
         NEW g \in Nat, NEW m \in Nat, NEW p \in Nat, Numbered(s, g, m), InRange(s, m, p)
  PROVE  /\ g + n <= m /\ Numbered(t, g + n, m)
         /\ Complete(s, g, m) => Complete(t, g + n, m)
<1> DEFINE k == n + 1
           g1 == g + n
<1>1. /\ s \in Seq(Cells) /\ Len(s) \in Nat /\ Len(t) \in Nat /\ Len(s) = Len(t) + k
      /\ DOMAIN s = 1..Len(s)
  BY CellTypes DEF Behind
<1>2. s # <<>>
  BY <1>1
<1>3. \A i \in 1..n : IsByte(s, i + 1) /\ s[i + 1].n = g + i /\ g + i <= m
  <2> SUFFICES ASSUME NEW i \in 1..n
               PROVE  IsByte(s, i + 1) /\ s[i + 1].n = g + i /\ g + i <= m
    OBVIOUS
  <2>1. i + 1 <= Len(s)
    BY <1>1
  <2>2. s \in Seq(Cells)
    BY <1>1
  <2> HIDE DEF k
  <2> QED
    BY <1>2, <2>1, <2>2, FirstData
<1>4. g <= m
  BY DEF Numbered
<1>5. g1 \in Nat /\ g <= g1 /\ g1 <= m /\ k \in Nat
  <2>1. n = 0 \/ n \in 1..n
    OBVIOUS
  <2> QED
    BY <1>3, <1>4, <2>1
<1>6. ASSUME NEW j \in 1..k, IsByte(s, j) PROVE s[j].n <= g1
  <2>1. j # 1
    BY <1>6 DEF IsByte
  <2>2. j - 1 \in 1..n /\ (j - 1) + 1 = j
    BY <2>1
  <2>3. s[j].n = g + (j - 1)
    BY <1>3, <2>2
  <2> QED
    BY <2>2, <2>3
<1>7. ASSUME NEW j \in (k + 1)..Len(s), IsByte(s, j), s[j].n > 0 PROVE g1 < s[j].n
  <2>1. j \in 1..Len(s) /\ k \in 1..Len(s) /\ k < j
    BY <1>1
  <2>2. CASE n = 0
    BY <1>1, <1>7, <2>1, <2>2 DEF Numbered
  <2>3. CASE n # 0
    <3>1. n \in 1..n
      BY <2>3
    <3>2. IsByte(s, k) /\ s[k].n = g1 /\ g1 > 0
      BY <1>3, <3>1
    <3> HIDE DEF k, g1
    <3> QED
      BY <1>1, <1>7, <2>1, <3>2 DEF Ordered
  <2> QED
    BY <2>2, <2>3
<1> HIDE DEF k, g1
<1>8. Behind(t, s, k)
  BY DEF k
<1>9. Numbered(t, g1, m) /\ (Complete(s, g, m) => Complete(t, g1, m))
  BY <1>5, <1>6, <1>7, <1>8, BehindNumbered
<1> QED
  BY <1>5, <1>9 DEF g1

\* What is no data does not count.
LEMMA OthersSkipped ==
  ASSUME NEW s, NEW t, NEW n \in Nat, Behind(t, s, n + 1), Framed(s),
         s[1].cell = "head", s[1].op \in {"ping", "pong"}, s[1].n = n,
         NEW g \in Nat, NEW m \in Nat, Numbered(s, g, m)
  PROVE  Numbered(t, g, m) /\ (Complete(s, g, m) => Complete(t, g, m))
<1> DEFINE k == n + 1
<1>1. /\ s \in Seq(Cells) /\ Len(s) \in Nat /\ Len(t) \in Nat /\ Len(s) = Len(t) + k /\ k \in Nat
      /\ DOMAIN s = 1..Len(s)
  BY CellTypes DEF Behind
<1>2. g <= m
  BY DEF Numbered
<1>3. ASSUME NEW j \in 1..k, IsByte(s, j) PROVE s[j].n <= g
  <2>1. j # 1
    BY <1>3 DEF IsByte
  <2>2. 1 \in 1..Len(s) /\ j \in 1..Len(s) /\ 1 < j /\ j <= 1 + n
    BY <1>1, <2>1
  <2>3. OfKind(s[1].op, s[j].n)
    BY <1>1, <2>2 DEF Framed
  <2>4. s[j].n \in Int
    BY <1>1, <2>2, CellTypes
  <2> QED
    BY <2>3, <2>4 DEF OfKind
<1>4. ASSUME NEW j \in (k + 1)..Len(s), IsByte(s, j), s[j].n > 0 PROVE g < s[j].n
  <2>1. j \in 1..Len(s)
    BY <1>1
  <2> QED
    BY <1>1, <1>4, <2>1 DEF Numbered
<1> HIDE DEF k
<1>5. Behind(t, s, k)
  BY DEF k
<1> QED
  BY <1>1, <1>2, <1>3, <1>4, <1>5, BehindNumbered

\* A frame that is sent has the numbers that are next.
LEMMA OneMoreNumbered ==
  ASSUME NEW s, NEW t, NEW op, NEW n, OneMore(t, s, op, n), Whole(s), op # "continuation",
         NEW g \in Nat, NEW m \in Nat, NEW m1 \in Nat, Numbered(s, g, m), Complete(s, g, m),
         NewAreNext(t, s, op, n, m, m1)
  PROVE  Numbered(t, g, m1) /\ Complete(t, g, m1)
<1> DEFINE L == Len(s)
<1>1. /\ L \in Nat /\ n \in Nat /\ Len(t) \in Nat /\ Len(t) = L + 1 + n
      /\ DOMAIN s = 1..L /\ DOMAIN t = 1..Len(t) /\ s \in Seq(Cells)
  BY CellTypes DEF OneMore
<1>2. \A i \in 1..L : t[i] = s[i] /\ i \in 1..Len(t) /\ s[i].n \in Int
  <2>1. \A i \in 1..L : t[i] = s[i] /\ s[i].n \in Int
    BY CellTypes DEF OneMore
  <2>2. \A i \in 1..L : i \in 1..Len(t)
    BY <1>1
  <2> QED
    BY <2>1, <2>2
<1>3. /\ t[L + 1].cell = "head" /\ t[L + 1].op = op /\ t[L + 1].n = n
      /\ \A i \in 1..n : IsByte(t, L + 1 + i) /\ t[L + 1 + i].op = ""
  <2>1. t[L + 1] = FrameHead(op, n)
        /\ \A i \in 1..n : t[L + 1 + i].cell = "byte" /\ t[L + 1 + i].op = ""
    BY DEF OneMore
  <2>2. t[L + 1].cell = "head" /\ t[L + 1].op = op /\ t[L + 1].n = n
    <3>1. t[L + 1] = [cell |-> "head", op |-> op, n |-> n]
      BY <2>1 DEF FrameHead
    <3> HIDE DEF L
    <3> QED
      BY <3>1
  <2>3. \A i \in 1..n : IsByte(t, L + 1 + i)
    BY <2>1 DEF IsByte
  <2> QED
    BY <2>1, <2>2, <2>3
<1>4. \A j \in 1..Len(t) : j \in 1..L \/ j = L + 1 \/ \E i \in 1..n : j = L + 1 + i
  <2> SUFFICES ASSUME NEW j \in 1..Len(t), j \notin 1..L, j # L + 1
               PROVE  \E i \in 1..n : j = L + 1 + i
    OBVIOUS
  <2>1. j - L - 1 \in 1..n /\ j = L + 1 + (j - L - 1)
    BY <1>1
  <2> QED
    BY <2>1
<1>5. /\ op = "data" => m1 = m + n /\ \A i \in 1..n : t[L + 1 + i].n = m + i
      /\ op # "data" => m1 = m /\ \A i \in 1..n : t[L + 1 + i].n <= 0
  BY DEF NewAreNext
<1>6. g <= m /\ (m = g \/ \E i \in 1..L : IsByte(s, i) /\ s[i].n = m)
  BY <1>1 DEF Numbered, Complete
<1>7. ASSUME NEW i \in 1..L
      PROVE  /\ s[i].op # "continuation"
             /\ IsByte(s, i) /\ s[i].n > 0 =>
                  /\ g < s[i].n
                  /\ \/ s[i].n = g + 1
                     \/ \E j \in 1..L : j < i /\ IsByte(s, j) /\ s[j].n = s[i].n - 1
             /\ s[i].cell = "head" => i + s[i].n <= L
             /\ s[i].cell = "head" /\ s[i].op = "data" =>
                  \A j \in 1..L : i < j /\ j <= i + s[i].n => s[j].n = s[i + 1].n + (j - i - 1)
  BY <1>1 DEF Numbered, Whole
<1> HIDE DEF L
<1>8. ASSUME NEW i \in 1..Len(t) PROVE t[i].op # "continuation"
  BY <1>2, <1>3, <1>4, <1>7
<1>9. ASSUME NEW i \in 1..Len(t), IsByte(t, i), t[i].n > 0
      PROVE  /\ g < t[i].n
             /\ \/ t[i].n = g + 1
                \/ \E j \in 1..Len(t) : j < i /\ IsByte(t, j) /\ t[j].n = t[i].n - 1
  <2>1. CASE i \in 1..L
    <3>1. t[i] = s[i] /\ IsByte(s, i)
      BY <1>2, <1>9, <2>1 DEF IsByte
    <3> QED
      BY <1>2, <1>7, <1>9, <2>1, <3>1 DEF IsByte
  <2>2. CASE i = L + 1
    BY <1>3, <1>9, <2>2 DEF IsByte
  <2>3. ASSUME NEW k \in 1..n, i = L + 1 + k
        PROVE  /\ g < t[i].n
               /\ \/ t[i].n = g + 1
                  \/ \E j \in 1..Len(t) : j < i /\ IsByte(t, j) /\ t[j].n = t[i].n - 1
    <3>1. op = "data" /\ t[i].n = m + k
      <4>1. op # "data" => t[i].n <= 0
        BY <1>5, <2>3
      <4>2. op # "data" => FALSE
        <5> SUFFICES ASSUME op # "data" PROVE FALSE
          OBVIOUS
        <5>1. t[i].n <= 0 /\ t[i].n > 0
          BY <1>9, <4>1
        <5>2. t[i].n \in Int
          BY CellTypes DEF OneMore
        <5> QED
          BY <5>1, <5>2
      <4> QED
        BY <1>5, <2>3, <4>2
    <3>2. g < t[i].n
      BY <1>6, <3>1
    <3>3. CASE k = 1
      <4>1. CASE m = g
        BY <3>1, <3>3, <4>1
      <4>2. ASSUME NEW j \in 1..L, IsByte(s, j), s[j].n = m
            PROVE  \E l \in 1..Len(t) : l < i /\ IsByte(t, l) /\ t[l].n = t[i].n - 1
        <5>1. t[j] = s[j] /\ j \in 1..Len(t) /\ j < i
          BY <1>1, <1>2, <2>3
        <5>2. t[j].n = t[i].n - 1
          BY <3>1, <3>3, <4>2, <5>1
        <5> QED
          BY <4>2, <5>1, <5>2 DEF IsByte
      <4> QED
        BY <1>6, <3>2, <4>1, <4>2
    <3>4. CASE k # 1
      <4> DEFINE l == k - 1
                 j == L + 1 + l
      <4>1. l \in 1..n /\ j \in 1..Len(t) /\ j < i
        BY <1>1, <2>3, <3>4
      <4>2. IsByte(t, j) /\ t[j].n = m + l
        BY <1>3, <1>5, <3>1, <4>1
      <4>3. m + l = (m + k) - 1
        OBVIOUS
      <4> QED
        BY <3>1, <3>2, <4>1, <4>2, <4>3
    <3> QED
      BY <3>3, <3>4
  <2> QED
    BY <1>4, <2>1, <2>2, <2>3
<1>10. ASSUME NEW i \in 1..Len(t), t[i].cell = "head", t[i].op = "data",
              NEW j \in 1..Len(t), i < j, j <= i + t[i].n
       PROVE  t[j].n = t[i + 1].n + (j - i - 1)
  <2>1. CASE i \in 1..L
    <3>1. t[i] = s[i] /\ s[i].n \in Int /\ i + s[i].n <= L
      BY <1>2, <1>7, <1>10, <2>1
    <3> DEFINE c == s[i].n
    <3>2. j \in 1..L /\ i + 1 \in 1..L
      <4>1. c \in Int /\ i + c <= L /\ j <= i + c
        BY <1>10, <3>1
      <4> HIDE DEF c
      <4> QED
        BY <1>1, <1>10, <4>1
    <3>3. t[j] = s[j] /\ t[i + 1] = s[i + 1]
      BY <1>2, <3>2
    <3> QED
      BY <1>7, <1>10, <2>1, <3>1, <3>2, <3>3
  <2>2. CASE i = L + 1
    <3>1. op = "data" /\ j <= L + 1 + n
      BY <1>3, <1>10, <2>2
    <3>2. PICK k \in 1..n : j = L + 1 + k
      BY <1>1, <1>4, <1>10, <2>2
    <3>3. 1 \in 1..n /\ i + 1 = L + 1 + 1 /\ j - i - 1 = k - 1
      BY <1>1, <2>2, <3>2
    <3>4. t[j].n = m + k /\ t[i + 1].n = m + 1
      BY <1>5, <3>1, <3>2, <3>3
    <3>5. m + k = (m + 1) + (k - 1)
      OBVIOUS
    <3> QED
      BY <3>3, <3>4, <3>5
  <2>3. CASE \E k \in 1..n : i = L + 1 + k
    BY <1>3, <1>10, <2>3 DEF IsByte
  <2> QED
    BY <1>4, <2>1, <2>2, <2>3
<1>11. g <= m1
  BY <1>1, <1>5, <1>6
<1>12. Numbered(t, g, m1)
  BY <1>1, <1>8, <1>9, <1>10, <1>11 DEF Numbered
<1>13. Complete(t, g, m1)
  <2>1. CASE m1 = m
    <3>1. CASE m = g
      BY <2>1, <3>1 DEF Complete
    <3>2. ASSUME NEW i \in 1..L, IsByte(s, i), s[i].n = m PROVE Complete(t, g, m1)
      BY <1>1, <1>2, <2>1, <3>2 DEF Complete, IsByte
    <3> QED
      BY <1>6, <3>1, <3>2
  <2>2. CASE m1 # m
    <3>1. op = "data" /\ m1 = m + n /\ n # 0
      BY <1>5, <2>2
    <3>2. n \in 1..n /\ L + 1 + n \in 1..Len(t)
      BY <1>1, <3>1
    <3>3. IsByte(t, L + 1 + n) /\ t[L + 1 + n].n = m1
      BY <1>3, <1>5, <3>1, <3>2
    <3> QED
      BY <1>1, <3>2, <3>3 DEF Complete
  <2> QED
    BY <2>1, <2>2
<1> QED
  BY <1>12, <1>13

-----------------------------------------------------------------------------
(* The parts of the invariant that a step leaves alone                       *)

\* A ping that was sent stays one that was sent.
LEMMA PingRange ==
  ASSUME NEW p \in Nat, NEW q \in Nat, p <= q
  PROVE  \A v \in (0 - p)..(0 - 1) : v \in (0 - q)..(0 - 1)
OBVIOUS

\* The pongs stay in order while no other is written, whatever comes behind the
\* pings that have been read.
LEMMA PongsKept ==
  ASSUME WsInv, UNCHANGED <<out, ping>>, pings' \in Nat, pings <= pings',
         reader' = "ponging" => reader = "ponging" /\ stage' = "open",
         reader' \in {"reading", "ponging"} =>
           /\ reader \in {"reading", "ponging"}
           /\ \A v \in (0 - pings)..(0 - 1) : Before(v, in) => Before(v, in')
  PROVE  PongsInOrder'
<1>1. pings \in Nat /\ \A v \in (0 - pings)..(0 - 1) : v \in (0 - pings')..(0 - 1)
  <2>1. pings \in Nat
    BY DEF WsInv, TypeOK
  <2> QED
    BY <2>1, PingRange
<1>2. \A k \in 1..pings : k \in 1..pings'
  BY <1>1
<1>3. PongsInOrder
  BY DEF WsInv
<1>4. reader' = "ponging" => \E v \in (0 - pings')..(0 - 1) : ping' = <<v>> /\ Before(v, in')
  <2> SUFFICES ASSUME reader' = "ponging"
               PROVE  \E v \in (0 - pings')..(0 - 1) : ping' = <<v>> /\ Before(v, in')
    OBVIOUS
  <2>1. PICK v \in (0 - pings)..(0 - 1) : ping = <<v>> /\ Before(v, in)
    BY <1>3 DEF PongsInOrder
  <2>2. v \in (0 - pings')..(0 - 1) /\ Before(v, in')
    BY <1>1, <2>1
  <2> QED
    BY <2>1, <2>2
<1>5. ASSUME NEW i \in DOMAIN out', out'[i].op = "pong"
      PROVE  /\ \E v \in (0 - pings')..(0 - 1) : out'[i].data = <<v>>
             /\ reader' \in {"reading", "ponging"} => Before(out'[i].data[1], in')
             /\ reader' = "ponging" => ping'[1] < out'[i].data[1]
  <2>1. /\ \E v \in (0 - pings)..(0 - 1) : out[i].data = <<v>>
        /\ reader \in {"reading", "ponging"} => Before(out[i].data[1], in)
        /\ reader = "ponging" => ping[1] < out[i].data[1]
    BY <1>3, <1>5 DEF PongsInOrder
  <2>2. PICK v \in (0 - pings)..(0 - 1) : out[i].data = <<v>>
    BY <2>1
  <2>3. out[i].data[1] = v
    BY <2>2
  <2>4. reader' \in {"reading", "ponging"} => Before(v, in')
    BY <2>1, <2>2, <2>3
  <2> QED
    BY <1>1, <2>1, <2>2, <2>3, <2>4
<1>6. PongsEchoPings'
  <2>1. PongsEchoPings
    BY <1>3 DEF PongsInOrder
  <2> QED
    BY <1>2, <2>1 DEF PongsEchoPings
<1>7. out' \in Seq(OutFrames)
  BY <1>3 DEF PongsInOrder
<1> QED
  BY <1>4, <1>5, <1>6, <1>7 DEF PongsInOrder

\* What comes after the pings that were read stays so.
LEMMA NothingComes ==
  ASSUME WsInv, UNCHANGED <<out, ping, in, pings, stage>>, reader' = reader
  PROVE  PongsInOrder'
BY PongsKept DEF WsInv, TypeOK, PongsInOrder

\* The stream is as it was when neither it nor what was read of it has changed.
LEMMA StreamKept ==
  ASSUME WsInv, UNCHANGED <<in, sent, pings, peer, stage, got>>,
         reader' \in {"reading", "ponging"} => reader \in {"reading", "ponging"}
  PROVE  FramesInOrder' /\ DataInOrder'
<1>1. FramesInOrder'
  BY DEF WsInv, FramesInOrder
<1>2. DataInOrder'
  BY DEF WsInv, DataInOrder
<1> QED
  BY <1>1, <1>2

\* Who is in the midst of something has an open connection.
LEMMA OpenFor ==
  ASSUME WsInv, \/ reader # "reading" \/ writer # "idle" \/ closer # "idle" \/ out # <<>>
                \/ sent # 0 \/ pings # 0 \/ got # <<>>
  PROVE  stage = "open"
BY DEF WsInv, Opening

\* Nothing of the upgrade comes back once the connection is open.
LEMMA OpeningKept ==
  ASSUME WsInv, UNCHANGED <<role, stage, peer>>, stage = "open", in' \in Seq(Cells)
  PROVE  Opening'
BY DEF WsInv, Opening

\* The invariant holds at the start.
LEMMA WsInit == Init => WsInv
<1> SUFFICES ASSUME Init PROVE WsInv
  OBVIOUS
<1>1. TypeOK
  <2>1. 0 \in 0..MaxFrames /\ 0 \in 0..MaxWrites /\ 0 \in Nat
    BY BoundsAssumption
  <2>2. <<>> \in Seq(Int)
    OBVIOUS
  <2> QED
    BY <2>1, <2>2 DEF Init, TypeOK
<1>2. Opening
  <2>1. in = <<>> /\ in \in Seq(Cells)
    BY DEF Init
  <2> QED
    BY <2>1 DEF Init, Opening
<1>3. FramesInOrder
  BY DEF Init, FramesInOrder
<1>4. PongsInOrder
  <2>1. out = <<>> /\ DOMAIN out = {} /\ out \in Seq(OutFrames) /\ reader = "reading"
    BY DEF Init
  <2> QED
    BY <2>1 DEF PongsInOrder, PongsEchoPings
<1>5. DataInOrder
  <2>1. Len(got) = 0 /\ sent = 0 /\ stage = "request"
    BY DEF Init
  <2> QED
    BY <2>1 DEF DataInOrder
<1> QED
  BY <1>1, <1>2, <1>3, <1>4, <1>5 DEF WsInv

-----------------------------------------------------------------------------
(* The upgrade                                                               *)

\* Nothing but the head is there, so nothing is lost with it.
LEMMA OnlyTheHead ==
  ASSUME WsInv, stage # "open", BufferedHead
  PROVE  in' = <<>> /\ peer # "silent"
<1>1. in = <<HttpHead>>
  BY DEF WsInv, Opening, BufferedHead
<1>2. PICK k \in 1..Len(in) : in' = SubSeq(in, k + 1, Len(in))
  BY DEF BufferedHead
<1>3. Len(in) = 1 /\ k = 1
  BY <1>1, <1>2
<1>4. in' = <<>>
  BY <1>1, <1>2, <1>3
<1>5. in # <<>>
  BY <1>3
<1> QED
  BY <1>4, <1>5 DEF WsInv, Opening

\* Accept reads the request, or Dial writes it (Accept, Dial).
LEMMA RequestStep ==
  ASSUME WsInv, Request
  PROVE  WsInv'
<1> USE DEF Request, peerVars, readVars, writeVars, closeVars
<1>1. /\ stage = "request" /\ stage' = "reply"
      /\ UNCHANGED <<role, peer, frames, sent, pings, reader, ping, got, writer, deadline,
                     writes, out, closed, closer>>
  OBVIOUS
<1>2. role = "accept" => in' = <<>> /\ peer # "silent"
  BY OnlyTheHead
<1>3. role # "accept" => in' = in
  OBVIOUS
<1>4. /\ in \in {<<>>, <<HttpHead>>} /\ in \in Seq(Cells)
      /\ out = <<>> /\ sent = 0 /\ pings = 0 /\ got = <<>>
      /\ reader = "reading" /\ writer = "idle" /\ closer = "idle"
      /\ peer = "silent" => in = <<>>
  BY <1>1 DEF WsInv, Opening
<1>5. in' \in {<<>>, <<HttpHead>>} /\ in' \in Seq(Cells)
  <2>1. CASE role = "accept"
    <3>1. <<>> \in Seq(Cells)
      OBVIOUS
    <3> QED
      BY <1>2, <2>1, <3>1
  <2>2. CASE role # "accept"
    <3>1. in' = in
      BY <1>3, <2>2
    <3> QED
      BY <1>4, <3>1
  <2> QED
    BY <2>1, <2>2
<1>6. Opening'
  BY <1>1, <1>2, <1>3, <1>4, <1>5 DEF Opening
<1>7. TypeOK'
  BY <1>1 DEF WsInv, TypeOK
<1>8. FramesInOrder'
  BY <1>1 DEF FramesInOrder
<1>9. DataInOrder'
  BY <1>1 DEF WsInv, DataInOrder
<1>10. PongsInOrder'
  <2>1. out' = <<>> /\ DOMAIN out' = {} /\ out' \in Seq(OutFrames) /\ reader' = "reading"
    BY <1>1, <1>4
  <2> QED
    BY <2>1 DEF PongsInOrder, PongsEchoPings
<1> QED
  BY <1>6, <1>7, <1>8, <1>9, <1>10 DEF WsInv

\* Accept writes the response, or Dial reads it: the frames start here.
LEMMA ReplyStep ==
  ASSUME WsInv, Reply
  PROVE  WsInv'
<1> USE DEF Reply, peerVars, readVars, writeVars, closeVars
<1>1. /\ stage = "reply" /\ stage' = "open"
      /\ UNCHANGED <<role, peer, frames, sent, pings, reader, ping, got, writer, deadline,
                     writes, out, closed, closer>>
  OBVIOUS
<1>2. role = "dial" => in' = <<>> /\ peer # "silent"
  BY OnlyTheHead
<1>3. role # "dial" => in' = in
  OBVIOUS
<1>4. /\ role \in {"accept", "dial"}
      /\ role = "accept" => peer # "silent" /\ in = <<>>
      /\ out = <<>> /\ sent = 0 /\ pings = 0 /\ got = <<>> /\ reader = "reading"
  BY <1>1 DEF WsInv, TypeOK, Opening
<1>5. in' = <<>> /\ peer' # "silent"
  BY <1>1, <1>2, <1>3, <1>4
<1>6. in' \in Seq(Cells) /\ DOMAIN in' = {} /\ Len(in') = 0
  BY <1>5
<1>7. Opening'
  BY <1>1, <1>5, <1>6 DEF Opening
<1>8. TypeOK'
  BY <1>1 DEF WsInv, TypeOK
<1>9. FramesInOrder'
  BY <1>5, <1>6 DEF FramesInOrder, Framed, Ordered, InRange, Whole
<1>10. DataInOrder'
  <2>1. Len(got') = 0 /\ sent' = 0
    BY <1>1, <1>4
  <2> QED
    BY <1>6, <2>1 DEF DataInOrder, Numbered, Complete
<1>11. PongsInOrder'
  <2>1. out' = <<>> /\ DOMAIN out' = {} /\ out' \in Seq(OutFrames) /\ reader' = "reading"
    BY <1>1, <1>4
  <2> QED
    BY <2>1 DEF PongsInOrder, PongsEchoPings
<1> QED
  BY <1>7, <1>8, <1>9, <1>10, <1>11 DEF WsInv

\* The upgrade fails.
LEMMA RefuseStep ==
  ASSUME WsInv, Refuse
  PROVE  WsInv'
<1> USE DEF Refuse, peerVars, readVars, writeVars, closeVars
<1>1. Opening'
  BY DEF WsInv, Opening
<1>2. TypeOK'
  BY DEF WsInv, TypeOK
<1>3. FramesInOrder'
  BY DEF FramesInOrder
<1>4. DataInOrder'
  BY DEF WsInv, DataInOrder
<1>5. PongsInOrder'
  <2>1. stage # "open"
    OBVIOUS
  <2>2. out = <<>> /\ reader = "reading"
    BY <2>1 DEF WsInv, Opening
  <2>3. out' = <<>> /\ DOMAIN out' = {} /\ out' \in Seq(OutFrames) /\ reader' = "reading"
    BY <2>2
  <2> QED
    BY <2>3 DEF PongsInOrder, PongsEchoPings
<1> QED
  BY <1>1, <1>2, <1>3, <1>4, <1>5 DEF WsInv

-----------------------------------------------------------------------------
(* Read                                                                      *)

\* Read finds a head where it looks for one.
LEMMA HeadIs ==
  ASSUME WsInv, Reading, NEW op, NEW n, IsHead(op, n)
  PROVE  /\ in \in Seq(Cells) /\ in # <<>> /\ Len(in) \in Nat /\ Len(in) > 0
         /\ Framed(in) /\ Ordered(in) /\ InRange(in, sent, pings) /\ (peer # "gone" => Whole(in))
         /\ in[1].cell = "head" /\ in[1].op = op /\ in[1].n = n /\ n \in Nat
         /\ op = "ping" => n = 1
         /\ sent \in Nat /\ pings \in Nat
         /\ stage = "open" /\ reader = "reading" /\ closer # "closed"
<1>1. stage = "open" /\ reader = "reading" /\ closer # "closed"
  BY DEF Reading
<1>2. in \in Seq(Cells) /\ in # <<>> /\ sent \in Nat /\ pings \in Nat
  BY DEF WsInv, Opening, TypeOK, IsHead
<1>3. /\ Framed(in) /\ Ordered(in) /\ InRange(in, sent, pings) /\ (peer # "gone" => Whole(in))
  BY <1>1 DEF WsInv, FramesInOrder
<1>4. Len(in) \in Nat /\ Len(in) > 0 /\ 1 \in DOMAIN in /\ Head(in) = in[1]
  BY <1>2
<1>5. in[1].cell = "head" /\ in[1].n \in Nat /\ (in[1].op = "ping" => in[1].n = 1)
  BY <1>2, <1>3, <1>4 DEF Framed
<1>6. in[1].op = op /\ in[1].n = n
  BY <1>4, <1>5 DEF IsHead
<1> QED
  BY <1>1, <1>2, <1>3, <1>4, <1>5, <1>6

\* The payload of n bytes is what the n cells behind the head hold.
LEMMA PayloadIs ==
  ASSUME in \in Seq(Cells), NEW n \in Nat, n + 1 <= Len(in)
  PROVE  /\ Payload(n) = [i \in 1..n |-> in[i + 1].n]
         /\ Payload(n) \in Seq(Int) /\ Len(Payload(n)) = n
<1> DEFINE c == SubSeq(in, 2, n + 1)
<1>1. c \in Seq(Cells) /\ Len(c) = n /\ DOMAIN c = 1..n /\ \A i \in 1..n : c[i] = in[i + 1]
  OBVIOUS
<1>2. Payload(n) = [i \in DOMAIN c |-> c[i].n]
  BY DEF Payload, Values
<1>3. \A i \in 1..n : c[i].n \in Int
  BY <1>1, CellTypes
<1> HIDE DEF c
<1>4. Payload(n) = [i \in 1..n |-> in[i + 1].n]
  <2> DEFINE v(i) == in[i + 1].n
  <2>1. DOMAIN c = 1..n /\ \A i \in 1..n : c[i].n = v(i)
    BY <1>1
  <2> HIDE DEF v
  <2>2. [i \in DOMAIN c |-> c[i].n] = [i \in 1..n |-> v(i)]
    BY ONLY <2>1
  <2> QED
    BY <1>2, <2>2 DEF v
<1>5. \A i \in 1..n : in[i + 1].n \in Int
  BY <1>1, <1>3
<1>6. [i \in 1..n |-> in[i + 1].n] \in Seq(Int) /\ Len([i \in 1..n |-> in[i + 1].n]) = n
  <2> DEFINE v(i) == in[i + 1].n
  <2>1. \A i \in 1..n : v(i) \in Int
    BY <1>5
  <2> HIDE DEF v
  <2>2. [i \in 1..n |-> v(i)] \in Seq(Int) /\ Len([i \in 1..n |-> v(i)]) = n
    BY <2>1
  <2> QED
    BY <2>2 DEF v
<1> QED
  BY <1>4, <1>6

\* Cutting off k cells leaves what is behind them.
LEMMA WhatIsLeft ==
  ASSUME NEW s \in Seq(Cells), NEW k \in Nat, k <= Len(s)
  PROVE  Behind(SubSeq(s, k + 1, Len(s)), s, k)
<1> DEFINE t == SubSeq(s, k + 1, Len(s))
<1>1. Len(s) \in Nat
  OBVIOUS
<1>2. t \in Seq(Cells)
  BY <1>1
<1>3. Len(t) = Len(s) - k
  BY <1>1
<1>4. \A i \in 1..Len(t) : t[i] = s[i + k]
  <2> SUFFICES ASSUME NEW i \in 1..(Len(s) - k) PROVE t[i] = s[i + k]
    BY <1>3
  <2>1. t[i] = s[(k + 1) + i - 1] /\ (k + 1) + i - 1 = i + k
    BY <1>1
  <2> QED
    BY <2>1
<1> HIDE DEF t
<1>5. Behind(t, s, k)
  BY <1>1, <1>2, <1>3, <1>4 DEF Behind
<1> QED
  BY <1>5 DEF t

\* A frame of n bytes takes n + 1 cells with it.
LEMMA BeyondIs ==
  ASSUME in \in Seq(Cells), NEW n \in Nat, Arrived(n)
  PROVE  Behind(Beyond(n), in, n + 1)
<1> DEFINE k == n + 1
<1>1. k \in Nat /\ k <= Len(in) /\ n + 2 = k + 1
  BY DEF Arrived
<1>2. Beyond(n) = SubSeq(in, k + 1, Len(in))
  BY <1>1 DEF Beyond
<1> HIDE DEF k
<1>3. Behind(Beyond(n), in, k)
  BY <1>1, <1>2, WhatIsLeft
<1> QED
  BY <1>3 DEF k

\* A frame that has been read whole leaves frames behind.
LEMMA FrameRead ==
  ASSUME WsInv, Reading, NEW op, NEW n, IsHead(op, n), Arrived(n), in' = Beyond(n),
         UNCHANGED <<role, stage, peer, frames, sent, pings>>
  PROVE  /\ Behind(in', in, n + 1) /\ in' \in Seq(Cells)
         /\ Opening' /\ FramesInOrder'
         /\ \A v : Before(v, in) => Before(v, in')
<1>1. Behind(in', in, n + 1)
  BY HeadIs, BeyondIs
<1>2. in' \in Seq(Cells)
  BY <1>1 DEF Behind
<1>3. Opening'
  BY <1>2, HeadIs, OpeningKept
<1>4. Framed(in') /\ (Whole(in) => Whole(in'))
  BY <1>1, HeadIs, BehindFramed
<1>5. Ordered(in') /\ InRange(in', sent, pings) /\ \A v : Before(v, in) => Before(v, in')
  BY <1>1, HeadIs, BehindOrdered
<1>6. FramesInOrder'
  BY <1>4, <1>5, HeadIs DEF FramesInOrder
<1> QED
  BY <1>1, <1>2, <1>3, <1>5, <1>6

\* The data goes on where it was when what was read is no data.
LEMMA NoDataRead ==
  ASSUME WsInv, Reading, NEW op \in {"ping", "pong", "continuation"}, NEW n, IsHead(op, n), Arrived(n),
         in' = Beyond(n), UNCHANGED <<role, stage, peer, frames, sent, pings, got>>
  PROVE  DataInOrder'
<1> SUFFICES ASSUME ~Fragments PROVE DataInOrder'
  BY DEF DataInOrder
<1>1. /\ Numbered(in, Len(got), sent) /\ (peer # "gone" => Complete(in, Len(got), sent))
      /\ Len(got) <= sent /\ Len(got) \in Nat
  BY HeadIs DEF WsInv, DataInOrder, TypeOK
<1>2. op \in {"ping", "pong"}
  <2>1. 1 \in DOMAIN in /\ in[1].op = op
    BY HeadIs
  <2> QED
    BY <1>1, <2>1 DEF Numbered
<1>3. Behind(in', in, n + 1)
  BY FrameRead
<1> DEFINE g == Len(got)
<1>4. /\ Framed(in) /\ in[1].cell = "head" /\ in[1].op = op /\ in[1].n = n /\ n \in Nat
      /\ sent \in Nat
  BY HeadIs
<1> HIDE DEF g
<1>5. Numbered(in', g, sent) /\ (Complete(in, g, sent) => Complete(in', g, sent))
  BY <1>1, <1>2, <1>3, <1>4, OthersSkipped DEF g
<1> QED
  BY <1>1, <1>5 DEF DataInOrder, g

\* Read has read a ping: its number is below that of every pong written so far.
LEMMA ReadPingStep ==
  ASSUME WsInv, NEW n, ReadPing(n)
  PROVE  WsInv'
<1>1. /\ Reading /\ IsHead("ping", n) /\ Arrived(n) /\ ping' = Payload(n) /\ in' = Beyond(n)
      /\ reader' = "ponging"
      /\ UNCHANGED <<role, stage, peer, frames, sent, pings, got, writer, deadline, writes, out,
                     closed, closer>>
  BY DEF ReadPing, peerVars, writeVars, closeVars
<1>2. n = 1 /\ in \in Seq(Cells) /\ Len(in) \in Nat /\ pings \in Nat
  BY <1>1, HeadIs
<1> DEFINE v == in[2].n
<1>3. 1 \in DOMAIN in /\ 2 \in DOMAIN in /\ 2 \in 1..Len(in) /\ 1 + 1 <= Len(in) /\ DOMAIN in = 1..Len(in)
  BY <1>1, <1>2 DEF Arrived
<1>4. IsByte(in, 2) /\ v < 0
  BY <1>1, <1>2, <1>3, HeadIs DEF Framed, OfKind, IsByte
<1>5. v \in (0 - pings)..(0 - 1)
  <2>1. v \in Int
    BY <1>2, <1>3, CellTypes
  <2>2. 0 - pings <= v
    BY <1>1, <1>3, <1>4, HeadIs DEF InRange
  <2> HIDE DEF v
  <2> QED
    BY <1>2, <1>4, <2>1, <2>2
<1>6. ping' = <<v>> /\ ping' \in Seq(Int)
  <2>1. Payload(1) = [i \in 1..1 |-> in[i + 1].n]
    BY <1>2, <1>3, PayloadIs
  <2>2. [i \in 1..1 |-> in[i + 1].n] = <<v>>
    OBVIOUS
  <2>3. v \in Int
    BY <1>5
  <2> HIDE DEF v
  <2>4. ping' = <<v>>
    BY <1>1, <1>2, <2>1, <2>2
  <2>5. <<v>> \in Seq(Int)
    BY <2>3
  <2> QED
    BY <2>4, <2>5
<1>7. Before(v, in')
  <2>1. Behind(in', in, 2)
    BY <1>1, <1>2, FrameRead
  <2>2. Ordered(in)
    BY <1>1, HeadIs
  <2>3. ASSUME NEW i \in DOMAIN in', IsByte(in', i), in'[i].n < 0 PROVE in'[i].n < v
    <3>1. i \in 1..Len(in') /\ i + 2 \in 1..Len(in) /\ 2 < i + 2
      BY <1>2, <2>1, <2>3, CellTypes DEF Behind
    <3>2. in'[i] = in[i + 2]
      BY <2>1, <3>1 DEF Behind
    <3>3. IsByte(in, i + 2) /\ in[i + 2].n < 0
      BY <2>3, <3>2 DEF IsByte
    <3> QED
      BY <1>3, <1>4, <2>2, <3>1, <3>2, <3>3 DEF Ordered
  <2> HIDE DEF v
  <2> QED
    BY <2>3 DEF Before
<1>8. Opening' /\ FramesInOrder' /\ \A w : Before(w, in) => Before(w, in')
  BY <1>1, FrameRead
<1>9. DataInOrder'
  BY <1>1, NoDataRead
<1>10. TypeOK'
  BY <1>1, <1>6 DEF WsInv, TypeOK
<1>11. PongsInOrder'
  <2>1. PongsInOrder /\ reader = "reading" /\ stage = "open"
    BY <1>1, HeadIs DEF WsInv
  <2>2. out' \in Seq(OutFrames) /\ PongsEchoPings'
    BY <1>1, <2>1 DEF PongsInOrder, PongsEchoPings
  <2>3. reader' = "ponging" => /\ stage' = "open"
                               /\ \E w \in (0 - pings')..(0 - 1) : ping' = <<w>> /\ Before(w, in')
    <3> HIDE DEF v
    <3> QED
      BY <1>1, <1>5, <1>6, <1>7, <2>1
  <2>4. ASSUME NEW i \in DOMAIN out', out'[i].op = "pong"
        PROVE  /\ \E w \in (0 - pings')..(0 - 1) : out'[i].data = <<w>>
               /\ reader' \in {"reading", "ponging"} => Before(out'[i].data[1], in')
               /\ reader' = "ponging" => ping'[1] < out'[i].data[1]
    <3>1. /\ \E w \in (0 - pings)..(0 - 1) : out[i].data = <<w>>
          /\ Before(out[i].data[1], in)
      BY <1>1, <2>1, <2>4 DEF PongsInOrder
    <3> DEFINE d == out[i].data[1]
    <3>2. v < d
      BY <1>3, <1>4, <3>1 DEF Before
    <3>3. ping'[1] = v
      BY <1>6
    <3> HIDE DEF v
    <3> QED
      BY <1>1, <1>8, <3>1, <3>2, <3>3
  <2> QED
    BY <2>2, <2>3, <2>4 DEF PongsInOrder
<1> QED
  BY <1>8, <1>9, <1>10, <1>11 DEF WsInv

\* Read has skipped a frame it does not know.
LEMMA SkipStep ==
  ASSUME WsInv, NEW op, NEW n, Skip(op, n)
  PROVE  WsInv'
<1>1. /\ op \in {"pong", "continuation"} /\ Reading /\ IsHead(op, n) /\ Arrived(n)
      /\ in' = Beyond(n)
      /\ UNCHANGED <<role, stage, peer, frames, sent, pings, reader, ping, got, writer, deadline,
                     writes, out, closed, closer>>
  BY DEF Skip, peerVars, readVars, writeVars, closeVars
<1>2. Opening' /\ FramesInOrder' /\ \A w : Before(w, in) => Before(w, in')
  BY <1>1, FrameRead
<1>3. DataInOrder'
  BY <1>1, NoDataRead
<1>4. TypeOK'
  BY <1>1 DEF WsInv, TypeOK
<1>5. PongsInOrder'
  <2>1. pings' \in Nat /\ pings <= pings' /\ reader = "reading"
    BY <1>1, HeadIs
  <2> QED
    BY <1>1, <1>2, <2>1, PongsKept
<1> QED
  BY <1>2, <1>3, <1>4, <1>5 DEF WsInv

\* Concatenation, as far as it is needed.
LEMMA Longer ==
  ASSUME NEW S, NEW s \in Seq(S), NEW t \in Seq(S)
  PROVE  s \o t \in Seq(S) /\ Len(s \o t) = Len(s) + Len(t) /\ Len(s) \in Nat /\ Len(t) \in Nat
OBVIOUS

\* The reader has come to its end.
LEMMA ReaderStops ==
  ASSUME WsInv, stage = "open", UNCHANGED <<role, stage, peer, frames, sent, pings, ping, writer,
           deadline, writes, out, closed, closer>>,
         reader' \in {"ended", "panicked"}, in' \in Seq(Cells), peer # "silent" \/ in' = <<>>,
         got' \in Seq(Int), ~Fragments => Len(got') <= sent
  PROVE  WsInv'
<1>1. TypeOK'
  BY DEF WsInv, TypeOK
<1>2. Opening'
  BY OpeningKept
<1>3. FramesInOrder'
  BY DEF FramesInOrder
<1>4. DataInOrder'
  BY DEF DataInOrder
<1>5. PongsInOrder'
  <2>1. pings' \in Nat /\ pings <= pings'
    BY DEF WsInv, TypeOK
  <2> QED
    BY <2>1, PongsKept
<1> QED
  BY <1>1, <1>2, <1>3, <1>4, <1>5 DEF WsInv

\* Read has handed out a message, or the process has panicked.
LEMMA ReadDataStep ==
  ASSUME WsInv, NEW n, ReadData(n)
  PROVE  WsInv'
<1>1. /\ Reading /\ IsHead("data", n) /\ Arrived(n) /\ in' = Beyond(n)
      /\ UNCHANGED <<role, stage, peer, frames, sent, pings, ping, writer, deadline, writes, out,
                     closed, closer>>
  BY DEF ReadData, peerVars, writeVars, closeVars
<1>2. \/ got' = got \o Payload(n) /\ reader' = reader
      \/ reader' = "panicked" /\ got' = got
  BY DEF ReadData
<1>3. /\ n \in Nat /\ in \in Seq(Cells) /\ Len(in) \in Nat /\ pings \in Nat /\ sent \in Nat
      /\ stage = "open" /\ reader = "reading" /\ Framed(in) /\ Ordered(in)
      /\ InRange(in, sent, pings)
      /\ in[1].cell = "head" /\ in[1].op = "data" /\ in[1].n = n
  BY <1>1, HeadIs
<1>4. got \in Seq(Int) /\ Len(got) \in Nat
  BY DEF WsInv, TypeOK
<1>5. /\ Behind(in', in, n + 1) /\ in' \in Seq(Cells) /\ Opening' /\ FramesInOrder'
      /\ \A v : Before(v, in) => Before(v, in')
  BY <1>1, FrameRead
<1>6. PongsInOrder'
  <2>1. pings' \in Nat /\ pings <= pings'
    BY <1>1, <1>3
  <2> QED
    BY <1>1, <1>2, <1>3, <1>5, <2>1, PongsKept
<1>7. CASE got' = got \o Payload(n) /\ reader' = reader
  <2>1. Payload(n) \in Seq(Int) /\ Len(Payload(n)) = n
    BY <1>1, <1>3, PayloadIs DEF Arrived
  <2>2. got' \in Seq(Int) /\ Len(got') = Len(got) + n
    BY <1>4, <1>7, <2>1, Longer
  <2>3. TypeOK'
    BY <1>1, <1>7, <2>2 DEF WsInv, TypeOK
  <2>4. DataInOrder'
    <3> SUFFICES ASSUME ~Fragments PROVE DataInOrder'
      BY DEF DataInOrder
    <3> DEFINE g == Len(got)
    <3>1. Numbered(in, g, sent) /\ (peer # "gone" => Complete(in, g, sent)) /\ g \in Nat
      BY <1>3, <1>4 DEF WsInv, DataInOrder
    <3> HIDE DEF g
    <3>2. /\ g + n <= sent /\ Numbered(in', g + n, sent)
          /\ Complete(in, g, sent) => Complete(in', g + n, sent)
      BY <1>3, <1>5, <3>1, DataRead
    <3>3. Len(got') = g + n
      BY <2>2 DEF g
    <3> QED
      BY <1>1, <3>1, <3>2, <3>3 DEF DataInOrder
  <2> QED
    BY <1>5, <1>6, <2>3, <2>4 DEF WsInv
<1>8. CASE reader' = "panicked" /\ got' = got
  <2>1. TypeOK'
    BY <1>1, <1>8 DEF WsInv, TypeOK
  <2>2. DataInOrder'
    BY <1>1, <1>8 DEF WsInv, DataInOrder
  <2> QED
    BY <1>5, <1>6, <2>1, <2>2 DEF WsInv
<1> QED
  BY <1>2, <1>7, <1>8

\* Read has come to a close frame.
LEMMA ReadCloseStep ==
  ASSUME WsInv, NEW n, ReadClose(n)
  PROVE  WsInv'
<1>1. /\ Reading /\ IsHead("close", n) /\ in' = Tail(in) /\ reader' = "ended"
      /\ UNCHANGED <<role, stage, peer, frames, sent, pings, ping, got, writer, deadline, writes,
                     out, closed, closer>>
  BY DEF ReadClose, peerVars, writeVars, closeVars
<1>2. in \in Seq(Cells) /\ in # <<>> /\ stage = "open"
  BY <1>1, HeadIs
<1>3. in' \in Seq(Cells) /\ peer # "silent"
  <2>1. Tail(in) \in Seq(Cells)
    BY <1>2
  <2> QED
    BY <1>1, <1>2, <2>1 DEF WsInv, Opening
<1>4. got' \in Seq(Int) /\ (~Fragments => Len(got') <= sent)
  BY <1>1 DEF WsInv, TypeOK, DataInOrder
<1> QED
  BY <1>1, <1>2, <1>3, <1>4, ReaderStops

\* Read finds the stream ended.
LEMMA ReadEndStep ==
  ASSUME WsInv, ReadEnd
  PROVE  WsInv'
<1>1. /\ stage = "open" /\ reader' = "ended"
      /\ UNCHANGED <<role, stage, in, peer, frames, sent, pings, ping, got, writer, deadline, writes,
                     out, closed, closer>>
  BY DEF ReadEnd, peerVars, writeVars, closeVars
<1>2. in' \in Seq(Cells) /\ peer # "silent"
  BY <1>1 DEF WsInv, Opening
<1>3. got' \in Seq(Int) /\ (~Fragments => Len(got') <= sent)
  BY <1>1 DEF WsInv, TypeOK, DataInOrder
<1> QED
  BY <1>1, <1>2, <1>3, ReaderStops

\* As many whole pieces as have arrived.
LEMMA WholePieces ==
  ASSUME NEW m \in Nat, NEW q \in Nat \ {0}
  PROVE  (m \div q) * q \in Nat /\ (m \div q) * q <= m
OBVIOUS

\* What a Read brings that finds its frame cut short.
LEMMA ReadCutBrings ==
  ASSUME WsInv, NEW op, NEW n, ReadCut(op, n)
  PROVE  /\ Reading /\ peer = "gone" /\ IsHead(op, n) /\ in' = <<>>
         /\ n \in Nat /\ ~(Len(in) > n)
         /\ UNCHANGED <<role, stage, peer, frames, sent, pings, ping, writer, deadline, writes, out,
                        closed, closer>>
         /\ \/ reader' = "panicked" /\ got' = got
            \/ reader' = "ended" /\ \E b \in Nat : /\ b = 0 \/ op = "data"
                                                   /\ b + 1 <= Len(in)
                                                   /\ \E space \in Spaces : b <= space
                                                   /\ got' = got \o Payload(b)
<1>1. /\ Reading /\ peer = "gone" /\ IsHead(op, n) /\ in' = <<>> /\ ~Arrived(n)
      /\ UNCHANGED <<role, stage, peer, frames, sent, pings, ping, writer, deadline, writes, out,
                     closed, closer>>
  BY DEF ReadCut, peerVars, writeVars, closeVars
<1>2. n \in Nat /\ Len(in) \in Nat /\ Len(in) > 0
  BY <1>1, HeadIs
<1> DEFINE whole == ((Len(in) - 1) \div Piece) * Piece
           brought(space) == IF op = "data" /\ n > space THEN whole ELSE 0
<1>3. whole \in Nat /\ whole <= Len(in) - 1
  <2>1. Len(in) - 1 \in Nat /\ Piece \in Nat \ {0}
    BY <1>2, SpacesAssumption
  <2> QED
    BY <2>1, WholePieces
<1>4. PICK space \in Spaces :
         IF brought(space) <= space
         THEN reader' = "ended" /\ got' = got \o Payload(brought(space))
         ELSE reader' = "panicked" /\ got' = got
  BY DEF ReadCut
<1> HIDE DEF whole
<1>5. /\ brought(space) \in Nat /\ brought(space) + 1 <= Len(in)
      /\ brought(space) = 0 \/ op = "data"
  BY <1>2, <1>3
<1> HIDE DEF brought
<1> QED
  BY <1>1, <1>2, <1>4, <1>5 DEF Arrived

\* Read has come to a frame that is cut short.
LEMMA ReadCutStep ==
  ASSUME WsInv, NEW op, NEW n, ReadCut(op, n)
  PROVE  WsInv'
<1>1. /\ Reading /\ peer = "gone" /\ IsHead(op, n) /\ in' = <<>>
      /\ n \in Nat /\ ~(Len(in) > n)
      /\ UNCHANGED <<role, stage, peer, frames, sent, pings, ping, writer, deadline, writes, out,
                     closed, closer>>
  BY ReadCutBrings
<1>2. reader' \in {"ended", "panicked"}
  BY ReadCutBrings
<1>3. got \in Seq(Int) /\ Len(got) \in Nat /\ (~Fragments => Len(got) <= sent)
  BY DEF WsInv, TypeOK, DataInOrder
<1>4. in' \in Seq(Cells)
  BY <1>1
<1>5. stage = "open"
  BY <1>1, HeadIs
<1>6. got' \in Seq(Int) /\ (~Fragments => Len(got') <= sent)
  <2>1. CASE got' = got
    BY <1>3, <2>1
  <2>2. ASSUME NEW b \in Nat, b = 0 \/ op = "data", b + 1 <= Len(in), got' = got \o Payload(b)
        PROVE  got' \in Seq(Int) /\ (~Fragments => Len(got') <= sent)
    <3>1. in \in Seq(Cells)
      BY <1>1, HeadIs
    <3>2. Payload(b) \in Seq(Int) /\ Len(Payload(b)) = b
      BY <2>2, <3>1, PayloadIs
    <3>3. got' \in Seq(Int) /\ Len(got') = Len(got) + b
      BY <1>3, <2>2, <3>2, Longer
    <3>4. ASSUME ~Fragments PROVE Len(got') <= sent
      <4>1. CASE b = 0
        BY <1>3, <3>3, <3>4, <4>1
      <4>2. CASE b # 0
        <5> DEFINE g == Len(got)
        <5>1. /\ Numbered(in, g, sent) /\ InRange(in, sent, pings) /\ Framed(in) /\ in # <<>>
              /\ in[1].cell = "head" /\ in[1].op = "data" /\ in[1].n = n /\ sent \in Nat
              /\ pings \in Nat /\ Len(in) \in Nat
          BY <1>1, <2>2, <3>4, <4>2, HeadIs DEF WsInv, DataInOrder
        <5>2. b \in 1..n
          BY <1>1, <2>2, <4>2, <5>1
        <5>3. g \in Nat
          BY <1>3
        <5> HIDE DEF g
        <5>4. g + b <= sent
          BY <1>1, <2>2, <3>1, <5>1, <5>2, <5>3, FirstData
        <5> QED
          BY <3>3, <5>4 DEF g
      <4> QED
        BY <4>1, <4>2
    <3> QED
      BY <3>3, <3>4
  <2> QED
    BY <2>1, <2>2, ReadCutBrings
<1> QED
  BY <1>1, <1>2, <1>4, <1>5, <1>6, ReaderStops

-----------------------------------------------------------------------------
(* Write and Close                                                           *)

\* What WriteFrame does to the frames written: a frame more, or none.
LEMMA FrameWritten ==
  ASSUME WsInv, NEW op \in Opcodes, NEW data \in Seq(Int), WriteFrame(op, data)
  PROVE  /\ deadline' \in {"none", "set", "passed"}
         /\ \/ out' = out
            \/ \E f \in OutFrames : f.op = op /\ f.data = data /\ out' = Append(out, f)
<1> DEFINE frame(whole) == [op |-> op, data |-> data, whole |-> whole]
<1>1. \A whole \in BOOLEAN : /\ frame(whole) \in OutFrames
                             /\ frame(whole).op = op /\ frame(whole).data = data
  BY DEF OutFrames
<1>2. deadline \in {"none", "set", "passed"}
  BY DEF WsInv, TypeOK
<1>3. deadline' \in {"none", "set", "passed"}
  BY <1>2 DEF WriteFrame
<1>4. \/ out' = out
      \/ out' = Append(out, frame(TRUE))
      \/ out' = Append(out, frame(FALSE))
  BY DEF WriteFrame
<1> HIDE DEF frame
<1>5. TRUE \in BOOLEAN /\ FALSE \in BOOLEAN
  OBVIOUS
<1> QED
  BY <1>1, <1>3, <1>4, <1>5

\* A frame that is no pong leaves the pongs as they are.
LEMMA NoPongMore ==
  ASSUME WsInv, NEW op \in Opcodes, op # "pong", NEW data \in Seq(Int), WriteFrame(op, data),
         stage = "open", UNCHANGED <<stage, in, pings, reader, ping>>
  PROVE  PongsInOrder' /\ out' \in Seq(OutFrames)
<1>1. PongsInOrder /\ out \in Seq(OutFrames)
  BY DEF WsInv, PongsInOrder
<1>2. CASE out' = out
  BY <1>1, <1>2, NothingComes
<1>3. ASSUME NEW f \in OutFrames, f.op = op, out' = Append(out, f)
      PROVE  PongsInOrder' /\ out' \in Seq(OutFrames)
  <2>1. /\ out' \in Seq(OutFrames) /\ Len(out) \in Nat /\ DOMAIN out = 1..Len(out)
        /\ DOMAIN out' = 1..(Len(out) + 1)
        /\ \A i \in 1..Len(out) : out'[i] = out[i]
        /\ out'[Len(out) + 1] = f
    BY <1>1, <1>3
  <2>2. ASSUME NEW i \in DOMAIN out', out'[i].op = "pong"
        PROVE  i \in DOMAIN out /\ out'[i] = out[i]
    <3>1. i # Len(out) + 1
      BY <1>3, <2>1, <2>2
    <3>2. i \in 1..Len(out)
      BY <2>1, <3>1
    <3> QED
      BY <2>1, <3>2
  <2>3. PongsEchoPings'
    BY <1>1, <2>2 DEF PongsInOrder, PongsEchoPings
  <2> QED
    BY <1>1, <2>1, <2>2, <2>3 DEF PongsInOrder
<1> QED
  BY <1>2, <1>3, FrameWritten

\* The parts that have to do with what comes in are not touched by what goes out.
LEMMA OutOnly ==
  ASSUME WsInv, stage = "open",
         UNCHANGED <<role, stage, in, peer, frames, sent, pings, reader, ping, got>>,
         writer' \in {"idle", "writing"}, deadline' \in {"none", "set", "passed"},
         writes' \in 0..MaxWrites, closed' \in BOOLEAN,
         closer' \in {"idle", "flagged", "framed", "closed"}, PongsInOrder'
  PROVE  WsInv'
<1>1. TypeOK'
  BY DEF WsInv, TypeOK
<1>2. Opening'
  <2>1. in' \in Seq(Cells)
    BY DEF WsInv, Opening
  <2> QED
    BY <2>1, OpeningKept
<1>3. FramesInOrder' /\ DataInOrder'
  BY StreamKept
<1> QED
  BY <1>1, <1>2, <1>3 DEF WsInv

\* WritePacket sets the deadline.
LEMMA WriteBeginStep ==
  ASSUME WsInv, WriteBegin
  PROVE  WsInv'
<1>1. /\ stage = "open" /\ writes < MaxWrites /\ writes' = writes + 1
      /\ deadline' = "set" /\ writer' = "writing"
      /\ UNCHANGED <<role, stage, in, peer, frames, sent, pings, reader, ping, got, out, closed,
                     closer>>
  BY DEF WriteBegin, peerVars, readVars, closeVars
<1>2. writes' \in 0..MaxWrites
  <2>1. writes \in 0..MaxWrites /\ MaxWrites \in Nat
    BY BoundsAssumption DEF WsInv, TypeOK
  <2> QED
    BY <1>1, <2>1
<1>3. PongsInOrder'
  BY <1>1, NothingComes
<1>4. closed' \in BOOLEAN /\ closer' \in {"idle", "flagged", "framed", "closed"}
  BY <1>1 DEF WsInv, TypeOK
<1> QED
  BY <1>1, <1>2, <1>3, <1>4, OutOnly

\* The deadline passes between two writes.
LEMMA DeadlinePassesStep ==
  ASSUME WsInv, DeadlinePasses
  PROVE  WsInv'
<1>1. /\ deadline = "set" /\ deadline' = "passed"
      /\ UNCHANGED <<role, stage, in, peer, frames, sent, pings, reader, ping, got, writer, writes,
                     out, closed, closer>>
  BY DEF DeadlinePasses, peerVars, readVars, closeVars
<1>2. PongsInOrder'
  BY <1>1, NothingComes
<1>3. TypeOK'
  BY <1>1 DEF WsInv, TypeOK
<1>4. Opening'
  BY <1>1 DEF WsInv, Opening
<1>5. FramesInOrder' /\ DataInOrder'
  BY <1>1, StreamKept
<1> QED
  BY <1>2, <1>3, <1>4, <1>5 DEF WsInv

\* Close sets the flag.
LEMMA CloseFlagStep ==
  ASSUME WsInv, CloseFlag
  PROVE  WsInv'
<1>1. /\ stage = "open" /\ closed' = TRUE /\ closer' = "flagged"
      /\ UNCHANGED <<role, stage, in, peer, frames, sent, pings, reader, ping, got, writer, deadline,
                     writes, out>>
  BY DEF CloseFlag, peerVars, readVars, writeVars
<1>2. PongsInOrder'
  BY <1>1, NothingComes
<1>3. writer' \in {"idle", "writing"} /\ deadline' \in {"none", "set", "passed"} /\ writes' \in 0..MaxWrites
  BY <1>1 DEF WsInv, TypeOK
<1> QED
  BY <1>1, <1>2, <1>3, OutOnly

\* Close closes the TCP connection.
LEMMA CloseRawStep ==
  ASSUME WsInv, CloseRaw
  PROVE  WsInv'
<1>1. /\ closer = "framed" /\ closer' = "closed"
      /\ UNCHANGED <<role, stage, in, peer, frames, sent, pings, reader, ping, got, writer, deadline,
                     writes, out, closed>>
  BY DEF CloseRaw, peerVars, readVars, writeVars
<1>2. PongsInOrder' /\ stage = "open"
  BY <1>1, NothingComes, OpenFor
<1>3. /\ writer' \in {"idle", "writing"} /\ deadline' \in {"none", "set", "passed"}
      /\ writes' \in 0..MaxWrites /\ closed' \in BOOLEAN
  BY <1>1 DEF WsInv, TypeOK
<1> QED
  BY <1>1, <1>2, <1>3, OutOnly

\* WritePacket writes its frame.
LEMMA WriteEndStep ==
  ASSUME WsInv, WriteEnd
  PROVE  WsInv'
<1>1. /\ writer = "writing" /\ WriteFrame("data", <<writes>>) /\ writer' = "idle"
      /\ UNCHANGED <<role, stage, in, peer, frames, sent, pings, reader, ping, got, writes, closed,
                     closer>>
  BY DEF WriteEnd, peerVars, readVars, closeVars
<1>2. stage = "open"
  BY <1>1, OpenFor
<1>3. "data" \in Opcodes /\ <<writes>> \in Seq(Int)
  <2>1. writes \in Int
    BY BoundsAssumption DEF WsInv, TypeOK
  <2> QED
    BY <2>1 DEF Opcodes
<1>4. PongsInOrder'
  BY <1>1, <1>2, <1>3, NoPongMore
<1>5. deadline' \in {"none", "set", "passed"}
  BY <1>1, <1>3, FrameWritten
<1>6. /\ writes' \in 0..MaxWrites /\ closed' \in BOOLEAN
      /\ closer' \in {"idle", "flagged", "framed", "closed"}
  BY <1>1 DEF WsInv, TypeOK
<1> QED
  BY <1>1, <1>2, <1>4, <1>5, <1>6, OutOnly

\* Close writes its frame.
LEMMA CloseFrameStep ==
  ASSUME WsInv, CloseFrame
  PROVE  WsInv'
<1>1. /\ closer = "flagged" /\ WriteFrame("close", <<>>) /\ closer' = "framed"
      /\ UNCHANGED <<role, stage, in, peer, frames, sent, pings, reader, ping, got, writer, writes,
                     closed>>
  BY DEF CloseFrame, peerVars, readVars
<1>2. stage = "open"
  BY <1>1, OpenFor
<1>3. "close" \in Opcodes /\ <<>> \in Seq(Int)
  BY DEF Opcodes
<1>4. PongsInOrder'
  BY <1>1, <1>2, <1>3, NoPongMore
<1>5. deadline' \in {"none", "set", "passed"}
  BY <1>1, <1>3, FrameWritten
<1>6. /\ writes' \in 0..MaxWrites /\ closed' \in BOOLEAN /\ writer' \in {"idle", "writing"}
  BY <1>1 DEF WsInv, TypeOK
<1> QED
  BY <1>1, <1>2, <1>4, <1>5, <1>6, OutOnly

\* The pong comes after all others, and so did the ping it answers.
LEMMA PongStep ==
  ASSUME WsInv, Pong
  PROVE  WsInv'
<1>1. /\ reader = "ponging" /\ WriteFrame("pong", ping) /\ reader' = "reading"
      /\ UNCHANGED <<role, stage, in, peer, frames, sent, pings, ping, got, writer, writes, closed,
                     closer>>
  BY DEF Pong, peerVars, closeVars
<1>2. stage = "open" /\ PongsInOrder /\ out \in Seq(OutFrames) /\ pings \in Nat
  BY <1>1 DEF WsInv, TypeOK, PongsInOrder
<1>3. "pong" \in Opcodes /\ ping \in Seq(Int)
  BY DEF Opcodes, WsInv, TypeOK
<1>4. TypeOK'
  <2>1. deadline' \in {"none", "set", "passed"}
    BY <1>1, <1>3, FrameWritten
  <2> QED
    BY <1>1, <2>1 DEF WsInv, TypeOK
<1>5. Opening'
  <2>1. in' \in Seq(Cells)
    BY <1>1 DEF WsInv, Opening
  <2> QED
    BY <1>1, <1>2, <2>1, OpeningKept
<1>6. FramesInOrder' /\ DataInOrder'
  BY <1>1, StreamKept
<1>7. CASE out' = out
  <2>1. pings' \in Nat /\ pings <= pings'
    BY <1>1, <1>2
  <2>2. PongsInOrder'
    BY <1>1, <1>7, <2>1, PongsKept
  <2> QED
    BY <1>4, <1>5, <1>6, <2>2 DEF WsInv
<1>8. ASSUME NEW f \in OutFrames, f.op = "pong", f.data = ping, out' = Append(out, f)
      PROVE  WsInv'
  <2> DEFINE L == Len(out)
  <2>1. /\ out' \in Seq(OutFrames) /\ L \in Nat /\ DOMAIN out = 1..L /\ DOMAIN out' = 1..(L + 1)
        /\ \A i \in 1..L : out'[i] = out[i]
        /\ out'[L + 1] = f
    BY <1>2, <1>8
  <2>2. PICK v \in (0 - pings)..(0 - 1) : ping = <<v>> /\ Before(v, in)
    BY <1>1, <1>2 DEF PongsInOrder
  <2>3. ping[1] = v /\ v \in Int /\ f.data[1] = v
    BY <1>2, <1>8, <2>2
  <2> HIDE DEF L
  <2>4. ASSUME NEW i \in 1..L, out[i].op = "pong"
        PROVE  /\ \E w \in (0 - pings)..(0 - 1) : out[i].data = <<w>>
               /\ Before(out[i].data[1], in)
               /\ v < out[i].data[1]
               /\ \E k \in 1..pings : out[i].data = <<0 - k>>
    <3>1. i \in DOMAIN out
      BY <2>1
    <3> QED
      BY <1>1, <1>2, <2>3, <2>4, <3>1 DEF PongsInOrder, PongsEchoPings
  <2>5. \A i \in 1..(L + 1) : i \in 1..L \/ i = L + 1
    BY <2>1
  <2>6. ASSUME NEW i \in DOMAIN out', out'[i].op = "pong"
        PROVE  /\ \E w \in (0 - pings)..(0 - 1) : out'[i].data = <<w>>
               /\ Before(out'[i].data[1], in)
               /\ \E k \in 1..pings : out'[i].data = <<0 - k>>
    <3>1. CASE i \in 1..L
      BY <2>1, <2>4, <2>6, <3>1
    <3>2. CASE i = L + 1
      <4>1. out'[i].data = <<v>> /\ out'[i].data[1] = v
        BY <1>8, <2>1, <2>2, <2>3, <3>2
      <4>2. 0 - v \in 1..pings /\ 0 - (0 - v) = v
        BY <1>2, <2>2
      <4>3. \E k \in 1..pings : out'[i].data = <<0 - k>>
        BY <4>1, <4>2
      <4> QED
        BY <2>2, <4>1, <4>3
    <3> QED
      BY <2>1, <2>5, <2>6, <3>1, <3>2
  <2>7. ASSUME NEW i \in DOMAIN out', NEW j \in DOMAIN out', i < j,
               out'[i].op = "pong", out'[j].op = "pong"
        PROVE  out'[i].data[1] > out'[j].data[1]
    <3>1. i \in 1..L
      BY <2>1, <2>7
    <3>2. out'[i] = out[i] /\ i \in DOMAIN out
      BY <2>1, <3>1
    <3>3. CASE j \in 1..L
      <4>1. out'[j] = out[j] /\ j \in DOMAIN out
        BY <2>1, <3>3
      <4> QED
        BY <1>2, <2>7, <3>2, <4>1 DEF PongsInOrder, PongsEchoPings
    <3>4. CASE j = L + 1
      <4>1. out'[j].data[1] = v
        BY <2>1, <2>3, <3>4
      <4>2. v < out[i].data[1]
        BY <2>4, <2>7, <3>1, <3>2
      <4> DEFINE d == out[i].data[1]
      <4>3. d \in Int
        <5>1. PICK w \in (0 - pings)..(0 - 1) : out[i].data = <<w>>
          BY <2>4, <2>7, <3>1, <3>2
        <5>2. d = w
          BY <5>1
        <5> QED
          BY <5>1, <5>2
      <4>4. out'[i].data[1] = d
        BY <3>2
      <4> HIDE DEF d
      <4> QED
        BY <2>3, <4>1, <4>2, <4>3, <4>4 DEF d
    <3> QED
      BY <2>1, <2>5, <2>7, <3>3, <3>4
  <2>8. PongsEchoPings'
    BY <1>1, <2>6, <2>7 DEF PongsEchoPings
  <2>9. PongsInOrder'
    BY <1>1, <1>2, <2>1, <2>6, <2>8 DEF PongsInOrder
  <2> QED
    BY <1>4, <1>5, <1>6, <2>9 DEF WsInv
<1> QED
  BY <1>1, <1>3, <1>7, <1>8, FrameWritten

-----------------------------------------------------------------------------
(* The peer                                                                  *)

\* A stream of whole frames, with m bytes of data and p pings sent.
InOrder(s, m, p) == Framed(s) /\ Whole(s) /\ Ordered(s) /\ InRange(s, m, p)

\* The fields of a head.
LEMMA HeadFields ==
  ASSUME NEW op, NEW n, NEW c, c = FrameHead(op, n)
  PROVE  c.cell = "head" /\ c.op = op /\ c.n = n
BY DEF FrameHead

\* The fields of a byte.
LEMMA ByteFields ==
  ASSUME NEW v, NEW c, c = Byte(v)
  PROVE  c.cell = "byte" /\ c.op = "" /\ c.n = v
BY DEF Byte

\* t is s and a data frame behind it, or a control frame.
WithData(t, s, op, m, n) == t = s \o (<<FrameHead(op, n)>> \o Bytes(m, n))
WithControl(t, s, op, q) ==
  t = s \o IF op = "close" THEN <<FrameHead(op, 0)>>
           ELSE <<FrameHead(op, 1), Byte(IF op = "ping" THEN 0 - q ELSE 0)>>

\* What was right of s, with m bytes of data and p pings sent, is right of t, with
\* m1 and q.
GoesOn(t, s, m, p, m1, q) ==
  /\ t \in Seq(Cells) /\ InOrder(t, m1, q)
  /\ \A v \in (0 - p)..(0 - 1) : Before(v, s) => Before(v, t)
NumbersGoOn(t, s, m, m1) ==
  \A g \in Nat : Numbered(s, g, m) /\ Complete(s, g, m) => Numbered(t, g, m1) /\ Complete(t, g, m1)

\* Heads and bytes are cells.
LEMMA CellsAre ==
  ASSUME NEW op \in Opcodes, NEW n \in Int
  PROVE  FrameHead(op, n) \in Cells /\ Byte(n) \in Cells
<1>1. op \in Opcodes \cup {""} /\ "" \in Opcodes \cup {""}
  OBVIOUS
<1> QED
  BY <1>1 DEF FrameHead, Byte, Cells

\* t is s and b, element by element.
Joined(t, s, b) ==
  /\ s \in Seq(Cells) /\ b \in Seq(Cells) /\ t \in Seq(Cells)
  /\ Len(s) \in Nat /\ Len(b) \in Nat /\ Len(t) = Len(s) + Len(b)
  /\ \A i \in 1..Len(s) : t[i] = s[i]
  /\ \A i \in 1..Len(b) : t[Len(s) + i] = b[i]

\* Concatenation joins.
LEMMA JoinedIs ==
  ASSUME NEW s \in Seq(Cells), NEW b \in Seq(Cells)
  PROVE  Joined(s \o b, s, b)
<1>1. s \o b \in Seq(Cells) /\ Len(s) \in Nat /\ Len(b) \in Nat /\ Len(s \o b) = Len(s) + Len(b)
  OBVIOUS
<1>2. \A i \in 1..Len(s) : (s \o b)[i] = s[i]
  OBVIOUS
<1>3. ASSUME NEW i \in 1..Len(b) PROVE (s \o b)[Len(s) + i] = b[i]
  OBVIOUS
<1> QED
  BY <1>1, <1>2, <1>3 DEF Joined

\* b is a frame.
IsFrame(b, op, n) ==
  /\ op \in Opcodes /\ n \in Nat /\ Len(b) = n + 1 /\ b[1] = FrameHead(op, n)
  /\ \A i \in 1..n : b[1 + i].cell = "byte" /\ b[1 + i].op = ""

\* The bytes of b are those of t behind s.
NewAre(t, s, b, n) == \A i \in 1..n : t[Len(s) + 1 + i] = b[1 + i]

\* What a frame is that is put behind a stream.
LEMMA FrameAppended ==
  ASSUME NEW s, NEW b, NEW t, Joined(t, s, b), NEW op, NEW n, IsFrame(b, op, n)
  PROVE  OneMore(t, s, op, n) /\ NewAre(t, s, b, n)
<1> DEFINE L == Len(s)
<1>1. /\ t \in Seq(Cells) /\ s \in Seq(Cells) /\ L \in Nat /\ Len(t) = L + Len(b)
      /\ \A i \in 1..L : t[i] = s[i]
      /\ \A i \in 1..Len(b) : t[L + i] = b[i]
  BY DEF Joined
<1>0. op \in Opcodes /\ n \in Nat /\ Len(b) = n + 1 /\ b[1] = FrameHead(op, n)
  BY DEF IsFrame
<1> HIDE DEF L
<1>2. Len(t) = L + 1 + n
  BY <1>0, <1>1
<1>3. t[L + 1] = b[1]
  <2>1. 1 \in 1..(n + 1)
    BY <1>0
  <2>2. 1 \in 1..Len(b)
    BY <1>0, <2>1
  <2> QED
    BY <1>1, <2>2
<1>4. ASSUME NEW i \in 1..n PROVE t[L + 1 + i] = b[1 + i]
  <2>1. 1 + i \in 1..(n + 1) /\ L + (1 + i) = L + 1 + i
    BY <1>0, <1>1
  <2>2. 1 + i \in 1..Len(b)
    BY <1>0, <2>1
  <2>3. t[L + (1 + i)] = b[1 + i]
    BY <1>1, <2>2
  <2> QED
    BY <2>1, <2>3
<1>5. OneMore(t, s, op, n)
  <2>1. \A i \in 1..n : t[L + 1 + i].cell = "byte" /\ t[L + 1 + i].op = ""
    BY <1>4 DEF IsFrame
  <2> QED
    BY <1>0, <1>1, <1>2, <1>3, <2>1 DEF OneMore, L
<1> QED
  BY <1>4, <1>5 DEF NewAre, L

\* Pings that have been read come before what is sent now.
LEMMA OneMoreBefore ==
  ASSUME NEW s, NEW t, NEW op, NEW n, OneMore(t, s, op, n), NEW v, Before(v, s),
         \A i \in 1..n : t[Len(s) + 1 + i].n < 0 => t[Len(s) + 1 + i].n < v
  PROVE  Before(v, t)
<1> DEFINE L == Len(s)
<1>1. /\ L \in Nat /\ n \in Nat /\ Len(t) = L + 1 + n /\ DOMAIN s = 1..L /\ DOMAIN t = 1..Len(t)
      /\ \A i \in 1..L : t[i] = s[i]
  BY CellTypes DEF OneMore
<1>2. t[L + 1].cell # "byte"
  <2>1. t[L + 1] = FrameHead(op, n)
    BY DEF OneMore
  <2>2. t[L + 1].cell = "head"
    BY <2>1, HeadFields
  <2> QED
    BY <2>2
<1>3. \A i \in 1..n : t[L + 1 + i].n < 0 => t[L + 1 + i].n < v
  OBVIOUS
<1> HIDE DEF L
<1>4. ASSUME NEW j \in DOMAIN t, IsByte(t, j), t[j].n < 0 PROVE t[j].n < v
  <2>1. CASE j \in 1..L
    <3>1. t[j] = s[j] /\ IsByte(s, j)
      BY <1>1, <1>4, <2>1 DEF IsByte
    <3> QED
      BY <1>1, <1>4, <2>1, <3>1 DEF Before
  <2>2. CASE j \notin 1..L
    <3>1. j # L + 1
      BY <1>2, <1>4 DEF IsByte
    <3>2. j - L - 1 \in 1..n /\ j = L + 1 + (j - L - 1)
      BY <1>1, <2>2, <3>1
    <3> QED
      BY <1>3, <1>4, <3>2
  <2> QED
    BY <2>1, <2>2
<1> QED
  BY <1>4 DEF Before

\* A head and the n bytes from number k on, cell by cell.
LEMMA BytesAre ==
  ASSUME NEW k \in Nat, NEW n \in Nat, NEW op \in Opcodes
  PROVE  LET b == <<FrameHead(op, n)>> \o Bytes(k, n)
         IN  /\ b \in Seq(Cells) /\ Len(b) = n + 1 /\ b[1] = FrameHead(op, n)
             /\ \A i \in 1..n : b[1 + i] = Byte(k + i)
<1>1. FrameHead(op, n) \in Cells /\ \A i \in 1..n : Byte(k + i) \in Cells
  BY CellsAre
<1> DEFINE h == <<FrameHead(op, n)>>
           d == [i \in 1..n |-> Byte(k + i)]
           b == h \o d
<1>2. h \in Seq(Cells) /\ Len(h) = 1 /\ h[1] = FrameHead(op, n)
  BY <1>1
<1>3. d \in Seq(Cells) /\ Len(d) = n /\ \A i \in 1..n : d[i] = Byte(k + i)
  BY <1>1
<1> HIDE DEF h, d
<1>4. /\ b \in Seq(Cells) /\ Len(b) = Len(h) + Len(d)
      /\ \A i \in 1..Len(h) : b[i] = h[i]
      /\ \A i \in 1..Len(d) : b[Len(h) + i] = d[i]
  <2>1. Joined(h \o d, h, d)
    BY <1>2, <1>3, JoinedIs
  <2> QED
    BY <2>1 DEF Joined
<1> HIDE DEF b
<1>5. 1 \in 1..Len(h)
  BY <1>2
<1>6. /\ b \in Seq(Cells) /\ Len(b) = n + 1 /\ b[1] = h[1]
  BY <1>2, <1>3, <1>4, <1>5
<1>7. \A i \in 1..n : b[1 + i] = d[i]
  BY <1>2, <1>3, <1>4
<1>8. b = <<FrameHead(op, n)>> \o Bytes(k, n)
  BY DEF b, h, d, Bytes
<1> QED
  BY <1>2, <1>3, <1>6, <1>7, <1>8

\* A frame with the next n bytes of data, or of a continuation.
LEMMA DataAdded ==
  ASSUME NEW s \in Seq(Cells), NEW op \in {"data", "continuation"}, NEW n \in Nat,
         NEW m \in Nat, NEW p \in Nat, NEW t, WithData(t, s, op, m, n), InOrder(s, m, p)
  PROVE  GoesOn(t, s, m, p, m + n, p) /\ (op = "data" => NumbersGoOn(t, s, m, m + n))
<1> DEFINE b == <<FrameHead(op, n)>> \o Bytes(m, n)
           L == Len(s)
           q == m + n
<1>1. op \in Opcodes /\ op # "ping"
  BY DEF Opcodes
<1>2. /\ b \in Seq(Cells) /\ Len(b) = n + 1 /\ b[1] = FrameHead(op, n)
      /\ \A i \in 1..n : b[1 + i] = Byte(m + i)
  BY <1>1, BytesAre
<1>3. t = s \o b
  BY DEF WithData
<1> HIDE DEF b
<1>4. \A i \in 1..n : b[1 + i].cell = "byte" /\ b[1 + i].op = "" /\ b[1 + i].n = m + i
  BY <1>2, ByteFields
<1>5. OneMore(t, s, op, n) /\ \A i \in 1..n : t[L + 1 + i] = b[1 + i]
  <2>1. Joined(t, s, b)
    BY <1>2, <1>3, JoinedIs
  <2>2. IsFrame(b, op, n)
    BY <1>1, <1>2, <1>4 DEF IsFrame
  <2>3. OneMore(t, s, op, n) /\ NewAre(t, s, b, n)
    BY ONLY <2>1, <2>2, FrameAppended
  <2> QED
    BY <2>3 DEF NewAre
<1>6. \A i \in 1..n : t[L + 1 + i].n = m + i
  BY <1>4, <1>5
<1>7. \A i \in 1..n : m + i > 0 /\ m < m + i /\ m + i <= m + n
  OBVIOUS
<1>8. q \in Nat /\ m <= q /\ p <= p
  OBVIOUS
<1>9. NewOfKind(t, s, op, n)
  BY <1>6, <1>7 DEF NewOfKind, OfKind
<1>10. NewInOrder(t, s, n, m, p, q, p)
  <2>1. ASSUME NEW i \in 1..n
        PROVE  LET v == t[L + 1 + i].n
               IN  /\ v > 0 => m < v /\ v <= q
                   /\ v < 0 => v < 0 - p /\ 0 - p <= v
    <3>1. t[L + 1 + i].n = m + i
      BY <1>6
    <3>2. m + i > 0 /\ m < m + i /\ m + i <= q /\ ~(m + i < 0)
      OBVIOUS
    <3> QED
      BY <3>1, <3>2
  <2>2. ASSUME NEW i \in 1..n, NEW j \in 1..n, i < j
        PROVE  LET v == t[L + 1 + i].n
                   w == t[L + 1 + j].n
               IN  /\ v > 0 /\ w > 0 => v < w
                   /\ v < 0 /\ w < 0 => v > w
    <3>1. t[L + 1 + i].n = m + i /\ t[L + 1 + j].n = m + j
      BY <1>6
    <3>2. m + i < m + j /\ ~(m + i < 0)
      BY <2>2
    <3> QED
      BY <3>1, <3>2
  <2> QED
    BY <2>1, <2>2 DEF NewInOrder
<1>11. NewAreNext(t, s, "data", n, m, q)
  BY <1>6 DEF NewAreNext
<1> HIDE DEF q
<1>12. Framed(t) /\ Whole(t)
  BY <1>1, <1>5, <1>9, OneMoreFramed DEF InOrder
<1>13. Ordered(t) /\ InRange(t, q, p)
  BY <1>5, <1>8, <1>10, OneMoreOrdered DEF InOrder
<1>14. ASSUME NEW v, Before(v, s) PROVE Before(v, t)
  <2>1. ASSUME NEW i \in 1..n, t[L + 1 + i].n < 0 PROVE FALSE
    <3>1. t[L + 1 + i].n = m + i
      BY <1>6
    <3>2. ~(m + i < 0)
      OBVIOUS
    <3> QED
      BY <2>1, <3>1, <3>2
  <2> QED
    BY <1>5, <1>14, <2>1, OneMoreBefore
<1>15. ASSUME op = "data", NEW g \in Nat, Numbered(s, g, m), Complete(s, g, m)
       PROVE  Numbered(t, g, q) /\ Complete(t, g, q)
  <2>1. Whole(s) /\ op # "continuation"
    BY <1>15 DEF InOrder
  <2>2. NewAreNext(t, s, op, n, m, q)
    BY <1>11, <1>15
  <2> QED
    BY <1>5, <1>8, <1>15, <2>1, <2>2, OneMoreNumbered
<1>16. t \in Seq(Cells)
  BY <1>5 DEF OneMore
<1> QED
  BY <1>12, <1>13, <1>14, <1>15, <1>16 DEF InOrder, GoesOn, NumbersGoOn, q

\* A control frame with one byte, or with none.
LEMMA ControlAdded ==
  ASSUME NEW s \in Seq(Cells), NEW op \in {"ping", "pong", "close"}, NEW m \in Nat, NEW p \in Nat,
         NEW q \in Nat, NEW t, op = "ping" => q = p + 1, op # "ping" => q = p,
         WithControl(t, s, op, q), InOrder(s, m, p)
  PROVE  GoesOn(t, s, m, p, m, q) /\ NumbersGoOn(t, s, m, m)
<1> DEFINE z == IF op = "ping" THEN 0 - q ELSE 0
           n == IF op = "close" THEN 0 ELSE 1
           b == IF op = "close" THEN <<FrameHead(op, 0)>> ELSE <<FrameHead(op, 1), Byte(z)>>
           L == Len(s)
<1>1. op \in Opcodes /\ n \in Nat /\ z \in Int /\ (op = "ping" => n = 1)
  BY DEF Opcodes
<1>2. /\ op = "close" => n = 0 /\ b = <<FrameHead(op, 0)>>
      /\ op # "close" => n = 1 /\ b = <<FrameHead(op, 1), Byte(z)>>
      /\ t = s \o b
  BY DEF WithControl
<1>3. /\ op = "ping" => q = p + 1 /\ z = 0 - q
      /\ op # "ping" => q = p /\ z = 0
  OBVIOUS
<1> HIDE DEF b, n, z
<1>4. /\ b \in Seq(Cells) /\ Len(b) = n + 1 /\ b[1] = FrameHead(op, n)
      /\ \A i \in 1..n : b[1 + i] = Byte(z)
  <2> DEFINE h0 == FrameHead(op, 0)
             h1 == FrameHead(op, 1)
             y == Byte(z)
  <2>1. h0 \in Cells /\ h1 \in Cells /\ y \in Cells
    BY <1>1, CellsAre
  <2>2. CASE op = "close"
    <3>1. b = <<h0>> /\ n = 0
      BY <1>2, <2>2
    <3>2. \A i \in 1..n : FALSE
      BY <3>1
    <3>3. h0 = FrameHead(op, n)
      BY <3>1
    <3> HIDE DEF h0
    <3>4. b \in Seq(Cells) /\ Len(b) = 1 /\ b[1] = h0
      BY <2>1, <3>1
    <3> QED
      BY <3>1, <3>2, <3>3, <3>4
  <2>3. CASE op # "close"
    <3>1. b = <<h1, y>> /\ n = 1
      BY <1>2, <2>3
    <3>2. \A i \in 1..n : i = 1 /\ 1 + i = 2
      BY <3>1
    <3>3. h1 = FrameHead(op, n)
      BY <3>1
    <3> HIDE DEF h1, y
    <3>4. Len(b) = 2 /\ b[1] = h1 /\ b[2] = y /\ b \in Seq(Cells)
      BY <2>1, <3>1
    <3>5. \A i \in 1..n : b[1 + i] = Byte(z)
      BY <3>2, <3>4 DEF y
    <3> QED
      BY <3>1, <3>3, <3>4, <3>5
  <2> QED
    BY <2>2, <2>3
<1>5. \A i \in 1..n : b[1 + i].cell = "byte" /\ b[1 + i].op = "" /\ b[1 + i].n = z
  BY <1>4, ByteFields
<1>6. OneMore(t, s, op, n) /\ \A i \in 1..n : t[L + 1 + i] = b[1 + i]
  <2>1. Joined(t, s, b)
    BY <1>2, <1>4, JoinedIs
  <2>2. IsFrame(b, op, n)
    BY <1>1, <1>4, <1>5 DEF IsFrame
  <2>3. OneMore(t, s, op, n) /\ NewAre(t, s, b, n)
    BY ONLY <2>1, <2>2, FrameAppended
  <2> QED
    BY <2>3 DEF NewAre
<1>7. \A i \in 1..n : t[L + 1 + i].n = z
  BY <1>5, <1>6
<1>9. z <= 0 /\ ~(z > 0) /\ (z < 0 => z < 0 - p /\ 0 - q <= z) /\ p <= q /\ m <= m
  BY <1>3
<1>10. ASSUME NEW i \in 1..n, NEW j \in 1..n PROVE ~(i < j)
  <2>1. n = 0 \/ n = 1
    BY <1>2
  <2> QED
    BY <2>1
<1>11. NewOfKind(t, s, op, n)
  <2>1. OfKind(op, z)
    <3>1. op = "ping" => z < 0
      BY <1>3
    <3>2. op # "ping" => z = 0
      BY <1>3
    <3> QED
      BY <3>1, <3>2 DEF OfKind
  <2> QED
    BY <1>7, <2>1 DEF NewOfKind
<1>12. NewInOrder(t, s, n, m, p, m, q)
  <2>1. ASSUME NEW i \in 1..n
        PROVE  LET v == t[L + 1 + i].n
               IN  /\ v > 0 => m < v /\ v <= m
                   /\ v < 0 => v < 0 - p /\ 0 - q <= v
    <3>1. t[L + 1 + i].n = z
      BY <1>7
    <3> QED
      BY <1>9, <3>1
  <2> QED
    BY <1>10, <2>1 DEF NewInOrder
<1>13. NewAreNext(t, s, op, n, m, m)
  BY <1>7, <1>9 DEF NewAreNext
<1>14. Framed(t) /\ Whole(t)
  BY <1>1, <1>6, <1>11, OneMoreFramed DEF InOrder
<1>15. Ordered(t) /\ InRange(t, m, q)
  <2>1. Ordered(s) /\ InRange(s, m, p)
    BY DEF InOrder
  <2>2. OneMore(t, s, op, n) /\ m \in Nat /\ p \in Nat /\ q \in Nat /\ m <= m /\ p <= q
    BY <1>6, <1>9
  <2> QED
    BY ONLY <1>12, <2>1, <2>2, OneMoreOrdered
<1>16. ASSUME NEW v \in (0 - p)..(0 - 1), Before(v, s) PROVE Before(v, t)
  <2>1. z < 0 => z < v
    BY <1>1, <1>9
  <2>2. ASSUME NEW i \in 1..n, t[L + 1 + i].n < 0 PROVE t[L + 1 + i].n < v
    <3>1. t[L + 1 + i].n = z
      BY <1>7
    <3> QED
      BY <2>1, <2>2, <3>1
  <2> QED
    BY <1>6, <1>16, <2>2, OneMoreBefore
<1>17. ASSUME NEW g \in Nat, Numbered(s, g, m), Complete(s, g, m)
       PROVE  Numbered(t, g, m) /\ Complete(t, g, m)
  <2>1. Whole(s) /\ op # "continuation"
    BY DEF InOrder
  <2> QED
    BY <1>6, <1>13, <1>17, <2>1, OneMoreNumbered
<1>18. t \in Seq(Cells)
  BY <1>6 DEF OneMore
<1> QED
  BY <1>14, <1>15, <1>16, <1>17, <1>18 DEF InOrder, GoesOn, NumbersGoOn

\* The peer sends the HTTP head it owes.
LEMMA PeerOpensStep ==
  ASSUME WsInv, PeerOpens
  PROVE  WsInv'
<1>1. /\ peer = "silent" /\ in' = <<HttpHead>> /\ peer' = "up"
      /\ UNCHANGED <<role, stage, frames, sent, pings, reader, ping, got, writer, deadline, writes,
                     out, closed, closer>>
  BY DEF PeerOpens, peerVars, readVars, writeVars, closeVars
<1>2. stage # "open" /\ ~(role = "accept" /\ stage = "reply")
  BY <1>1 DEF WsInv, Opening
<1>3. /\ out = <<>> /\ sent = 0 /\ pings = 0 /\ got = <<>>
      /\ reader = "reading" /\ writer = "idle" /\ closer = "idle"
  BY <1>2 DEF WsInv, Opening
<1>4. in' \in Seq(Cells)
  <2>1. HttpHead \in Cells
    <3>1. "" \in Opcodes \cup {""}
      OBVIOUS
    <3> QED
      BY <3>1 DEF HttpHead, Cells
  <2> QED
    BY <1>1, <2>1
<1>5. Opening'
  <2>1. in' \in {<<>>, <<HttpHead>>}
    BY <1>1
  <2> QED
    BY <1>1, <1>2, <1>3, <1>4, <2>1 DEF Opening
<1>6. TypeOK'
  BY <1>1 DEF WsInv, TypeOK
<1>7. FramesInOrder'
  BY <1>1, <1>2 DEF FramesInOrder
<1>8. DataInOrder'
  BY <1>1, <1>2 DEF WsInv, DataInOrder
<1>9. PongsInOrder'
  <2>1. out' = <<>> /\ DOMAIN out' = {} /\ out' \in Seq(OutFrames) /\ reader' = "reading"
    BY <1>1, <1>3
  <2> QED
    BY <2>1 DEF PongsInOrder, PongsEchoPings
<1> QED
  BY <1>5, <1>6, <1>7, <1>8, <1>9 DEF WsInv

\* A peer that only answers sends over an open connection.
LEMMA MaySendWhenOpen ==
  ASSUME WsInv, ~ServerFirst, MaySend
  PROVE  /\ stage = "open" /\ peer = "up" /\ in \in Seq(Cells) /\ sent \in Nat /\ pings \in Nat
         /\ frames + 1 \in 0..MaxFrames
         /\ reader \in {"reading", "ponging"} =>
              /\ InOrder(in, sent, pings)
              /\ ~Fragments => Numbered(in, Len(got), sent) /\ Complete(in, Len(got), sent)
         /\ got \in Seq(Int) /\ Len(got) \in Nat /\ (~Fragments => Len(got) <= sent)
<1>1. peer = "up" /\ frames < MaxFrames /\ (role = "accept" => stage = "open")
      /\ (role # "accept" => out # <<>>)
  BY DEF MaySend
<1>2. stage = "open"
  BY <1>1, OpenFor
<1>3. in \in Seq(Cells) /\ sent \in Nat /\ pings \in Nat /\ got \in Seq(Int) /\ frames \in 0..MaxFrames
  BY DEF WsInv, TypeOK, Opening
<1>4. frames + 1 \in 0..MaxFrames
  BY <1>1, <1>3, BoundsAssumption
<1>5. Len(got) \in Nat
  BY <1>3
<1>6. reader \in {"reading", "ponging"} => InOrder(in, sent, pings)
  BY <1>1, <1>2 DEF WsInv, FramesInOrder, InOrder
<1>7. ~Fragments =>
        /\ Len(got) <= sent
        /\ reader \in {"reading", "ponging"} => Numbered(in, Len(got), sent) /\ Complete(in, Len(got), sent)
  BY <1>1, <1>2 DEF WsInv, DataInOrder
<1> QED
  BY <1>1, <1>2, <1>3, <1>4, <1>5, <1>6, <1>7

\* What the peer sends goes on where the stream is.
LEMMA PeerSends ==
  ASSUME WsInv, ~ServerFirst, MaySend, frames' = frames + 1, peer' \in {"up", "closing"},
         UNCHANGED <<role, stage, reader, ping, got, writer, deadline, writes, out, closed, closer>>,
         in' \in Seq(Cells), sent' \in Nat, pings' \in Nat, sent <= sent', pings <= pings',
         reader \in {"reading", "ponging"} =>
           /\ InOrder(in', sent', pings')
           /\ \A v \in (0 - pings)..(0 - 1) : Before(v, in) => Before(v, in')
           /\ ~Fragments => Numbered(in', Len(got), sent') /\ Complete(in', Len(got), sent')
  PROVE  WsInv'
<1>1. /\ stage = "open" /\ peer = "up" /\ sent \in Nat /\ frames' \in 0..MaxFrames
      /\ got \in Seq(Int) /\ Len(got) \in Nat /\ (~Fragments => Len(got) <= sent)
  BY MaySendWhenOpen
<1>2. TypeOK'
  BY <1>1 DEF WsInv, TypeOK
<1>3. Opening'
  BY <1>1 DEF WsInv, Opening
<1>4. FramesInOrder'
  BY DEF FramesInOrder, InOrder
<1>5. DataInOrder'
  <2>1. ~Fragments => Len(got) <= sent'
    BY <1>1
  <2> QED
    BY <2>1 DEF DataInOrder
<1>6. PongsInOrder'
  BY <1>1, PongsKept
<1> QED
  BY <1>2, <1>3, <1>4, <1>5, <1>6 DEF WsInv

\* The peer sends a message, in one frame or in two.
LEMMA PeerSendsDataStep ==
  ASSUME WsInv, ~ServerFirst, NEW n \in Lengths, NEW more \in IF Fragments THEN {0, 1} ELSE {0},
         PeerSendsData(n, more)
  PROVE  WsInv'
<1> DEFINE one == in \o (<<FrameHead("data", n)>> \o Bytes(sent, n))
           two == <<FrameHead("continuation", more)>> \o Bytes(sent + n, more)
           m1 == sent + n
<1>1. /\ MaySend /\ frames' = frames + 1 /\ sent' = sent + n + more
      /\ in' = in \o <<FrameHead("data", n)>> \o Bytes(sent, n) \o IF more > 0 THEN two ELSE <<>>
      /\ UNCHANGED <<role, stage, peer, pings, reader, ping, got, writer, deadline, writes, out,
                     closed, closer>>
  BY DEF PeerSendsData, readVars, writeVars, closeVars
<1>2. n \in Nat /\ more \in Nat /\ (~Fragments => more = 0)
  BY LengthsAssumption
<1>3. /\ stage = "open" /\ peer = "up" /\ in \in Seq(Cells) /\ sent \in Nat /\ pings \in Nat
      /\ reader \in {"reading", "ponging"} =>
           /\ InOrder(in, sent, pings)
           /\ ~Fragments => Numbered(in, Len(got), sent) /\ Complete(in, Len(got), sent)
      /\ Len(got) \in Nat
  BY <1>1, MaySendWhenOpen
<1>4. "data" \in Opcodes /\ "continuation" \in Opcodes
  BY DEF Opcodes
<1>5. one \in Seq(Cells) /\ two \in Seq(Cells) /\ m1 \in Nat /\ m1 + more \in Nat /\ sent' = m1 + more
  <2> DEFINE b == <<FrameHead("data", n)>> \o Bytes(sent, n)
  <2>1. b \in Seq(Cells)
    BY <1>2, <1>3, <1>4, BytesAre
  <2>2. m1 \in Nat
    BY <1>2, <1>3
  <2>3. two \in Seq(Cells)
    <3> DEFINE m2 == sent + n
    <3>1. m2 \in Nat
      BY <2>2
    <3>2. two = <<FrameHead("continuation", more)>> \o Bytes(m2, more)
      OBVIOUS
    <3> HIDE DEF m2, two
    <3> QED
      BY <1>2, <1>4, <3>1, <3>2, BytesAre
  <2> HIDE DEF b, two, m1
  <2>4. in \o b \in Seq(Cells)
    BY <1>3, <2>1
  <2>5. one \in Seq(Cells)
    BY <2>4 DEF b
  <2>6. sent' = m1 + more /\ m1 + more \in Nat
    BY <1>1, <1>2, <1>3, <2>2 DEF m1
  <2> QED
    BY <2>2, <2>3, <2>5, <2>6
<1>6. in' = IF more > 0 THEN one \o two ELSE one
  <2> DEFINE h == <<FrameHead("data", n)>>
             d == Bytes(sent, n)
  <2>1. h \in Seq(Cells) /\ d \in Seq(Cells)
    <3>1. FrameHead("data", n) \in Cells /\ \A i \in 1..n : Byte(sent + i) \in Cells
      BY <1>2, <1>3, <1>4, CellsAre
    <3> QED
      BY <1>2, <3>1 DEF Bytes
  <2> HIDE DEF h, d, two
  <2>2. in \o (h \o d) = (in \o h) \o d
    BY <1>3, <2>1
  <2>3. one = (in \o h) \o d
    BY <2>2 DEF h, d
  <2>4. in' = ((in \o h) \o d) \o IF more > 0 THEN two ELSE <<>>
    BY <1>1 DEF h, d
  <2> HIDE DEF one
  <2>5. in' = one \o IF more > 0 THEN two ELSE <<>>
    BY <2>3, <2>4
  <2>6. one \o <<>> = one
    BY <1>5
  <2> QED
    BY <2>5, <2>6
<1>7. in' \in Seq(Cells)
  <2> HIDE DEF one, two
  <2> QED
    BY <1>5, <1>6
<1>8. ASSUME reader \in {"reading", "ponging"}
      PROVE  /\ InOrder(in', sent', pings')
             /\ \A v \in (0 - pings)..(0 - 1) : Before(v, in) => Before(v, in')
             /\ ~Fragments => Numbered(in', Len(got), sent') /\ Complete(in', Len(got), sent')
  <2> DEFINE g == Len(got)
  <2>1. /\ InOrder(one, m1, pings)
        /\ \A v \in (0 - pings)..(0 - 1) : Before(v, in) => Before(v, one)
        /\ ~Fragments => Numbered(one, g, m1) /\ Complete(one, g, m1)
    <3>1. InOrder(in, sent, pings) /\ g \in Nat
      BY <1>3, <1>8
    <3>2. ~Fragments => Numbered(in, g, sent) /\ Complete(in, g, sent)
      BY <1>3, <1>8
    <3>3. "data" \in {"data", "continuation"} /\ WithData(one, in, "data", sent, n)
      BY DEF WithData
    <3>4. in \in Seq(Cells) /\ n \in Nat /\ sent \in Nat /\ pings \in Nat
      BY <1>2, <1>3
    <3> HIDE DEF one, g
    <3>5. GoesOn(one, in, sent, pings, sent + n, pings) /\ NumbersGoOn(one, in, sent, sent + n)
      BY ONLY <3>1, <3>3, <3>4, DataAdded
    <3> QED
      BY <3>1, <3>2, <3>5 DEF GoesOn, NumbersGoOn
  <2>2. CASE more > 0
    <3>1. WithData(in', one, "continuation", m1, more) /\ Fragments
      BY <1>2, <1>6, <2>2 DEF WithData
    <3>2. one \in Seq(Cells) /\ more \in Nat /\ m1 \in Nat /\ pings \in Nat
          /\ "continuation" \in {"data", "continuation"}
      BY <1>2, <1>3, <1>5
    <3> HIDE DEF one, m1
    <3>3. GoesOn(in', one, m1, pings, m1 + more, pings)
      BY ONLY <2>1, <3>1, <3>2, DataAdded
    <3> QED
      BY <1>1, <1>5, <2>1, <3>1, <3>3 DEF GoesOn
  <2>3. CASE ~(more > 0)
    <3>1. in' = one
      BY <1>6, <2>3
    <3>2. sent' = m1
      <4> HIDE DEF m1
      <4> QED
        BY <1>2, <1>5, <2>3
    <3> HIDE DEF one, m1
    <3> QED
      BY <1>1, <2>1, <3>1, <3>2
  <2> QED
    BY <2>2, <2>3
<1>9. sent' \in Nat /\ sent <= sent' /\ pings' \in Nat /\ pings <= pings'
  BY <1>1, <1>2, <1>3
<1>10. peer' \in {"up", "closing"}
  BY <1>1, <1>3
<1> QED
  BY <1>1, <1>7, <1>8, <1>9, <1>10, PeerSends

\* The peer sends a control frame.
LEMMA PeerSendsControlStep ==
  ASSUME WsInv, ~ServerFirst, NEW op, PeerSendsControl(op)
  PROVE  WsInv'
<1>1. /\ MaySend /\ frames' = frames + 1 /\ op \in {"ping", "pong", "close"}
      /\ pings' = IF op = "ping" THEN pings + 1 ELSE pings
      /\ peer' = IF op = "close" THEN "closing" ELSE peer
      /\ UNCHANGED <<role, stage, sent, reader, ping, got, writer, deadline, writes, out, closed,
                     closer>>
  BY DEF PeerSendsControl, readVars, writeVars, closeVars
<1>2. in' = in \o IF op = "close" THEN <<FrameHead(op, 0)>>
                  ELSE <<FrameHead(op, 1), Byte(IF op = "ping" THEN 0 - pings' ELSE 0)>>
  BY DEF PeerSendsControl
<1>3. /\ stage = "open" /\ peer = "up" /\ in \in Seq(Cells) /\ sent \in Nat /\ pings \in Nat
      /\ reader \in {"reading", "ponging"} =>
           /\ InOrder(in, sent, pings)
           /\ ~Fragments => Numbered(in, Len(got), sent) /\ Complete(in, Len(got), sent)
      /\ Len(got) \in Nat
  BY <1>1, MaySendWhenOpen
<1>4. pings' \in Nat /\ pings <= pings' /\ peer' \in {"up", "closing"} /\ sent' \in Nat /\ sent <= sent'
  BY <1>1, <1>3
<1>5. in' \in Seq(Cells)
  <2>1. op \in Opcodes /\ 0 - pings' \in Int
    BY <1>1, <1>4 DEF Opcodes
  <2> DEFINE y == Byte(IF op = "ping" THEN 0 - pings' ELSE 0)
             h0 == FrameHead(op, 0)
             h1 == FrameHead(op, 1)
  <2>2. h0 \in Cells /\ h1 \in Cells /\ y \in Cells
    BY <2>1, CellsAre
  <2> HIDE DEF y, h0, h1
  <2>3. in \o <<h0>> \in Seq(Cells) /\ in \o <<h1, y>> \in Seq(Cells)
    BY <1>3, <2>2
  <2>4. in' = in \o IF op = "close" THEN <<h0>> ELSE <<h1, y>>
    BY <1>2 DEF y, h0, h1
  <2> QED
    BY <2>3, <2>4
<1>6. ASSUME reader \in {"reading", "ponging"}
      PROVE  /\ InOrder(in', sent', pings')
             /\ \A v \in (0 - pings)..(0 - 1) : Before(v, in) => Before(v, in')
             /\ ~Fragments => Numbered(in', Len(got), sent') /\ Complete(in', Len(got), sent')
  <2> DEFINE g == Len(got)
             q == pings'
             t == in'
  <2>1. InOrder(in, sent, pings) /\ g \in Nat /\ (~Fragments => Numbered(in, g, sent) /\ Complete(in, g, sent))
    BY <1>3, <1>6
  <2>2. /\ WithControl(t, in, op, q)
        /\ (op = "ping" => q = pings + 1) /\ (op # "ping" => q = pings) /\ q \in Nat
        /\ op \in {"ping", "pong", "close"} /\ in \in Seq(Cells) /\ sent \in Nat /\ pings \in Nat
    BY <1>1, <1>2, <1>3, <1>4 DEF WithControl
  <2> HIDE DEF g, q, t
  <2>3. GoesOn(t, in, sent, pings, sent, q) /\ NumbersGoOn(t, in, sent, sent)
    BY ONLY <2>1, <2>2, ControlAdded
  <2> QED
    BY <1>1, <2>1, <2>3 DEF g, q, t, GoesOn, NumbersGoOn
<1> QED
  BY <1>1, <1>4, <1>5, <1>6, PeerSends

\* The peer goes, and what is on its way is cut short anywhere.
LEMMA PeerGoesStep ==
  ASSUME WsInv, PeerGoes
  PROVE  WsInv'
<1>1. /\ peer \in {"up", "closing"} /\ peer' = "gone"
      /\ UNCHANGED <<role, stage, frames, sent, pings, reader, ping, got, writer, deadline, writes,
                     out, closed, closer>>
  BY DEF PeerGoes, peerVars, readVars, writeVars, closeVars
<1>2. PICK k \in 0..Len(in) : in' = SubSeq(in, 1, k)
  BY DEF PeerGoes
<1>3. in \in Seq(Cells) /\ Len(in) \in Nat
  BY DEF WsInv, Opening
<1>4. Begins(in', in)
  <2> DEFINE t == SubSeq(in, 1, k)
  <2>1. t \in Seq(Cells) /\ Len(t) = k
    BY <1>3
  <2>2. ASSUME NEW i \in 1..k PROVE t[i] = in[i]
    <3>1. t[i] = in[1 + i - 1] /\ 1 + i - 1 = i
      BY <1>3
    <3> QED
      BY <3>1
  <2> HIDE DEF t
  <2>3. in' = t
    BY <1>2 DEF t
  <2>4. Len(t) <= Len(in) /\ \A i \in 1..Len(t) : t[i] = in[i]
    BY <1>3, <2>1, <2>2
  <2> QED
    BY <1>3, <2>1, <2>3, <2>4 DEF Begins
<1>5. in' \in Seq(Cells)
  BY <1>4 DEF Begins
<1>6. in \in {<<>>, <<HttpHead>>} => in' \in {<<>>, <<HttpHead>>}
  <2>1. CASE in = <<>>
    <3>1. Len(in') = 0
      BY <1>4, <1>5, <2>1 DEF Begins
    <3> QED
      BY <1>5, <3>1
  <2>2. CASE in = <<HttpHead>>
    <3>1. Len(in) = 1 /\ in[1] = HttpHead
      BY <2>2
    <3>2. Len(in') \in Nat /\ Len(in') <= 1 /\ (Len(in') = 1 => in'[1] = HttpHead)
      BY <1>4, <1>5, <3>1 DEF Begins
    <3>3. CASE Len(in') = 0
      BY <1>5, <3>3
    <3>4. CASE Len(in') = 1
      BY <1>5, <3>2, <3>4
    <3> QED
      BY <3>2, <3>3, <3>4
  <2> QED
    BY <2>1, <2>2
<1>7. in = <<>> => in' = <<>>
  <2> SUFFICES ASSUME in = <<>> PROVE in' = <<>>
    OBVIOUS
  <2>1. Len(in') = 0
    BY <1>4, <1>5 DEF Begins
  <2> QED
    BY <1>5, <2>1
<1>8. Opening'
  BY <1>1, <1>5, <1>6, <1>7 DEF WsInv, Opening
<1>9. TypeOK'
  BY <1>1 DEF WsInv, TypeOK
<1>10. FramesInOrder'
  BY <1>1, <1>4, BeginsKept DEF WsInv, FramesInOrder
<1>11. DataInOrder'
  BY <1>1, <1>4, BeginsKept DEF WsInv, DataInOrder
<1>12. PongsInOrder'
  <2>1. \A v : Before(v, in) => Before(v, in')
    BY <1>4, BeginsKept
  <2>2. pings' \in Nat /\ pings <= pings'
    BY <1>1 DEF WsInv, TypeOK
  <2>3. reader' = "ponging" => reader = "ponging" /\ stage' = "open"
    BY <1>1 DEF WsInv, PongsInOrder
  <2> QED
    BY <1>1, <2>1, <2>2, <2>3, PongsKept
<1> QED
  BY <1>8, <1>9, <1>10, <1>11, <1>12 DEF WsInv

\* A step of somebody else.
LEMMA WsStutters ==
  ASSUME WsInv, UNCHANGED vars
  PROVE  WsInv'
<1>1. UNCHANGED <<role, stage, in, peer, frames, sent, pings, reader, ping, got, writer, deadline,
                  writes, out, closed, closer>>
  BY DEF vars, peerVars, readVars, writeVars, closeVars
<1>2. Opening'
  BY <1>1 DEF WsInv, Opening
<1>3. TypeOK'
  BY <1>1 DEF WsInv, TypeOK
<1>4. PongsInOrder' /\ FramesInOrder' /\ DataInOrder'
  BY <1>1, NothingComes, StreamKept
<1> QED
  BY <1>2, <1>3, <1>4 DEF WsInv

\* Every step keeps the invariant.
LEMMA WsStep ==
  ASSUME ~ServerFirst, WsInv, [Next]_vars
  PROVE  WsInv'
<1>1. CASE Request
  BY <1>1, RequestStep
<1>2. CASE Reply
  BY <1>2, ReplyStep
<1>3. CASE Refuse
  BY <1>3, RefuseStep
<1>4. ASSUME NEW op \in Opcodes, NEW n \in Sizes,
             ReadPing(n) \/ Skip(op, n) \/ ReadData(n) \/ ReadClose(n) \/ ReadCut(op, n)
      PROVE  WsInv'
  BY <1>4, ReadPingStep, SkipStep, ReadDataStep, ReadCloseStep, ReadCutStep
<1>5. CASE ReadEnd
  BY <1>5, ReadEndStep
<1>6. CASE Pong
  BY <1>6, PongStep
<1>7. CASE WriteStep
  BY <1>7, WriteEndStep, CloseFrameStep, CloseRawStep DEF WriteStep
<1>8. CASE WriteBegin
  BY <1>8, WriteBeginStep
<1>9. CASE DeadlinePasses
  BY <1>9, DeadlinePassesStep
<1>10. CASE CloseFlag
  BY <1>10, CloseFlagStep
<1>11. CASE PeerOpens
  BY <1>11, PeerOpensStep
<1>12. CASE PeerGoes
  BY <1>12, PeerGoesStep
<1>13. ASSUME NEW op \in Opcodes, PeerSendsControl(op)
       PROVE  WsInv'
  BY <1>13, PeerSendsControlStep
<1>14. ASSUME NEW n \in Lengths, NEW more \in IF Fragments THEN {0, 1} ELSE {0}, PeerSendsData(n, more)
       PROVE  WsInv'
  BY <1>14, PeerSendsDataStep
<1>15. CASE UNCHANGED vars
  BY <1>15, WsStutters
<1>16. Next \/ UNCHANGED vars
  OBVIOUS
<1>17. ReadStep => WsInv'
  BY <1>4, <1>5, <1>6 DEF ReadStep
<1>18. PeerStep => WsInv'
  BY <1>11, <1>12, <1>13, <1>14 DEF PeerStep
<1> QED
  BY <1>1, <1>2, <1>3, <1>7, <1>8, <1>9, <1>10, <1>15, <1>16, <1>17, <1>18 DEF Next

\* The inductive invariant is one, for a server that only answers.
THEOREM WsInvariant ==
  ASSUME ~ServerFirst
  PROVE  Spec => []WsInv
<1>1. Init => WsInv
  BY WsInit
<1>2. WsInv /\ [Next]_vars => WsInv'
  BY WsStep
<1> QED
  BY <1>1, <1>2, PTL DEF Spec

\* Every pong written answers a ping that was sent, no ping twice, and in the order of
\* the pings, while others write and close (Read answers a ping before it reads on).
THEOREM PongsAlwaysEchoPings ==
  ASSUME ~ServerFirst
  PROVE  Spec => []PongsEchoPings
<1>1. WsInv => PongsEchoPings
  BY DEF WsInv, PongsInOrder
<1>2. Spec => []WsInv
  BY WsInvariant
<1> QED
  BY <1>1, <1>2, PTL

-----------------------------------------------------------------------------
(* The byte stream                                                           *)

\* There is a largest buffer.
Largest == CHOOSE s \in Spaces : \A t \in Spaces : t <= s

\* No buffer is larger than it.
LEMMA LargestSpace ==
  Largest \in Nat /\ \A s \in Spaces : s \in Nat /\ s <= Largest
<1>1. \E s \in Spaces : \A t \in Spaces : t <= s
  BY SpacesAssumption
<1>2. Largest \in Spaces /\ \A t \in Spaces : t <= Largest
  BY <1>1 DEF Largest
<1> QED
  BY <1>2, SpacesAssumption

\* What the pieces of the frame that is being read hold is what follows.
LEMMA PayloadFollows ==
  ASSUME WsInv, ~Fragments, Reading, NEW n, IsHead("data", n), NEW b \in 0..n, b + 1 <= Len(in)
  PROVE  /\ Payload(b) = Stream!Following(b)
         /\ Payload(b) \in Seq(Int) /\ Len(Payload(b)) = b
<1> DEFINE g == Len(got)
<1>1. /\ n \in Nat /\ in \in Seq(Cells) /\ in # <<>> /\ pings \in Nat /\ sent \in Nat
      /\ Framed(in) /\ InRange(in, sent, pings) /\ stage = "open" /\ reader = "reading"
      /\ in[1].cell = "head" /\ in[1].op = "data" /\ in[1].n = n
  BY HeadIs
<1>2. b \in Nat /\ \A i \in 1..b : i \in 1..n /\ i + 1 <= Len(in)
  <2>1. Len(in) \in Nat
    BY <1>1
  <2> QED
    BY <1>1, <2>1
<1>3. g \in Nat /\ Numbered(in, g, sent)
  BY <1>1 DEF WsInv, DataInOrder, TypeOK
<1>4. Payload(b) = [i \in 1..b |-> in[i + 1].n] /\ Payload(b) \in Seq(Int) /\ Len(Payload(b)) = b
  BY <1>1, <1>2, PayloadIs
<1> HIDE DEF g
<1>5. \A i \in 1..b : in[i + 1].n = g + i
  BY <1>1, <1>2, <1>3, FirstData
<1>6. Payload(b) = [i \in 1..b |-> g + i]
  BY <1>4, <1>5
<1> QED
  BY <1>4, <1>6 DEF g, Stream!Following

\* A step of the stream in which b bytes are read, and perhaps the end.
LEMMA StreamReads ==
  ASSUME WsInv, ~Fragments, WsInv', reader \in {"reading", "ponging"},
         UNCHANGED sent, NEW b \in 0..Largest, got' = got \o Stream!Following(b),
         Len(got') = Len(got) + b, reader' \in {"reading", "ponging", "ended"}
  PROVE  Stream!Next
<1>1. Len(got) + b <= sent
  BY DEF WsInv, DataInOrder
<1>2. CASE reader' = "ended"
  <2>1. Stream!End(b)
    BY <1>1, <1>2 DEF Stream!End
  <2> QED
    BY <2>1 DEF Stream!Next, Largest
<1>3. CASE reader' # "ended"
  <2>1. Stream!Read(b)
    BY <1>1, <1>3 DEF Stream!Read
  <2> QED
    BY <2>1 DEF Stream!Next, Largest
<1> QED
  BY <1>2, <1>3

\* A Read that brings nothing changes nothing.
LEMMA NothingFollows ==
  ASSUME WsInv
  PROVE  0 \in 0..Largest /\ got = got \o Stream!Following(0) /\ Len(got) = Len(got) + 0
<1>1. got \in Seq(Int) /\ Len(got) \in Nat
  BY DEF WsInv, TypeOK
<1>2. Stream!Following(0) = <<>>
  <2>1. Stream!Following(0) = [i \in 1..0 |-> Len(got) + i]
    BY DEF Stream!Following
  <2>2. [i \in 1..0 |-> Len(got) + i] = <<>>
    OBVIOUS
  <2> QED
    BY <2>1, <2>2
<1>3. got \o <<>> = got
  BY <1>1
<1> QED
  BY <1>1, <1>2, <1>3, LargestSpace

\* Read and the end of the stream, as steps of ByteStream.
LEMMA ReadStepReads ==
  ASSUME WsInv, ~Fragments, WsInv', ReadStep
  PROVE  Stream!Next \/ UNCHANGED Stream!vars
<1>1. ASSUME NEW op \in Opcodes, NEW n \in Sizes, ReadPing(n) \/ Skip(op, n)
      PROVE  UNCHANGED Stream!vars
  BY <1>1 DEF ReadPing, Skip, Reading, peerVars, readVars, Stream!vars
<1>2. ASSUME NEW n \in Sizes, ReadData(n)
      PROVE  Stream!Next \/ UNCHANGED Stream!vars
  <2>1. Reading /\ IsHead("data", n) /\ Arrived(n) /\ sent' = sent
    BY <1>2 DEF ReadData, peerVars
  <2>2. n \in Nat /\ Len(in) \in Nat /\ reader = "reading"
    BY <2>1, HeadIs
  <2>3. PICK space \in Spaces : IF n <= space THEN got' = got \o Payload(n) /\ reader' = reader
                                ELSE reader' = "panicked" /\ got' = got
    BY <1>2 DEF ReadData
  <2>4. CASE n <= space
    <3>1. n \in 0..Largest
      BY <2>2, <2>4, LargestSpace
    <3>2. n \in 0..n /\ n + 1 <= Len(in)
      BY <2>1, <2>2 DEF Arrived
    <3>3. Payload(n) = Stream!Following(n) /\ Payload(n) \in Seq(Int) /\ Len(Payload(n)) = n
      BY <2>1, <3>2, PayloadFollows
    <3>4. got' = got \o Payload(n) /\ reader' = reader /\ got \in Seq(Int)
      BY <2>3, <2>4 DEF WsInv, TypeOK
    <3>5. got' = got \o Stream!Following(n)
      BY <3>3, <3>4
    <3>6. Len(got') = Len(got) + n
      BY <3>3, <3>4, Longer
    <3> QED
      BY <2>1, <2>2, <3>1, <3>4, <3>5, <3>6, StreamReads
  <2>5. CASE ~(n <= space)
    BY <2>1, <2>2, <2>3, <2>5 DEF Stream!vars
  <2> QED
    BY <2>4, <2>5
<1>3. ASSUME NEW n \in Sizes, ReadClose(n)
      PROVE  Stream!Next
  <2>1. reader = "reading" /\ reader' = "ended" /\ got' = got /\ sent' = sent
    BY <1>3 DEF ReadClose, Reading, peerVars
  <2> QED
    BY <2>1, NothingFollows, StreamReads
<1>4. ASSUME NEW op \in Opcodes, NEW n \in Sizes, ReadCut(op, n)
      PROVE  Stream!Next \/ UNCHANGED Stream!vars
  <2>1. Reading /\ IsHead(op, n) /\ n \in Nat /\ ~(Len(in) > n) /\ sent' = sent /\ reader = "reading"
    BY <1>4, ReadCutBrings DEF Reading
  <2>2. CASE reader' = "panicked" /\ got' = got
    BY <2>1, <2>2 DEF Stream!vars
  <2>3. ASSUME NEW b \in Nat, b = 0 \/ op = "data", b + 1 <= Len(in), NEW space \in Spaces, b <= space,
               got' = got \o Payload(b), reader' = "ended"
        PROVE  Stream!Next
    <3>1. b \in 0..Largest
      BY <2>3, LargestSpace
    <3>2. got' = got \o Stream!Following(b) /\ Len(got') = Len(got) + b
      <4>1. CASE op = "data"
        <5>1. Len(in) \in Nat
          BY <2>1, HeadIs
        <5>2. b \in 0..n
          BY <2>1, <2>3, <5>1
        <5>3. Payload(b) = Stream!Following(b) /\ Payload(b) \in Seq(Int) /\ Len(Payload(b)) = b
          BY <2>1, <2>3, <4>1, <5>2, PayloadFollows
        <5>4. got \in Seq(Int)
          BY DEF WsInv, TypeOK
        <5> QED
          BY <2>3, <5>3, <5>4, Longer
      <4>2. CASE op # "data"
        <5>1. b = 0
          BY <2>3, <4>2
        <5>2. in \in Seq(Cells)
          BY <2>1, HeadIs
        <5>3. Payload(b) = [i \in 1..b |-> in[i + 1].n]
          BY <2>3, <5>2, PayloadIs
        <5>4. Payload(b) = Stream!Following(b)
          <6>1. [i \in 1..0 |-> in[i + 1].n] = [i \in 1..0 |-> Len(got) + i]
            OBVIOUS
          <6> QED
            BY <5>1, <5>3, <6>1 DEF Stream!Following
        <5>5. got' = got
          BY <2>3, <5>1, <5>4, NothingFollows
        <5> QED
          BY <2>3, <5>1, <5>4, <5>5, NothingFollows
      <4> QED
        BY <4>1, <4>2
    <3> QED
      BY <2>1, <2>3, <3>1, <3>2, StreamReads
  <2>4. \/ reader' = "panicked" /\ got' = got
        \/ reader' = "ended" /\ \E b \in Nat : /\ b = 0 \/ op = "data"
                                               /\ b + 1 <= Len(in)
                                               /\ \E space \in Spaces : b <= space
                                               /\ got' = got \o Payload(b)
    BY <1>4, ReadCutBrings
  <2> QED
    BY <2>2, <2>3, <2>4
<1>5. CASE ReadEnd
  <2>1. reader = "reading" /\ reader' = "ended" /\ got' = got /\ sent' = sent
    BY <1>5 DEF ReadEnd, peerVars
  <2> QED
    BY <2>1, NothingFollows, StreamReads
<1>6. CASE Pong
  BY <1>6 DEF Pong, peerVars, Stream!vars
<1> QED
  BY <1>1, <1>2, <1>3, <1>4, <1>5, <1>6 DEF ReadStep

\* Every step is one of ByteStream, or stutters.
LEMMA StepStreams ==
  ASSUME ~ServerFirst, ~Fragments, WsInv, [Next]_vars
  PROVE  Stream!Next \/ UNCHANGED Stream!vars
<1>1. WsInv'
  BY WsStep
<1>2. CASE ReadStep
  BY <1>1, <1>2, ReadStepReads
<1>3. CASE Request \/ Reply \/ Refuse \/ WriteStep \/ WriteBegin \/ DeadlinePasses \/ CloseFlag
  BY <1>3 DEF Request, Reply, Refuse, WriteStep, WriteEnd, CloseFrame, CloseRaw, WriteBegin,
              DeadlinePasses, CloseFlag, peerVars, readVars, Stream!vars
<1>4. CASE PeerOpens \/ PeerGoes \/ \E op \in Opcodes : PeerSendsControl(op)
  BY <1>4 DEF PeerOpens, PeerGoes, PeerSendsControl, peerVars, readVars, Stream!vars
<1>5. ASSUME NEW n \in Lengths, NEW more \in IF Fragments THEN {0, 1} ELSE {0}, PeerSendsData(n, more)
      PROVE  Stream!Next
  <2>1. n \in Nat /\ more \in Nat /\ sent \in Nat
    BY LengthsAssumption DEF WsInv, TypeOK
  <2>2. sent' = sent + n + more /\ got' = got /\ reader' = reader
    BY <1>5 DEF PeerSendsData, readVars
  <2>3. sent' \in Nat /\ sent' >= sent
    BY <2>1, <2>2
  <2>4. Stream!Send
    BY <2>2, <2>3 DEF Stream!Send
  <2> QED
    BY <2>4 DEF Stream!Next
<1>6. CASE UNCHANGED vars
  BY <1>6 DEF vars, peerVars, readVars, Stream!vars
<1> QED
  BY <1>2, <1>3, <1>4, <1>5, <1>6 DEF Next, PeerStep

\* To the decoder the connection is a stream of bytes, for a peer that does not
\* fragment its messages and, as a server, only answers.
THEOREM ConnectionIsAStream ==
  ASSUME ~ServerFirst, ~Fragments
  PROVE  Spec => ImplementsByteStream
<1>1. Init => Stream!Init
  BY DEF Init, Stream!Init
<1>2. WsInv /\ [Next]_vars => [Stream!Next]_(Stream!vars)
  BY StepStreams
<1>3. Spec => []WsInv
  BY WsInvariant
<1> QED
  BY <1>1, <1>2, <1>3, PTL DEF Spec, ImplementsByteStream, Stream!Spec

-----------------------------------------------------------------------------
(* Types, whatever the peer does                                             *)

Typed == TypeOK /\ in \in Seq(Cells)

\* A frame that is written changes nothing but out and the deadline.
LEMMA DeadlineTyped ==
  ASSUME deadline \in {"none", "set", "passed"}, NEW op, NEW data, WriteFrame(op, data)
  PROVE  deadline' \in {"none", "set", "passed"}
BY DEF WriteFrame

\* A part of a sequence of cells is one.
LEMMA CutTyped ==
  ASSUME NEW s \in Seq(Cells), NEW i \in Nat, NEW j \in 0..Len(s), i >= 1
  PROVE  SubSeq(s, i, j) \in Seq(Cells)
<1>1. Len(s) \in Nat /\ \A k \in i..j : k \in 1..Len(s)
  OBVIOUS
<1> QED
  BY <1>1

\* So is the rest of it.
LEMMA LastTyped ==
  ASSUME NEW s \in Seq(Cells), NEW i \in Nat, i >= 1
  PROVE  SubSeq(s, i, Len(s)) \in Seq(Cells)
<1>1. Len(s) \in 0..Len(s)
  OBVIOUS
<1> QED
  BY <1>1, CutTyped

\* And what the buffered reader of the upgrade leaves.
LEMMA HeadTyped ==
  ASSUME in \in Seq(Cells), BufferedHead
  PROVE  in' \in Seq(Cells)
<1>1. PICK k \in 1..Len(in) : in' = SubSeq(in, k + 1, Len(in))
  BY DEF BufferedHead
<1>2. k + 1 \in Nat /\ k + 1 >= 1
  BY <1>1
<1> DEFINE i == k + 1
<1> HIDE DEF i
<1>3. SubSeq(in, i, Len(in)) \in Seq(Cells)
  BY <1>2, LastTyped DEF i
<1> QED
  BY <1>1, <1>3 DEF i

\* Types are kept by the upgrade, ...
LEMMA UpgradeTyped ==
  ASSUME Typed, Request \/ Reply \/ Refuse
  PROVE  Typed'
<1>1. in' \in Seq(Cells)
  BY HeadTyped DEF Typed, Request, Reply, Refuse
<1>2. /\ stage' \in {"request", "reply", "open", "refused"}
      /\ UNCHANGED <<role, peer, frames, sent, pings, reader, ping, got, writer, deadline, writes,
                     closed, closer>>
  BY DEF Request, Reply, Refuse, peerVars, readVars, writeVars, closeVars
<1> QED
  BY <1>1, <1>2 DEF Typed, TypeOK

\* What is left when a frame or its head is read.
LEMMA BeyondTyped ==
  ASSUME in \in Seq(Cells), NEW n \in Nat
  PROVE  Beyond(n) \in Seq(Cells) /\ (in # <<>> => Tail(in) \in Seq(Cells))
<1> DEFINE i == n + 2
<1>1. i \in Nat /\ i >= 1
  OBVIOUS
<1> HIDE DEF i
<1>2. SubSeq(in, i, Len(in)) \in Seq(Cells)
  BY <1>1, LastTyped
<1>3. in # <<>> => Tail(in) \in Seq(Cells)
  OBVIOUS
<1> QED
  BY <1>2, <1>3 DEF Beyond, i

\* The pieces of a frame that is cut short.
LEMMA CutPieces ==
  ASSUME in \in Seq(Cells), in # <<>>, NEW space \in Spaces, NEW op, NEW n
  PROVE  LET b == IF op = "data" /\ n > space THEN ((Len(in) - 1) \div Piece) * Piece ELSE 0
         IN  b \in Nat /\ b + 1 <= Len(in)
<1> DEFINE whole == ((Len(in) - 1) \div Piece) * Piece
<1>1. Len(in) \in Nat /\ Len(in) > 0
  OBVIOUS
<1>2. whole \in Nat /\ whole <= Len(in) - 1
  <2>1. Len(in) - 1 \in Nat /\ Piece \in Nat \ {0}
    BY <1>1, SpacesAssumption
  <2> QED
    BY <2>1, WholePieces
<1> HIDE DEF whole
<1>3. (IF op = "data" /\ n > space THEN whole ELSE 0) \in Nat
      /\ (IF op = "data" /\ n > space THEN whole ELSE 0) + 1 <= Len(in)
  BY <1>1, <1>2
<1> QED
  BY <1>3 DEF whole

\* ... by Read, ...
LEMMA ReadTyped ==
  ASSUME Typed, ReadStep
  PROVE  Typed'
<1>1. Sizes \subseteq Nat
  BY LengthsAssumption DEF Sizes
<1>2. in \in Seq(Cells) /\ got \in Seq(Int) /\ Len(in) \in Nat
  BY DEF Typed, TypeOK
<1>3. ASSUME NEW op \in Opcodes, NEW n \in Sizes,
             ReadPing(n) \/ Skip(op, n) \/ ReadData(n) \/ ReadClose(n) \/ ReadCut(op, n)
      PROVE  Typed'
  <2>1. n \in Nat /\ Beyond(n) \in Seq(Cells) /\ (in # <<>> => Tail(in) \in Seq(Cells))
    BY <1>1, <1>2, BeyondTyped
  <2>2. Arrived(n) => Payload(n) \in Seq(Int)
    <3> SUFFICES ASSUME Arrived(n) PROVE Payload(n) \in Seq(Int)
      OBVIOUS
    <3>1. n + 1 <= Len(in)
      BY <1>2, <2>1 DEF Arrived
    <3> QED
      BY <1>2, <2>1, <3>1, PayloadIs
  <2>3. CASE ReadPing(n)
    <3>1. /\ ping' \in Seq(Int) /\ in' \in Seq(Cells) /\ reader' = "ponging"
          /\ UNCHANGED <<role, stage, peer, frames, sent, pings, got, writer, deadline, writes, closed,
                         closer>>
      BY <2>1, <2>2, <2>3 DEF ReadPing, peerVars, writeVars, closeVars
    <3> QED
      BY <3>1 DEF Typed, TypeOK
  <2>4. CASE Skip(op, n)
    <3>1. /\ in' \in Seq(Cells)
          /\ UNCHANGED <<role, stage, peer, frames, sent, pings, reader, ping, got, writer, deadline,
                         writes, closed, closer>>
      BY <2>1, <2>4 DEF Skip, peerVars, readVars, writeVars, closeVars
    <3> QED
      BY <3>1 DEF Typed, TypeOK
  <2>5. CASE ReadData(n)
    <3>1. /\ Arrived(n) /\ reader = "reading" /\ in' \in Seq(Cells)
          /\ \/ got' = got \o Payload(n) /\ reader' = reader
             \/ reader' = "panicked" /\ got' = got
          /\ UNCHANGED <<role, stage, peer, frames, sent, pings, ping, writer, deadline, writes, closed,
                         closer>>
      BY <2>1, <2>5 DEF ReadData, Reading, peerVars, writeVars, closeVars
    <3>2. got' \in Seq(Int)
      BY <1>2, <2>2, <3>1, Longer
    <3> QED
      BY <3>1, <3>2 DEF Typed, TypeOK
  <2>6. CASE ReadClose(n)
    <3>1. /\ in' \in Seq(Cells) /\ reader' = "ended"
          /\ UNCHANGED <<role, stage, peer, frames, sent, pings, ping, got, writer, deadline, writes,
                         closed, closer>>
      BY <2>1, <2>6 DEF ReadClose, IsHead, peerVars, writeVars, closeVars
    <3> QED
      BY <3>1 DEF Typed, TypeOK
  <2>7. CASE ReadCut(op, n)
    <3>1. /\ in # <<>> /\ in' = <<>>
          /\ UNCHANGED <<role, stage, peer, frames, sent, pings, ping, writer, deadline, writes, closed,
                         closer>>
      BY <2>7 DEF ReadCut, IsHead, peerVars, writeVars, closeVars
    <3>2. PICK space \in Spaces :
             LET b == IF op = "data" /\ n > space THEN ((Len(in) - 1) \div Piece) * Piece ELSE 0
             IN  IF b <= space THEN reader' = "ended" /\ got' = got \o Payload(b)
                 ELSE reader' = "panicked" /\ got' = got
      BY <2>7 DEF ReadCut
    <3> DEFINE b == IF op = "data" /\ n > space THEN ((Len(in) - 1) \div Piece) * Piece ELSE 0
    <3>3. b \in Nat /\ b + 1 <= Len(in)
      BY <1>2, <3>1, CutPieces
    <3>4. \/ reader' = "ended" /\ got' = got \o Payload(b)
          \/ reader' = "panicked" /\ got' = got
      BY <3>2
    <3> HIDE DEF b
    <3>5. Payload(b) \in Seq(Int)
      BY <1>2, <3>3, PayloadIs
    <3>6. got' \in Seq(Int) /\ reader' \in {"ended", "panicked"}
      BY <1>2, <3>4, <3>5, Longer
    <3>7. in' \in Seq(Cells)
      BY <3>1
    <3> QED
      BY <3>1, <3>6, <3>7 DEF Typed, TypeOK
  <2> QED
    BY <1>3, <2>3, <2>4, <2>5, <2>6, <2>7
<1>4. CASE ReadEnd
  BY <1>4 DEF ReadEnd, Typed, TypeOK, peerVars, writeVars, closeVars
<1>5. CASE Pong
  <2>1. deadline \in {"none", "set", "passed"} /\ WriteFrame("pong", ping)
    BY <1>5 DEF Typed, TypeOK, Pong
  <2>2. deadline' \in {"none", "set", "passed"}
    BY <2>1, DeadlineTyped
  <2> QED
    BY <1>5, <2>2 DEF Pong, Typed, TypeOK, peerVars, closeVars
<1> QED
  BY <1>3, <1>4, <1>5 DEF ReadStep

\* ... by WritePacket and Close, ...
LEMMA WriteTyped ==
  ASSUME Typed, WriteStep \/ WriteBegin \/ DeadlinePasses \/ CloseFlag
  PROVE  Typed'
<1>1. in' = in
  BY DEF WriteStep, WriteEnd, CloseFrame, CloseRaw, WriteBegin, DeadlinePasses, CloseFlag
<1>2. deadline \in {"none", "set", "passed"}
  BY DEF Typed, TypeOK
<1>3. CASE WriteEnd
  <2>1. deadline' \in {"none", "set", "passed"}
    BY <1>2, <1>3, DeadlineTyped DEF WriteEnd
  <2> QED
    BY <1>1, <1>3, <2>1 DEF WriteEnd, Typed, TypeOK, peerVars, readVars, closeVars
<1>4. CASE CloseFrame
  <2>1. deadline' \in {"none", "set", "passed"}
    BY <1>2, <1>4, DeadlineTyped DEF CloseFrame
  <2> QED
    BY <1>1, <1>4, <2>1 DEF CloseFrame, Typed, TypeOK, peerVars, readVars
<1>5. CASE CloseRaw
  BY <1>5 DEF CloseRaw, Typed, TypeOK, peerVars, readVars, writeVars
<1>6. CASE WriteBegin
  <2>1. writes' \in 0..MaxWrites
    <3>1. writes \in 0..MaxWrites /\ MaxWrites \in Nat /\ writes < MaxWrites /\ writes' = writes + 1
      BY <1>6, BoundsAssumption DEF WriteBegin, Typed, TypeOK
    <3> QED
      BY <3>1
  <2> QED
    BY <1>6, <2>1 DEF WriteBegin, Typed, TypeOK, peerVars, readVars, closeVars
<1>7. CASE DeadlinePasses
  BY <1>7 DEF DeadlinePasses, Typed, TypeOK, peerVars, readVars, closeVars
<1>8. CASE CloseFlag
  BY <1>8 DEF CloseFlag, Typed, TypeOK, peerVars, readVars, writeVars
<1> QED
  BY <1>3, <1>4, <1>5, <1>6, <1>7, <1>8 DEF WriteStep

\* ... and by the peer.
LEMMA PeerTyped ==
  ASSUME Typed, PeerStep
  PROVE  Typed'
<1>1. in \in Seq(Cells) /\ Len(in) \in Nat /\ sent \in Nat /\ pings \in Nat /\ frames \in 0..MaxFrames
  BY DEF Typed, TypeOK
<1>2. frames < MaxFrames => frames + 1 \in 0..MaxFrames
  BY <1>1, BoundsAssumption
<1>3. CASE PeerOpens
  <2>1. HttpHead \in Cells
    <3>1. "" \in Opcodes \cup {""}
      OBVIOUS
    <3> QED
      BY <3>1 DEF HttpHead, Cells
  <2>2. in' \in Seq(Cells)
    BY <1>3, <2>1 DEF PeerOpens
  <2> QED
    BY <1>3, <2>2 DEF PeerOpens, Typed, TypeOK, peerVars, readVars, writeVars, closeVars
<1>4. CASE PeerGoes
  <2>1. PICK k \in 0..Len(in) : in' = SubSeq(in, 1, k)
    BY <1>4 DEF PeerGoes
  <2>2. in' \in Seq(Cells)
    BY <1>1, <2>1, CutTyped
  <2> QED
    BY <1>4, <2>2 DEF PeerGoes, Typed, TypeOK, peerVars, readVars, writeVars, closeVars
<1>5. ASSUME NEW op \in Opcodes, PeerSendsControl(op)
      PROVE  Typed'
  <2> DEFINE y == Byte(IF op = "ping" THEN 0 - pings' ELSE 0)
             h0 == FrameHead(op, 0)
             h1 == FrameHead(op, 1)
  <2>1. pings' \in Nat
    BY <1>1, <1>5 DEF PeerSendsControl
  <2>2. h0 \in Cells /\ h1 \in Cells /\ y \in Cells
    BY <2>1, CellsAre
  <2>3. in' = in \o IF op = "close" THEN <<h0>> ELSE <<h1, y>>
    BY <1>5 DEF PeerSendsControl
  <2> HIDE DEF y, h0, h1
  <2>4. in \o <<h0>> \in Seq(Cells) /\ in \o <<h1, y>> \in Seq(Cells)
    BY <1>1, <2>2
  <2>5. in' \in Seq(Cells)
    BY <2>3, <2>4
  <2>6. frames' \in 0..MaxFrames
    BY <1>2, <1>5 DEF PeerSendsControl, MaySend
  <2>7. peer' \in {"silent", "up", "closing", "gone"}
    BY <1>5 DEF PeerSendsControl, Typed, TypeOK
  <2> QED
    BY <1>5, <2>1, <2>5, <2>6, <2>7 DEF PeerSendsControl, Typed, TypeOK, readVars, writeVars, closeVars
<1>6. ASSUME NEW n \in Lengths, NEW more \in IF Fragments THEN {0, 1} ELSE {0}, PeerSendsData(n, more)
      PROVE  Typed'
  <2>1. n \in Nat /\ more \in Nat /\ sent + n \in Nat /\ "data" \in Opcodes /\ "continuation" \in Opcodes
    BY <1>1, LengthsAssumption DEF Opcodes
  <2>2. sent' = sent + n + more /\ sent' \in Nat
    BY <1>1, <1>6, <2>1 DEF PeerSendsData
  <2> DEFINE h == <<FrameHead("data", n)>>
             d == Bytes(sent, n)
             k == sent + n
             c == <<FrameHead("continuation", more)>> \o Bytes(k, more)
  <2>3. in' = in \o h \o d \o IF more > 0 THEN c ELSE <<>>
    BY <1>6 DEF PeerSendsData
  <2>4. h \in Seq(Cells) /\ d \in Seq(Cells)
    <3>1. FrameHead("data", n) \in Cells /\ \A i \in 1..n : Byte(sent + i) \in Cells
      BY <1>1, <2>1, CellsAre
    <3> QED
      BY <2>1, <3>1 DEF Bytes
  <2>5. c \in Seq(Cells)
    <3> HIDE DEF k
    <3> QED
      BY <2>1, BytesAre DEF k
  <2> HIDE DEF h, d, c
  <2>6. <<>> \in Seq(Cells)
    OBVIOUS
  <2>7. in' \in Seq(Cells)
    BY <1>1, <2>3, <2>4, <2>5, <2>6
  <2>8. frames' \in 0..MaxFrames
    BY <1>2, <1>6 DEF PeerSendsData, MaySend
  <2> QED
    BY <1>6, <2>2, <2>7, <2>8 DEF PeerSendsData, Typed, TypeOK, readVars, writeVars, closeVars
<1> QED
  BY <1>3, <1>4, <1>5, <1>6 DEF PeerStep

\* Every variable has its type, whatever the peer sends and whenever it goes.
THEOREM TypeCorrect == Spec => []TypeOK
<1>1. Init => Typed
  BY WsInit DEF WsInv, Opening, Typed
<1>2. Typed /\ [Next]_vars => Typed'
  <2> SUFFICES ASSUME Typed, [Next]_vars PROVE Typed'
    OBVIOUS
  <2>1. CASE UNCHANGED vars
    BY <2>1 DEF Typed, TypeOK, vars, peerVars, readVars, writeVars, closeVars
  <2>2. CASE Next
    BY <2>2, UpgradeTyped, ReadTyped, WriteTyped, PeerTyped DEF Next
  <2> QED
    BY <2>1, <2>2
<1>3. Typed => TypeOK
  BY DEF Typed
<1> QED
  BY <1>1, <1>2, <1>3, PTL DEF Spec
=============================================================================
