-------------------------- MODULE AsyncProtocolProofs --------------------------
(***************************************************************************)
(* Proofs about AsyncProtocol, for any file, any sizes of the ring and of  *)
(* what is kept behind the reader, any chunk and any threshold: IInv is    *)
(* inductive, no byte that can still be read is overwritten, and the       *)
(* protocol implements ByteFile.                                           *)
(***************************************************************************)
EXTENDS AsyncProtocol, TLAPS

-------------------------------------------------------------------------------
(***************************************************************************)
(* Arithmetic                                                              *)
(***************************************************************************)
\* The larger of 0 and a number.
LEMMA MaxOf ==
  ASSUME NEW x \in Int
  PROVE  Max({0, x}) = IF x > 0 THEN x ELSE 0
<1> DEFINE m == IF x > 0 THEN x ELSE 0
<1>1. m \in {0, x} /\ \A y \in {0, x} : m >= y
  OBVIOUS
<1>2. ASSUME NEW n \in {0, x}, \A y \in {0, x} : n >= y PROVE n = m
  <2>1. n >= m /\ m >= n /\ n \in Int /\ m \in Int
    BY <1>1, <1>2
  <2> QED
    BY <2>1
<1> HIDE DEF m
<1>3. (CHOOSE n \in {0, x} : \A y \in {0, x} : n >= y) = m
  BY <1>1, <1>2
<1> QED
  BY <1>3 DEF Max, m

\* The smaller of two numbers.
LEMMA MinOf ==
  ASSUME NEW a \in Int, NEW b \in Int
  PROVE  Min({a, b}) = IF a < b THEN a ELSE b
<1> DEFINE m == IF a < b THEN a ELSE b
<1>1. m \in {a, b} /\ \A y \in {a, b} : m =< y
  OBVIOUS
<1>2. ASSUME NEW n \in {a, b}, \A y \in {a, b} : n =< y PROVE n = m
  <2>1. n >= m /\ m >= n /\ n \in Int /\ m \in Int
    BY <1>1, <1>2
  <2> QED
    BY <2>1
<1> HIDE DEF m
<1>3. (CHOOSE n \in {a, b} : \A y \in {a, b} : n =< y) = m
  BY <1>1, <1>2
<1> QED
  BY <1>3 DEF Min, m

\* The smallest of three is no larger than any of them, and one of them.
LEMMA MinOfThree ==
  ASSUME NEW a \in Int, NEW b \in Int, NEW c \in Int
  PROVE  /\ Min({a, b, c}) \in {a, b, c}
         /\ Min({a, b, c}) <= a /\ Min({a, b, c}) <= b /\ Min({a, b, c}) <= c
<1>1. \E n \in {a, b, c} : \A y \in {a, b, c} : n =< y
  <2>1. \E n \in {a, b, c} : n <= a /\ n <= b /\ n <= c
    OBVIOUS
  <2> QED
    BY <2>1
<1>2. (CHOOSE n \in {a, b, c} : \A y \in {a, b, c} : n =< y) \in {a, b, c}
      /\ \A y \in {a, b, c} : (CHOOSE n \in {a, b, c} : \A z \in {a, b, c} : n =< z) =< y
  BY <1>1
<1> QED
  BY <1>2 DEF Min

\* What the quotient and the remainder are.
LEMMA DivMod ==
  ASSUME NEW B \in Nat, B > 0, NEW a \in Int
  PROVE  a \div B \in Int /\ a % B \in 0 .. (B-1) /\ a = B * (a \div B) + (a % B)
OBVIOUS

\* No multiple of B but 0 is nearer to 0 than B.
LEMMA Multiple ==
  ASSUME NEW B \in Nat, B > 0, NEW k \in Int, B * k < B, -B < B * k
  PROVE k = 0
<1>1. CASE k >= 1
  <2>1. B * k >= B
    BY <1>1
  <2> QED
    BY <2>1
<1>2. CASE k <= -1
  <2>1. B * k <= -B
    BY <1>2
  <2> QED
    BY <2>1
<1> QED
  BY <1>1, <1>2

\* Quotient and remainder are unique.
LEMMA ModIs ==
  ASSUME NEW B \in Nat, B > 0, NEW a \in Int, NEW q \in Int, NEW r \in 0 .. (B-1), a = B * q + r
  PROVE a % B = r
<1> DEFINE p == a \div B
           s == a % B
<1>1. p \in Int /\ s \in 0 .. (B-1) /\ a = B * p + s
  BY DivMod
<1> HIDE DEF p, s
<1>2. B * (p - q) = r - s
  <2>1. B * p - B * q = r - s
    BY <1>1
  <2>2. B * (p - q) = B * p - B * q
    BY <1>1
  <2> QED
    BY <2>1, <2>2
<1>3. p - q = 0
  BY <1>1, <1>2, Multiple
<1> QED
  BY <1>1, <1>2, <1>3 DEF s

\* Numbers less than B apart are told apart by their remainders.
LEMMA ModUnique ==
  ASSUME NEW B \in Nat, B > 0, NEW a \in Int, NEW b \in Int, a % B = b % B, a - b < B, b - a < B
  PROVE a = b
<1> DEFINE p == a \div B
           q == b \div B
<1>1. p \in Int /\ a % B \in Int /\ a = B * p + (a % B)
  BY DivMod
<1>2. q \in Int /\ b = B * q + (b % B)
  BY DivMod
<1>5. a % B = b % B
  OBVIOUS
<1> HIDE DEF p, q
<1>3. B * (p - q) = a - b
  <2>1. B * p - B * q = a - b
    BY <1>1, <1>2, <1>5
  <2>2. B * (p - q) = B * p - B * q
    BY <1>1, <1>2
  <2> QED
    BY <2>1, <2>2
<1>4. p - q = 0
  BY <1>1, <1>2, <1>3, Multiple
<1> QED
  BY <1>1, <1>2, <1>3, <1>4

\* Before the end of the buffer is reached, the next numbers are in the next cells.
LEMMA ModAdd ==
  ASSUME NEW B \in Nat, B > 0, NEW a \in Int, NEW d \in Nat, NEW s, a % B = s, s + d < B
  PROVE (a + d) % B = s + d
<1> DEFINE p == a \div B
<1>1. p \in Int /\ s \in 0 .. (B-1) /\ a = B * p + s
  BY DivMod
<1> HIDE DEF p
<1>2. a + d = B * p + (s + d) /\ s + d \in 0 .. (B-1)
  BY <1>1
<1> QED
  BY <1>1, <1>2, ModIs

-------------------------------------------------------------------------------
(***************************************************************************)
(* IInv is inductive                                                       *)
(***************************************************************************)
\* The sizes of the ring.
LEMMA CellsNat == Cells \in Nat /\ Cells > 0
BY SizesAssumption DEF Cells

LEMMA Initially == Init => IInv
<1> SUFFICES ASSUME Init PROVE IInv
  OBVIOUS
<1>1. TypeOK
  <2>1. mem \in [0 .. (Cells - 1) -> Int]
    BY DEF Init
  <2>2. rndx \in Nat /\ wndx \in Nat /\ read_pos \in 0 .. ReadBack /\ inner \in 0 .. Size
        /\ wpos \in Nat /\ left \in Nat /\ seek_ret \in -1 .. Size /\ logical_pos \in 0 .. Size
        /\ size \in Nat /\ to_read \in 0 .. size
    BY SizesAssumption DEF Init
  <2>3. /\ bg \in {"top", "wait", "fill", "publish", "post", "exited"}
        /\ rd \in {"idle", "read", "readwait", "decide", "seekwait", "seek", "join", "closed"}
    BY DEF Init
  <2>4. /\ got \in BOOLEAN /\ inner_io_error \in BOOLEAN
        /\ io_eof_reached \in BOOLEAN /\ io_error \in BOOLEAN
        /\ seek_request \in BOOLEAN /\ seek_completed \in BOOLEAN
        /\ abort_request \in BOOLEAN /\ interrupted \in BOOLEAN /\ broken \in BOOLEAN
    BY DEF Init
  <2> QED
    BY <2>1, <2>2, <2>3, <2>4 DEF TypeOK, TypeRing, TypeCaller
<1>2. InvCall /\ InvSpace /\ InvSeek /\ InvEof /\ InvBroken
  BY CellsNat DEF Init, InvCall, InvSpace, InvSeek, InvEof, InvBroken, SeekPending, ring_size,
     ring_space, NeverOverwritten, CheckInterrupt
<1>3. InvBytes
  BY DEF Init, InvBytes, At, End, SeekPending
<1> QED
  BY <1>1, <1>2, <1>3 DEF IInv

\* What the background thread and the caller do when they leave the ring alone.
RingIsLeft ==
  /\ UNCHANGED <<ring, inner, fill, flags>>
  /\ bg' = bg \/ (bg = "wait" /\ bg' = "top")

\* Then what is known of the ring stays so.
LEMMA RingStays ==
  ASSUME IInv, RingIsLeft
  PROVE  TypeRing' /\ InvSpace' /\ InvEof' /\ End' = End
<1> USE DEF RingIsLeft, ring, fill, flags
<1>1. TypeRing'
  BY DEF IInv, TypeOK, TypeRing, Cells
<1>2. InvSpace'
  BY DEF IInv, InvSpace, ring_size, ring_space, NeverOverwritten, Cells
<1>3. InvEof'
  BY DEF IInv, InvEof
<1>4. End' = End
  BY DEF End
<1> QED
  BY <1>1, <1>2, <1>3, <1>4

\* And so does what is known of its bytes, as long as the position of the ring does.
LEMMA BytesStay ==
  ASSUME IInv, RingIsLeft, CheckInterrupt => CheckInterrupt', ~CheckInterrupt' => At' = At
  PROVE  InvBytes'
<1> SUFFICES ASSUME ~CheckInterrupt' PROVE InvBytes'
  BY DEF InvBytes
<1>1. End' = End
  BY RingStays
<1>2. InvBytes /\ ~CheckInterrupt
  BY DEF IInv
<1>3. mem' = mem /\ rndx' = rndx /\ read_pos' = read_pos /\ inner' = inner
  BY DEF RingIsLeft, ring
<1> QED
  BY <1>1, <1>2, <1>3 DEF InvBytes, Cells

\* Signals wake a thread that waits, and do nothing to one that does not.
LEMMA SignalledMain ==
  ASSUME TypeOK, SignalMain
  PROVE  /\ rd' \in {"idle", "read", "readwait", "decide", "seekwait", "seek", "join", "closed"}
         /\ rd' \in {"read", "readwait"} <=> rd \in {"read", "readwait"}
         /\ SeekPending' <=> SeekPending
         /\ rd \notin {"readwait", "seekwait"} => rd' = rd
         /\ rd' \in {"idle", "decide", "join", "closed"} => rd' = rd
BY DEF TypeOK, TypeCaller, SignalMain, SeekPending

LEMMA SignalledBackground ==
  ASSUME TypeOK, SignalBackground
  PROVE  bg' = bg \/ (bg = "wait" /\ bg' = "top")
BY DEF SignalBackground

\* An action that leaves the ring alone preserves the invariant, when the caller's
\* part of it and the position of the ring are right after it.
LEMMA LeftStep ==
  ASSUME IInv, RingIsLeft, TypeCaller', InvCall', InvSeek', InvBroken',
         CheckInterrupt => CheckInterrupt', ~CheckInterrupt' => At' = At
  PROVE  IInv'
<1>1. TypeRing' /\ InvSpace' /\ InvEof'
  BY RingStays
<1>2. InvBytes'
  BY BytesStay
<1> QED
  BY <1>1, <1>2 DEF IInv, TypeOK

LEMMA ReadStep ==
  ASSUME IInv, NEW n \in ReadSizes, Read(n)
  PROVE  IInv'
<1> USE DEF Read, Begin, ring, flags, fill, seeking, caller, reading, bgVars
<1>1. RingIsLeft
  BY SignalledBackground DEF RingIsLeft, IInv
<1>2. TypeCaller'
  BY SizesAssumption, SignalledMain DEF IInv, TypeOK, TypeCaller, CheckInterrupt
<1>3. InvCall'
  <2>1. n \in 1 .. Size
    BY SizesAssumption
  <2> QED
    BY <2>1 DEF InvCall
<1>4. InvSeek'
  BY SignalledMain DEF IInv, InvSeek, InvCall, SeekPending, CheckInterrupt, target
<1>5. InvBroken' /\ (CheckInterrupt => CheckInterrupt')
  BY SignalledMain DEF IInv, InvBroken, CheckInterrupt
<1>6. ~CheckInterrupt' => At' = At
  BY SignalledMain DEF IInv, InvSeek, InvCall, At, SeekPending, CheckInterrupt, target
<1> HIDE DEF Read, Begin
<1> QED
  BY <1>1, <1>2, <1>3, <1>4, <1>5, <1>6, LeftStep

LEMMA ReadInterruptedStep ==
  ASSUME IInv, ReadInterrupted
  PROVE  IInv'
<1> USE DEF ReadInterrupted, Return, ring, flags, fill, seeking, caller, reading, bgVars
<1>1. RingIsLeft
  BY SignalledBackground DEF RingIsLeft, IInv
<1>2. TypeCaller'
  BY SizesAssumption, SignalledMain DEF IInv, TypeOK, TypeCaller, CheckInterrupt
<1>3. InvCall'
  BY SignalledMain DEF IInv, InvCall, TypeOK, TypeCaller
<1>4. InvSeek'
  BY SignalledMain DEF IInv, InvSeek, InvCall, SeekPending, CheckInterrupt, target
<1>5. InvBroken' /\ (CheckInterrupt => CheckInterrupt')
  BY SignalledMain DEF IInv, InvBroken, CheckInterrupt
<1>6. ~CheckInterrupt' => At' = At
  BY SignalledMain DEF IInv, InvSeek, InvCall, At, SeekPending, CheckInterrupt, target
<1> HIDE DEF ReadInterrupted, Return
<1> QED
  BY <1>1, <1>2, <1>3, <1>4, <1>5, <1>6, LeftStep

LEMMA ReadEndsStep ==
  ASSUME IInv, ReadEnds
  PROVE  IInv'
<1> USE DEF ReadEnds, Return, ring, flags, fill, seeking, caller, reading, bgVars
<1>1. RingIsLeft
  BY SignalledBackground DEF RingIsLeft, IInv
<1>2. TypeCaller'
  BY SizesAssumption, SignalledMain DEF IInv, TypeOK, TypeCaller, CheckInterrupt
<1>3. InvCall'
  BY SignalledMain DEF IInv, InvCall, TypeOK, TypeCaller
<1>4. InvSeek'
  BY SignalledMain DEF IInv, InvSeek, InvCall, SeekPending, CheckInterrupt, target
<1>5. InvBroken' /\ (CheckInterrupt => CheckInterrupt')
  BY SignalledMain DEF IInv, InvBroken, CheckInterrupt
<1>6. ~CheckInterrupt' => At' = At
  BY SignalledMain DEF IInv, InvSeek, InvCall, At, SeekPending, CheckInterrupt, target
<1> HIDE DEF ReadEnds, Return
<1> QED
  BY <1>1, <1>2, <1>3, <1>4, <1>5, <1>6, LeftStep

LEMMA ReadWaitsStep ==
  ASSUME IInv, ReadWaits
  PROVE  IInv'
<1> USE DEF ReadWaits, ring, flags, fill, seeking, caller, reading, bgVars
<1>1. RingIsLeft
  BY SignalledBackground DEF RingIsLeft, IInv
<1>2. TypeCaller'
  BY SizesAssumption, SignalledMain DEF IInv, TypeOK, TypeCaller, CheckInterrupt
<1>3. InvCall'
  BY SignalledMain DEF IInv, InvCall, TypeOK, TypeCaller
<1>4. InvSeek'
  BY SignalledMain DEF IInv, InvSeek, InvCall, SeekPending, CheckInterrupt, target
<1>5. InvBroken' /\ (CheckInterrupt => CheckInterrupt')
  BY SignalledMain DEF IInv, InvBroken, CheckInterrupt
<1>6. ~CheckInterrupt' => At' = At
  BY SignalledMain DEF IInv, InvSeek, InvCall, At, SeekPending, CheckInterrupt, target
<1> HIDE DEF ReadWaits
<1> QED
  BY <1>1, <1>2, <1>3, <1>4, <1>5, <1>6, LeftStep

LEMMA SeekStep ==
  ASSUME IInv, NEW p \in Targets, Seek(p)
  PROVE  IInv'
<1> USE DEF Seek, Begin, ring, flags, fill, seeking, caller, reading, bgVars
<1>1. RingIsLeft
  BY SignalledBackground DEF RingIsLeft, IInv
<1>2. TypeCaller'
  BY SizesAssumption, SignalledMain DEF IInv, TypeOK, TypeCaller, CheckInterrupt
<1>3. InvCall'
  BY SignalledMain DEF IInv, InvCall, TypeOK, TypeCaller
<1>4. InvSeek'
  BY SignalledMain DEF IInv, InvSeek, InvCall, SeekPending, CheckInterrupt, target
<1>5. InvBroken' /\ (CheckInterrupt => CheckInterrupt')
  BY SignalledMain DEF IInv, InvBroken, CheckInterrupt
<1>6. ~CheckInterrupt' => At' = At
  BY SignalledMain DEF IInv, InvSeek, InvCall, At, SeekPending, CheckInterrupt, target
<1> HIDE DEF Seek, Begin
<1> QED
  BY <1>1, <1>2, <1>3, <1>4, <1>5, <1>6, LeftStep

LEMMA SeekHereStep ==
  ASSUME IInv, SeekHere
  PROVE  IInv'
<1> USE DEF SeekHere, Return, ring, flags, fill, seeking, caller, reading, bgVars
<1>1. RingIsLeft
  BY SignalledBackground DEF RingIsLeft, IInv
<1>2. TypeCaller'
  BY SizesAssumption, SignalledMain DEF IInv, TypeOK, TypeCaller, CheckInterrupt
<1>3. InvCall'
  BY SignalledMain DEF IInv, InvCall, TypeOK, TypeCaller
<1>4. InvSeek'
  BY SignalledMain DEF IInv, InvSeek, InvCall, SeekPending, CheckInterrupt, target
<1>5. InvBroken' /\ (CheckInterrupt => CheckInterrupt')
  BY SignalledMain DEF IInv, InvBroken, CheckInterrupt
<1>6. ~CheckInterrupt' => At' = At
  BY SignalledMain DEF IInv, InvSeek, InvCall, At, SeekPending, CheckInterrupt, target
<1> HIDE DEF SeekHere, Return
<1> QED
  BY <1>1, <1>2, <1>3, <1>4, <1>5, <1>6, LeftStep

LEMMA SeekForwardStep ==
  ASSUME IInv, SeekForward
  PROVE  IInv'
<1> USE DEF SeekForward, ring, flags, fill, seeking, caller, reading, bgVars
<1>1. RingIsLeft
  BY SignalledBackground DEF RingIsLeft, IInv
<1>0. PICK p \in Targets : call = <<"seek", p>>
  BY DEF IInv, InvCall
<1>a. p \in Nat /\ target = p /\ logical_pos \in Nat
  BY <1>0, SizesAssumption DEF Targets, target, IInv, TypeOK, TypeCaller
<1>b. size' = p - logical_pos /\ to_read' = p - logical_pos /\ p - logical_pos \in Nat /\ p > logical_pos
  BY <1>a
<1>2. TypeCaller'
  BY <1>b DEF IInv, TypeOK, TypeCaller
<1>3. InvCall'
  <2>1. call' = <<"seek", logical_pos' + to_read'>> /\ to_read' > 0 /\ size' - to_read' <= logical_pos'
    BY <1>0, <1>a, <1>b
  <2> QED
    BY <2>1 DEF InvCall
<1>4. InvSeek'
  BY SignalledMain DEF IInv, InvSeek, InvCall, SeekPending, CheckInterrupt, target
<1>5. InvBroken' /\ (CheckInterrupt => CheckInterrupt')
  BY SignalledMain DEF IInv, InvBroken, CheckInterrupt
<1>6. ~CheckInterrupt' => At' = At
  BY SignalledMain DEF IInv, InvSeek, InvCall, At, SeekPending, CheckInterrupt, target
<1> HIDE DEF SeekForward
<1> QED
  BY <1>1, <1>2, <1>3, <1>4, <1>5, <1>6, LeftStep

LEMMA SeekRefusedStep ==
  ASSUME IInv, SeekRefused
  PROVE  IInv'
<1> USE DEF SeekRefused, Return, ring, flags, fill, seeking, caller, reading, bgVars
<1>1. RingIsLeft
  BY SignalledBackground DEF RingIsLeft, IInv
<1>2. TypeCaller'
  BY SizesAssumption, SignalledMain DEF IInv, TypeOK, TypeCaller, CheckInterrupt
<1>3. InvCall'
  BY SignalledMain DEF IInv, InvCall, TypeOK, TypeCaller
<1>4. InvSeek'
  BY SignalledMain DEF IInv, InvSeek, InvCall, SeekPending, CheckInterrupt, target
<1>5. InvBroken' /\ (CheckInterrupt => CheckInterrupt')
  BY SignalledMain DEF IInv, InvBroken, CheckInterrupt
<1>6. ~CheckInterrupt' => At' = At
  BY SignalledMain DEF IInv, InvSeek, InvCall, At, SeekPending, CheckInterrupt, target
<1> HIDE DEF SeekRefused, Return
<1> QED
  BY <1>1, <1>2, <1>3, <1>4, <1>5, <1>6, LeftStep

LEMMA SeekRequestStep ==
  ASSUME IInv, SeekRequest
  PROVE  IInv'
<1> USE DEF SeekRequest, Return, ring, flags, fill, seeking, caller, reading, bgVars
<1>1. RingIsLeft
  BY SignalledBackground DEF RingIsLeft, IInv
<1>0. PICK p \in Targets : call = <<"seek", p>>
  BY DEF IInv, InvCall
<1>a. p \in 0 .. Size
  BY <1>0, SizesAssumption DEF Targets, target, IInv, TypeOK, TypeCaller
<1>2. TypeCaller'
  <2>1. seek_request' \in BOOLEAN /\ seek_completed' \in BOOLEAN /\ abort_request' \in BOOLEAN
    BY DEF CheckInterrupt, IInv, TypeOK, TypeCaller
  <2>2. size' \in Nat /\ to_read' \in 0 .. size' /\ seek_ret' \in -1 .. Size
    BY SizesAssumption DEF IInv, TypeOK, TypeCaller
  <2>3. rd' \in {"idle", "seekwait"}
    OBVIOUS
  <2> QED
    BY <2>1, <2>2, <2>3 DEF IInv, TypeOK, TypeCaller
<1>3. InvCall'
  <2>1. CASE CheckInterrupt
    BY <2>1 DEF InvCall
  <2>2. CASE ~CheckInterrupt
    BY <2>2, <1>0, <1>a DEF InvCall
  <2> QED
    BY <2>1, <2>2
<1>4. InvSeek'
  BY SignalledMain DEF IInv, InvSeek, InvCall, SeekPending, CheckInterrupt, target
<1>5. InvBroken' /\ (CheckInterrupt => CheckInterrupt')
  BY SignalledMain DEF IInv, InvBroken, CheckInterrupt
<1>6. ~CheckInterrupt' => At' = At
  BY SignalledMain DEF IInv, InvSeek, InvCall, At, SeekPending, CheckInterrupt, target
<1> HIDE DEF SeekRequest, Return
<1> QED
  BY <1>1, <1>2, <1>3, <1>4, <1>5, <1>6, LeftStep

LEMMA SeekWaitsStep ==
  ASSUME IInv, SeekWaits
  PROVE  IInv'
<1> USE DEF SeekWaits, ring, flags, fill, seeking, caller, reading, bgVars
<1>1. RingIsLeft
  BY SignalledBackground DEF RingIsLeft, IInv
<1>2. TypeCaller'
  BY SizesAssumption, SignalledMain DEF IInv, TypeOK, TypeCaller, CheckInterrupt
<1>3. InvCall'
  BY SignalledMain DEF IInv, InvCall, TypeOK, TypeCaller
<1>4. InvSeek'
  BY SignalledMain DEF IInv, InvSeek, InvCall, SeekPending, CheckInterrupt, target
<1>5. InvBroken' /\ (CheckInterrupt => CheckInterrupt')
  BY SignalledMain DEF IInv, InvBroken, CheckInterrupt
<1>6. ~CheckInterrupt' => At' = At
  BY SignalledMain DEF IInv, InvSeek, InvCall, At, SeekPending, CheckInterrupt, target
<1> HIDE DEF SeekWaits
<1> QED
  BY <1>1, <1>2, <1>3, <1>4, <1>5, <1>6, LeftStep

LEMMA SeekInterruptedStep ==
  ASSUME IInv, SeekInterrupted
  PROVE  IInv'
<1> USE DEF SeekInterrupted, Return, ring, flags, fill, seeking, caller, reading, bgVars
<1>1. RingIsLeft
  BY SignalledBackground DEF RingIsLeft, IInv
<1>2. TypeCaller'
  BY SizesAssumption, SignalledMain DEF IInv, TypeOK, TypeCaller, CheckInterrupt
<1>3. InvCall'
  BY SignalledMain DEF IInv, InvCall, TypeOK, TypeCaller
<1>4. InvSeek'
  BY SignalledMain DEF IInv, InvSeek, InvCall, SeekPending, CheckInterrupt, target
<1>5. InvBroken' /\ (CheckInterrupt => CheckInterrupt')
  BY SignalledMain DEF IInv, InvBroken, CheckInterrupt
<1>6. ~CheckInterrupt' => At' = At
  BY SignalledMain DEF IInv, InvSeek, InvCall, At, SeekPending, CheckInterrupt, target
<1> HIDE DEF SeekInterrupted, Return
<1> QED
  BY <1>1, <1>2, <1>3, <1>4, <1>5, <1>6, LeftStep

LEMMA SeekDoneStep ==
  ASSUME IInv, SeekDone
  PROVE  IInv'
<1> USE DEF SeekDone, Return, ring, flags, fill, seeking, caller, reading, bgVars
<1>1. RingIsLeft
  BY SignalledBackground DEF RingIsLeft, IInv
<1>2. TypeCaller'
  BY SizesAssumption, SignalledMain DEF IInv, TypeOK, TypeCaller, CheckInterrupt
<1>3. InvCall'
  BY SignalledMain DEF IInv, InvCall, TypeOK, TypeCaller
<1>4. InvSeek'
  BY SignalledMain DEF IInv, InvSeek, InvCall, SeekPending, CheckInterrupt, target
<1>5. InvBroken' /\ (CheckInterrupt => CheckInterrupt')
  BY SignalledMain DEF IInv, InvBroken, CheckInterrupt
<1>6. ~CheckInterrupt' => At' = At
  BY SignalledMain DEF IInv, InvSeek, InvCall, At, SeekPending, CheckInterrupt, target
<1> HIDE DEF SeekDone, Return
<1> QED
  BY <1>1, <1>2, <1>3, <1>4, <1>5, <1>6, LeftStep

LEMMA CloseStep ==
  ASSUME IInv, Close
  PROVE  IInv'
<1> USE DEF Close, Begin, ring, flags, fill, seeking, caller, reading, bgVars
<1>1. RingIsLeft
  BY SignalledBackground DEF RingIsLeft, IInv
<1>2. TypeCaller'
  BY SizesAssumption, SignalledMain DEF IInv, TypeOK, TypeCaller, CheckInterrupt
<1>3. InvCall'
  BY SignalledMain DEF IInv, InvCall, TypeOK, TypeCaller
<1>4. InvSeek'
  BY SignalledMain DEF IInv, InvSeek, InvCall, SeekPending, CheckInterrupt, target
<1>5. InvBroken' /\ (CheckInterrupt => CheckInterrupt')
  BY SignalledMain DEF IInv, InvBroken, CheckInterrupt
<1>6. ~CheckInterrupt' => At' = At
  BY SignalledMain DEF IInv, InvSeek, InvCall, At, SeekPending, CheckInterrupt, target
<1> HIDE DEF Close, Begin
<1> QED
  BY <1>1, <1>2, <1>3, <1>4, <1>5, <1>6, LeftStep

LEMMA JoinedStep ==
  ASSUME IInv, Joined
  PROVE  IInv'
<1> USE DEF Joined, ring, flags, fill, seeking, caller, reading, bgVars
<1>1. RingIsLeft
  BY SignalledBackground DEF RingIsLeft, IInv
<1>2. TypeCaller'
  BY SizesAssumption, SignalledMain DEF IInv, TypeOK, TypeCaller, CheckInterrupt
<1>3. InvCall'
  BY SignalledMain DEF IInv, InvCall, TypeOK, TypeCaller
<1>4. InvSeek'
  BY SignalledMain DEF IInv, InvSeek, InvCall, SeekPending, CheckInterrupt, target
<1>5. InvBroken' /\ (CheckInterrupt => CheckInterrupt')
  BY SignalledMain DEF IInv, InvBroken, CheckInterrupt
<1>6. ~CheckInterrupt' => At' = At
  BY SignalledMain DEF IInv, InvSeek, InvCall, At, SeekPending, CheckInterrupt, target
<1> HIDE DEF Joined
<1> QED
  BY <1>1, <1>2, <1>3, <1>4, <1>5, <1>6, LeftStep

LEMMA InterruptStep ==
  ASSUME IInv, Interrupt
  PROVE  IInv'
<1> USE DEF Interrupt, ring, flags, fill, seeking, caller, reading, bgVars
<1>1. RingIsLeft
  BY SignalledBackground DEF RingIsLeft, IInv
<1>2. TypeCaller'
  BY SizesAssumption, SignalledMain DEF IInv, TypeOK, TypeCaller, CheckInterrupt
<1>3. InvCall'
  BY SignalledMain DEF IInv, InvCall, TypeOK, TypeCaller
<1>4. InvSeek'
  BY SignalledMain DEF IInv, InvSeek, InvCall, SeekPending, CheckInterrupt, target
<1>5. InvBroken' /\ (CheckInterrupt => CheckInterrupt')
  BY SignalledMain DEF IInv, InvBroken, CheckInterrupt
<1>6. ~CheckInterrupt' => At' = At
  BY SignalledMain DEF IInv, InvSeek, InvCall, At, SeekPending, CheckInterrupt, target
<1> HIDE DEF Interrupt
<1> QED
  BY <1>1, <1>2, <1>3, <1>4, <1>5, <1>6, LeftStep

LEMMA SpuriousReaderStep ==
  ASSUME IInv, SpuriousReader
  PROVE  IInv'
<1> USE DEF SpuriousReader, ring, flags, fill, seeking, caller, reading, bgVars
<1>1. RingIsLeft
  BY SignalledBackground DEF RingIsLeft, IInv
<1>2. TypeCaller'
  BY SizesAssumption, SignalledMain DEF IInv, TypeOK, TypeCaller, CheckInterrupt
<1>3. InvCall'
  BY SignalledMain DEF IInv, InvCall, TypeOK, TypeCaller
<1>4. InvSeek'
  BY SignalledMain DEF IInv, InvSeek, InvCall, SeekPending, CheckInterrupt, target
<1>5. InvBroken' /\ (CheckInterrupt => CheckInterrupt')
  BY SignalledMain DEF IInv, InvBroken, CheckInterrupt
<1>6. ~CheckInterrupt' => At' = At
  BY SignalledMain DEF IInv, InvSeek, InvCall, At, SeekPending, CheckInterrupt, target
<1> HIDE DEF SpuriousReader
<1> QED
  BY <1>1, <1>2, <1>3, <1>4, <1>5, <1>6, LeftStep

LEMMA SpuriousBackgroundStep ==
  ASSUME IInv, SpuriousBackground
  PROVE  IInv'
<1> USE DEF SpuriousBackground, ring, flags, fill, seeking, caller, reading, bgVars
<1>1. RingIsLeft
  BY SignalledBackground DEF RingIsLeft, IInv
<1>2. TypeCaller'
  BY SizesAssumption, SignalledMain DEF IInv, TypeOK, TypeCaller, CheckInterrupt
<1>3. InvCall'
  BY SignalledMain DEF IInv, InvCall, TypeOK, TypeCaller
<1>4. InvSeek'
  BY SignalledMain DEF IInv, InvSeek, InvCall, SeekPending, CheckInterrupt, target
<1>5. InvBroken' /\ (CheckInterrupt => CheckInterrupt')
  BY SignalledMain DEF IInv, InvBroken, CheckInterrupt
<1>6. ~CheckInterrupt' => At' = At
  BY SignalledMain DEF IInv, InvSeek, InvCall, At, SeekPending, CheckInterrupt, target
<1> HIDE DEF SpuriousBackground
<1> QED
  BY <1>1, <1>2, <1>3, <1>4, <1>5, <1>6, LeftStep

LEMMA SeekBackStep ==
  ASSUME IInv, SeekBack
  PROVE  IInv'
<1> USE DEF SeekBack, Return, flags, fill, seeking, bgVars
<1>0. PICK p \in Targets : call = <<"seek", p>>
  BY DEF IInv, InvCall
<1>1. /\ target = p /\ p \in Nat /\ p < logical_pos /\ p >= logical_pos - read_pos
      /\ logical_pos \in 0 .. Size /\ read_pos \in 0 .. ReadBack
      /\ rndx \in Nat /\ wndx \in Nat
  BY <1>0, SizesAssumption DEF Targets, target, InRing, IInv, TypeOK, TypeCaller, TypeRing
<1>2. read_pos' = read_pos + (p - logical_pos) /\ logical_pos' = p /\ read_pos' \in 0 .. ReadBack
  BY <1>1, SizesAssumption
<1>3. TypeRing'
  BY <1>2 DEF IInv, TypeOK, TypeRing, Cells
<1>4. TypeCaller'
  BY <1>1, <1>2, SizesAssumption DEF IInv, TypeOK, TypeCaller
<1>5. InvCall' /\ InvSeek' /\ InvEof' /\ InvBroken'
  BY DEF IInv, InvCall, InvSeek, InvEof, InvBroken, SeekPending, CheckInterrupt
<1>6. InvSpace'
  BY <1>1, <1>2 DEF IInv, InvSpace, ring_size, ring_space, NeverOverwritten, Cells
<1>7. InvBytes'
  <2> SUFFICES ASSUME ~CheckInterrupt' PROVE InvBytes'
    BY DEF InvBytes
  <2>1. ~CheckInterrupt /\ End' = End /\ At' = p /\ At = logical_pos
    BY <1>2 DEF CheckInterrupt, End, At, SeekPending
  <2>2. rndx' + read_pos' = rndx + read_pos + (p - logical_pos) /\ End \in Nat
    BY <1>1, <1>2 DEF End, IInv, TypeOK, TypeRing
  <2>3. inner' = At' + (End' - (rndx' + read_pos'))
    BY <1>1, <2>1, <2>2 DEF IInv, InvBytes
  <2>4. ASSUME NEW i \in rndx' .. (End' - 1)
        PROVE  mem'[i % Cells'] = At' + (i - (rndx' + read_pos'))
    <3>1. i \in rndx .. (End - 1) /\ i \in Int
      BY <1>1, <2>1, <2>2
    <3>2. mem[i % Cells] = At + (i - (rndx + read_pos))
      BY <2>1, <3>1 DEF IInv, InvBytes
    <3>3. At + (i - (rndx + read_pos)) = At' + (i - (rndx' + read_pos'))
      BY <1>1, <2>1, <2>2, <3>1
    <3> QED
      BY <3>2, <3>3 DEF Cells
  <2> QED
    BY <2>3, <2>4 DEF InvBytes
<1> QED
  BY <1>3, <1>4, <1>5, <1>6, <1>7 DEF IInv, TypeOK

\* Bytes are taken out of the ring; those that stay are where they were.
LEMMA ReadSomeStep ==
  ASSUME IInv, ReadSome
  PROVE  IInv'
<1> DEFINE n == Min({to_read, ring_size})
           d == Max({0, read_pos + n - ReadBack})
<1>1. /\ rd = "read" /\ ~CheckInterrupt /\ ring_size > 0
      /\ RingSkip(n) /\ logical_pos' = logical_pos + n
      /\ \/ /\ Skipping /\ n < to_read /\ rd' = "readwait" /\ to_read' = to_read - n
            /\ UNCHANGED <<caller, size>>
         \/ \E r : Return(r)
      /\ SignalBackground /\ UNCHANGED <<flags, seeking, abort_request, bgVars>>
  BY DEF ReadSome
<1>2. /\ rndx \in Nat /\ wndx \in Nat /\ read_pos \in 0 .. ReadBack /\ inner \in 0 .. Size
      /\ wpos \in Nat /\ left \in Nat /\ ring_size \in Nat /\ End \in Nat
      /\ logical_pos \in 0 .. Size /\ to_read \in Nat /\ size \in Nat /\ to_read <= size
      /\ to_read > 0 /\ ReadBack \in Nat
  BY <1>1, SizesAssumption DEF IInv, TypeOK, TypeRing, TypeCaller, InvCall, ring_size, End
<1>3. n \in Nat /\ 0 < n /\ n <= to_read /\ n <= ring_size
  BY <1>1, <1>2, MinOf
<1>4. d \in Nat /\ d <= read_pos + n /\ read_pos + n - d \in 0 .. ReadBack
  BY <1>2, <1>3, MaxOf
<1>5. /\ rndx' = rndx + d /\ read_pos' = read_pos + n - d /\ wndx' = wndx
      /\ mem' = [c \in DOMAIN mem |->
                   IF \E i \in 0 .. (d - 1) : c = (rndx + i) % Cells THEN -1 ELSE mem[c]]
  BY <1>1 DEF RingSkip
<1> HIDE DEF n, d
<1>6. bg' = bg \/ (bg = "wait" /\ bg' = "top")
  BY <1>1, SignalledBackground DEF IInv
<1>7. End' = End /\ ~CheckInterrupt' /\ At = logical_pos /\ At' = logical_pos'
  BY <1>1, <1>5, <1>6 DEF End, CheckInterrupt, At, SeekPending, bgVars, fill, Return
<1>8. /\ inner = logical_pos + (End - (rndx + read_pos))
      /\ \A i \in rndx .. (End - 1) : mem[i % Cells] = logical_pos + (i - (rndx + read_pos))
  BY <1>1, <1>7 DEF IInv, InvBytes
<1>9. wndx <= End /\ End - rndx <= Cells
  BY <1>2, CellsNat DEF IInv, InvSpace, End, NeverOverwritten, ring_space
<1>10. logical_pos' \in 0 .. Size
  <2>1. logical_pos + ring_size <= inner
    BY <1>2, <1>8, <1>9 DEF ring_size
  <2> QED
    BY <1>1, <1>2, <1>3, <2>1, SizesAssumption
<1>11. TypeRing'
  <2>1. mem' \in [0 .. (Cells - 1) -> Int]
    <3>1. mem \in [0 .. (Cells - 1) -> Int]
      BY DEF IInv, TypeOK, TypeRing
    <3> QED
      BY <1>5, <3>1
  <2>2. rndx' \in Nat /\ wndx' \in Nat /\ read_pos' \in 0 .. ReadBack
    BY <1>2, <1>4, <1>5
  <2> QED
    BY <1>1, <1>6, <2>1, <2>2 DEF IInv, TypeOK, TypeRing, bgVars, fill, Cells
<1>12. TypeCaller' /\ InvCall'
  <2>1. CASE Skipping /\ n < to_read /\ rd' = "readwait" /\ to_read' = to_read - n /\ UNCHANGED <<caller, size>>
    <3>1. call = <<"seek", logical_pos + to_read>> /\ size - to_read <= logical_pos
      BY <1>1, <2>1 DEF IInv, InvCall, Skipping
    <3>2. to_read' \in 0 .. size' /\ to_read' > 0 /\ size' \in Nat
      BY <1>2, <1>3, <2>1
    <3>3. logical_pos' + to_read' = logical_pos + to_read /\ size' - to_read' <= logical_pos'
      BY <1>1, <1>2, <1>3, <2>1, <3>1
    <3>4. TypeCaller'
      BY <1>1, <1>10, <2>1, <3>2 DEF IInv, TypeOK, TypeCaller, flags, seeking, bgVars
    <3>5. InvCall'
      BY <2>1, <3>1, <3>2, <3>3 DEF InvCall, caller
    <3> QED
      BY <3>4, <3>5
  <2>2. CASE \E r : Return(r)
    BY <1>1, <1>10, <2>2 DEF IInv, TypeOK, TypeCaller, InvCall, Return, flags, seeking, bgVars
  <2> QED
    BY <1>1, <2>1, <2>2
<1>13. InvSpace'
  <2>1. ring_size' = ring_size - n /\ ring_space' = ring_space + d
    BY <1>2, <1>3, <1>4, <1>5, CellsNat DEF ring_size, ring_space, Cells
  <2>2. wpos' = wpos /\ left' = left /\ wpos + left - rndx' <= wpos + left - rndx
    BY <1>1, <1>2, <1>4, <1>5 DEF bgVars, fill
  <2>3. ring_size' >= 0 /\ ring_space' >= 0
    BY <1>2, <1>3, <1>4, <2>1, CellsNat DEF IInv, InvSpace, ring_space
  <2>4. bg' \in {"fill", "publish"} => wndx' <= wpos' /\ wpos' + left' - rndx' <= Cells
    BY <1>2, <1>4, <1>5, <1>6, <2>2, CellsNat DEF IInv, InvSpace, NeverOverwritten
  <2> QED
    BY <2>3, <2>4 DEF InvSpace, NeverOverwritten, Cells
<1>14. InvSeek' /\ InvBroken'
  BY <1>1 DEF IInv, InvSeek, InvBroken, SeekPending, CheckInterrupt, Return, flags, seeking, bgVars, fill
<1>15. InvEof'
  BY <1>1, <1>6 DEF IInv, InvEof, flags, bgVars, fill
<1>16. InvBytes'
  <2>1. rndx' + read_pos' = rndx + read_pos + n /\ logical_pos' = logical_pos + n /\ inner' = inner
    BY <1>1, <1>2, <1>3, <1>4, <1>5 DEF bgVars
  <2>2. inner' = At' + (End' - (rndx' + read_pos'))
    BY <1>2, <1>3, <1>7, <1>8, <2>1
  <2>3. ASSUME NEW i \in rndx' .. (End' - 1)
        PROVE  mem'[i % Cells'] = At' + (i - (rndx' + read_pos'))
    <3>1. i \in rndx .. (End - 1) /\ i \in Int /\ i >= rndx + d
      BY <1>2, <1>4, <1>5, <1>7
    <3>2. mem[i % Cells] = logical_pos + (i - (rndx + read_pos))
      BY <1>8, <3>1
    <3>3. i % Cells \in 0 .. (Cells - 1)
      BY <3>1, CellsNat, DivMod
    <3>4. ASSUME NEW j \in 0 .. (d - 1) PROVE i % Cells # (rndx + j) % Cells
      <4>1. rndx + j \in Int /\ i - (rndx + j) < Cells /\ (rndx + j) - i < Cells /\ i # rndx + j
        BY <1>2, <1>4, <1>9, <3>1, CellsNat
      <4> QED
        BY <3>1, <4>1, CellsNat, ModUnique
    <3>5. i % Cells \in DOMAIN mem
      BY <3>3 DEF IInv, TypeOK, TypeRing
    <3>6. mem'[i % Cells] = mem[i % Cells]
      BY <1>5, <3>4, <3>5, Zenon
    <3>7. At' + (i - (rndx' + read_pos')) = logical_pos + (i - (rndx + read_pos))
      BY <1>2, <1>3, <1>7, <2>1, <3>1
    <3> QED
      BY <3>2, <3>6, <3>7 DEF Cells
  <2> QED
    BY <2>2, <2>3 DEF InvBytes
<1> QED
  BY <1>11, <1>12, <1>13, <1>14, <1>15, <1>16 DEF IInv, TypeOK

LEMMA BgAbortStep ==
  ASSUME IInv, BgAbort
  PROVE  IInv'
<1> USE DEF BgAbort, ring, fill, seeking, caller, reading
<1>1. TypeRing'
  BY DEF IInv, TypeOK, TypeRing, Cells
<1>2. TypeCaller'
  BY SignalledMain DEF IInv, TypeOK, TypeCaller
<1>3. InvCall' /\ InvSeek'
  BY SignalledMain DEF IInv, InvCall, InvSeek, SeekPending, CheckInterrupt, target
<1>4. InvSpace' /\ InvEof' /\ InvBytes'
  BY DEF IInv, InvSpace, InvEof, InvBytes, CheckInterrupt, ring_size, ring_space, NeverOverwritten, Cells
<1>5. InvBroken'
  BY SignalledMain DEF IInv, InvBroken, CheckInterrupt
<1> QED
  BY <1>1, <1>2, <1>3, <1>4, <1>5 DEF IInv, TypeOK

\* The ring is emptied and begins again at the target.
LEMMA BgSeekStep ==
  ASSUME IInv, BgSeek
  PROVE  IInv'
<1> USE DEF BgSeek, SeekAnswered, RingReset, fill, caller, reading
<1>1. SeekPending /\ ~CheckInterrupt /\ SeekPending' /\ ~CheckInterrupt'
  BY SignalledMain DEF IInv, InvSeek, CheckInterrupt
<1>2. PICK p \in 0 .. Size : call = <<"seek", p>>
  BY <1>1 DEF IInv, InvCall, SeekPending
<1>3. target = p /\ target' = p /\ p \in 0 .. Size /\ p >= 0 /\ -1 \in Int
  BY <1>2, SizesAssumption DEF target
<1>4. TypeRing'
  <2>1. mem' \in [0 .. (Cells - 1) -> Int]
    <3>1. mem \in [0 .. (Cells - 1) -> Int]
      BY DEF IInv, TypeOK, TypeRing
    <3> QED
      BY <3>1
  <2>2. rndx' \in Nat /\ wndx' \in Nat /\ read_pos' \in 0 .. ReadBack
    BY SizesAssumption
  <2> QED
    BY <1>3, <2>1, <2>2 DEF IInv, TypeOK, TypeRing, Cells
<1>5. TypeCaller'
  <2>1. seek_ret' \in -1 .. Size
    BY <1>3, SizesAssumption
  <2> QED
    BY <2>1, SignalledMain DEF IInv, TypeOK, TypeCaller
<1>6. InvCall' /\ InvSeek'
  BY <1>1, <1>3, SignalledMain DEF IInv, InvCall, InvSeek
<1>7. InvSpace' /\ InvEof'
  BY CellsNat DEF InvSpace, InvEof, ring_size, ring_space, NeverOverwritten, Cells
<1>8. InvBroken'
  BY <1>3, SignalledMain DEF IInv, InvBroken, CheckInterrupt
<1>9. InvBytes'
  BY <1>1, <1>3 DEF InvBytes, At, End
<1> QED
  BY <1>4, <1>5, <1>6, <1>7, <1>8, <1>9 DEF IInv, TypeOK

LEMMA BgSeekFailsStep ==
  ASSUME IInv, BgSeekFails
  PROVE  IInv'
<1> USE DEF BgSeekFails, SeekAnswered, ring, flags, fill, caller, reading
<1>1. RingIsLeft
  BY DEF RingIsLeft
<1>2. TypeCaller'
  <2>1. seek_ret' \in -1 .. Size
    BY SizesAssumption
  <2> QED
    BY <2>1, SignalledMain DEF IInv, TypeOK, TypeCaller
<1>3. InvCall' /\ InvSeek' /\ InvBroken' /\ CheckInterrupt' = CheckInterrupt
  BY SignalledMain DEF IInv, InvCall, InvSeek, InvBroken, CheckInterrupt
<1>4. At' = At
  <2>1. ~seek_completed
    BY DEF IInv, InvSeek
  <2> QED
    BY <2>1 DEF At
<1> QED
  BY <1>1, <1>2, <1>3, <1>4, LeftStep

\* What the background thread does without touching the bytes or the indices that
\* the caller sees; the index after the last byte in the ring stays the same.
BytesAreLeft ==
  /\ UNCHANGED <<mem, rndx, read_pos, inner, logical_pos, seeking, interrupted>>
  /\ CheckInterrupt => CheckInterrupt'
  /\ SeekPending' <=> SeekPending
  /\ End' = End

LEMMA BytesAreLeftStep ==
  ASSUME IInv, BytesAreLeft
  PROVE  InvBytes'
<1>1. At' = At
  BY DEF BytesAreLeft, At, seeking
<1> QED
  BY <1>1 DEF IInv, InvBytes, BytesAreLeft, Cells

LEMMA BgSleepStep ==
  ASSUME IInv, BgSleep
  PROVE  IInv'
<1> USE DEF BgSleep, ring, fill, flags, seeking, caller, reading
<1>1. TypeRing'
  BY DEF IInv, TypeOK, TypeRing, Cells
<1>2. TypeCaller'
  BY SignalledMain DEF IInv, TypeOK, TypeCaller
<1>3. InvCall' /\ InvSeek' /\ InvBroken'
  BY SignalledMain DEF IInv, InvCall, InvSeek, InvBroken, SeekPending, CheckInterrupt, target
<1>4. InvSpace' /\ InvEof'
  BY DEF IInv, InvSpace, InvEof, ring_size, ring_space, NeverOverwritten, Cells
<1>5. InvBytes'
  BY BytesAreLeftStep, SignalledMain DEF IInv, BytesAreLeft, CheckInterrupt, End
<1> QED
  BY <1>1, <1>2, <1>3, <1>4, <1>5 DEF IInv, TypeOK

\* No more is asked for than there is room.
LEMMA BgStartFillStep ==
  ASSUME IInv, BgStartFill
  PROVE  IInv'
<1> USE DEF BgStartFill, ring, flags, seeking, caller, reading
<1>1. rndx \in Nat /\ wndx \in Nat /\ ring_space \in Nat /\ Chunk \in Nat
  BY CellsNat, SizesAssumption DEF IInv, TypeOK, TypeRing, ring_space
<1>2. left' \in Nat /\ left' <= ring_space
  BY <1>1, MinOf
<1>3. TypeRing'
  BY <1>1, <1>2 DEF IInv, TypeOK, TypeRing, Cells
<1>4. TypeCaller' /\ InvCall' /\ InvSeek' /\ InvBroken'
  BY DEF IInv, TypeOK, TypeCaller, InvCall, InvSeek, InvBroken, SeekPending, CheckInterrupt, target
<1>5. InvSpace'
  BY <1>1, <1>2, CellsNat DEF IInv, InvSpace, ring_size, ring_space, NeverOverwritten, Cells
<1>6. InvEof'
  BY DEF IInv, InvEof
<1>7. InvBytes'
  BY BytesAreLeftStep DEF BytesAreLeft, CheckInterrupt, End, SeekPending
<1> QED
  BY <1>3, <1>4, <1>5, <1>6, <1>7 DEF IInv, TypeOK

\* One read of the inner protocol, from the cell w on and k bytes long.
LEMMA BgFillOnce ==
  ASSUME IInv, BgFill
  PROVE  \E w \in 0 .. (Cells - 1), k \in Nat :
           /\ wpos % Cells = w
           /\ 1 <= k /\ k <= left /\ k <= Cells - w /\ k <= Size - inner
           /\ mem' = [c \in DOMAIN mem |-> IF c \in w .. (w + k - 1) THEN inner + (c - w) ELSE mem[c]]
           /\ inner' = inner + k /\ wpos' = wpos + k /\ left' = left - k
           /\ bg' = IF k = left THEN "publish" ELSE "fill"
<1> DEFINE w == wpos % Cells
           m == Min({left, Cells - w, Size - inner})
           Once(k) == /\ mem' = [c \in DOMAIN mem |-> IF c \in w .. (w + k - 1)
                                                      THEN inner + (c - w) ELSE mem[c]]
                      /\ inner' = inner + k /\ wpos' = wpos + k /\ left' = left - k
                      /\ bg' = IF k = left THEN "publish" ELSE "fill"
<1>1. \E k \in 1 .. m : Once(k)
  BY DEF BgFill
<1>2. inner \in Int /\ Size \in Int /\ wpos \in Int /\ left \in Int
  BY SizesAssumption DEF IInv, TypeOK, TypeRing
<1>3. w \in 0 .. (Cells - 1) /\ Cells - w \in Int
  BY <1>2, CellsNat, DivMod
<1>4. wpos % Cells = w
  OBVIOUS
<1> HIDE DEF w
<1>5. m \in Int /\ m <= left /\ m <= Cells - w /\ m <= Size - inner
  <2>1. Size - inner \in Int
    BY <1>2
  <2> QED
    BY <1>2, <1>3, <2>1, MinOfThree, ZenonT(40)
<1> HIDE DEF m, Once
<1>6. PICK k \in 1 .. m : Once(k)
  BY <1>1
<1>7. k \in Nat /\ 1 <= k /\ k <= left /\ k <= Cells - w /\ k <= Size - inner
  BY <1>2, <1>3, <1>5
<1> USE DEF Once
<1> QED
  BY <1>3, <1>4, <1>6, <1>7, Zenon

\* Bytes are put behind the last one; they hit no cell of a byte that is kept.
LEMMA BgFillStep ==
  ASSUME IInv, BgFill
  PROVE  IInv'
<1>1. PICK w \in 0 .. (Cells - 1), k \in Nat :
        /\ wpos % Cells = w
        /\ 1 <= k /\ k <= left /\ k <= Cells - w /\ k <= Size - inner
        /\ mem' = [c \in DOMAIN mem |-> IF c \in w .. (w + k - 1) THEN inner + (c - w) ELSE mem[c]]
        /\ inner' = inner + k /\ wpos' = wpos + k /\ left' = left - k
        /\ bg' = IF k = left THEN "publish" ELSE "fill"
  BY BgFillOnce, Zenon
<1>2. /\ bg = "fill" /\ inner < Size /\ got' = TRUE /\ inner_io_error' = FALSE
      /\ UNCHANGED <<rndx, wndx, read_pos, flags, seeking, abort_request, logical_pos,
                     caller, rd, reading, interrupted, broken>>
  BY DEF BgFill
<1>3. /\ rndx \in Nat /\ wndx \in Nat /\ read_pos \in Nat /\ inner \in 0 .. Size /\ Size \in Nat
      /\ wpos \in Nat /\ left \in Nat /\ mem \in [0 .. (Cells - 1) -> Int] /\ logical_pos \in Nat
  BY SizesAssumption DEF IInv, TypeOK, TypeRing, TypeCaller
<1>w. wpos % Cells = w
  BY <1>1
<1>4. w \in 0 .. (Cells - 1) /\ Cells - w \in Int
  BY CellsNat
<1>5. k \in Nat /\ 1 <= k /\ k <= left /\ k <= Cells - w /\ k <= Size - inner
  BY <1>1
<1>6. TypeRing'
  <2>1. mem' \in [0 .. (Cells - 1) -> Int]
    BY <1>1, <1>3, <1>4
  <2>2. inner' \in 0 .. Size /\ wpos' \in Nat /\ left' \in Nat
    BY <1>1, <1>3, <1>5
  <2>3. bg' \in {"fill", "publish"}
    BY <1>1
  <2> QED
    BY <1>2, <2>1, <2>2, <2>3 DEF IInv, TypeOK, TypeRing, Cells
<1>7. TypeCaller' /\ InvCall' /\ InvSeek' /\ InvBroken'
  BY <1>2 DEF IInv, TypeOK, TypeCaller, InvCall, InvSeek, InvBroken, SeekPending, CheckInterrupt, target,
     flags, seeking, caller, reading
<1>8. wndx <= wpos /\ wpos + left - rndx <= Cells /\ ~io_eof_reached
  BY <1>2 DEF IInv, InvSpace, InvEof, NeverOverwritten
<1>9. InvSpace'
  <2>1. ring_size' = ring_size /\ ring_space' = ring_space
    BY <1>2 DEF ring_size, ring_space, Cells
  <2>2. wndx' <= wpos' /\ wpos' + left' - rndx' <= Cells
    BY <1>1, <1>2, <1>3, <1>5, <1>8, CellsNat
  <2> QED
    BY <2>1, <2>2 DEF IInv, InvSpace, NeverOverwritten, Cells
<1>10. InvEof'
  BY <1>2, <1>8 DEF InvEof, flags
<1>11. InvBytes'
  <2> SUFFICES ASSUME ~CheckInterrupt' PROVE InvBytes'
    BY DEF InvBytes
  <2>1. At' = At /\ End = wpos /\ End' = wpos + k /\ ~CheckInterrupt
    BY <1>1, <1>2 DEF At, End, SeekPending, CheckInterrupt, seeking
  <2>2. /\ inner = At + (wpos - (rndx + read_pos))
        /\ \A i \in rndx .. (wpos - 1) : mem[i % Cells] = At + (i - (rndx + read_pos))
    BY <2>1 DEF IInv, InvBytes
  <2>3. At \in Int
    BY <1>3, SizesAssumption DEF At, IInv, TypeOK, TypeCaller
  <2>4. inner' = At' + (End' - (rndx' + read_pos'))
    BY <1>1, <1>2, <1>3, <1>5, <2>1, <2>2, <2>3
  <2>5. ASSUME NEW i \in rndx' .. (End' - 1)
        PROVE  mem'[i % Cells'] = At' + (i - (rndx' + read_pos'))
    <3>1. i \in rndx .. (wpos + k - 1) /\ i \in Int
      BY <1>2, <2>1, <1>3, <1>5
    <3>2. i % Cells \in 0 .. (Cells - 1) /\ i % Cells \in DOMAIN mem
      BY <1>3, <3>1, CellsNat, DivMod
    <3>3. CASE i < wpos
      <4>1. i % Cells \notin w .. (w + k - 1)
        <5> SUFFICES ASSUME i % Cells \in w .. (w + k - 1) PROVE FALSE
          OBVIOUS
        <5> DEFINE r == i % Cells
        <5>0. r = i % Cells /\ r \in w .. (w + k - 1)
          OBVIOUS
        <5> HIDE DEF r
        <5>1. PICK e \in Nat : e < k /\ r = w + e /\ w + e < Cells
          <6>1. r - w \in Nat /\ r - w < k /\ r = w + (r - w) /\ w + (r - w) < Cells
            BY <1>4, <1>5, <5>0, CellsNat
          <6> QED
            BY <6>1
        <5>2. (wpos + e) % Cells = i % Cells
          BY <1>3, <1>w, <5>0, <5>1, CellsNat, ModAdd
        <5>3. wpos + e \in Int /\ i - (wpos + e) < Cells /\ (wpos + e) - i < Cells /\ i # wpos + e
          BY <1>3, <1>5, <1>8, <3>1, <3>3, <5>1, CellsNat
        <5> QED
          BY <3>1, <5>2, <5>3, CellsNat, ModUnique
      <4>2. mem'[i % Cells] = mem[i % Cells]
        BY <1>1, <3>2, <4>1, Zenon
      <4>3. i \in rndx .. (wpos - 1)
        BY <1>3, <3>1, <3>3
      <4>4. mem[i % Cells] = At + (i - (rndx + read_pos))
        BY <2>2, <4>3
      <4> QED
        BY <1>2, <2>1, <4>2, <4>4 DEF Cells
    <3>4. CASE i >= wpos
      <4> DEFINE e == i - wpos
      <4>1. e \in Nat /\ e < k /\ i = wpos + e
        BY <1>3, <1>5, <3>1, <3>4
      <4> HIDE DEF e
      <4>2. w + e < Cells
        BY <1>4, <1>5, <4>1, CellsNat
      <4>3. i % Cells = w + e
        <5>1. (wpos + e) % Cells = w + e
          <6>1. e \in Nat /\ wpos \in Int
            BY <1>3, <4>1
          <6> QED
            BY <1>w, <4>2, <6>1, CellsNat, ModAdd
        <5> QED
          BY <4>1, <5>1, Zenon
      <4>4. i % Cells \in w .. (w + k - 1) /\ (i % Cells) - w = e
        BY <1>4, <1>5, <4>1, <4>3
      <4>5. mem'[i % Cells] = inner + ((i % Cells) - w)
        BY <1>1, <3>2, <4>4, Zenon
      <4>6. mem'[i % Cells] = inner + e
        BY <4>4, <4>5
      <4>7. inner + e = At' + (i - (rndx' + read_pos'))
        BY <1>2, <1>3, <2>1, <2>2, <2>3, <4>1
      <4> QED
        BY <4>6, <4>7 DEF Cells
    <3> QED
      BY <3>1, <3>3, <3>4, <1>3
  <2> QED
    BY <2>4, <2>5 DEF InvBytes
<1> QED
  BY <1>6, <1>7, <1>9, <1>10, <1>11 DEF IInv, TypeOK

LEMMA BgFillEndsStep ==
  ASSUME IInv, BgFillEnds
  PROVE  IInv'
<1> USE DEF BgFillEnds, ring, flags, seeking, caller, reading
<1>1. TypeRing'
  BY DEF IInv, TypeOK, TypeRing, Cells
<1>2. TypeCaller' /\ InvCall' /\ InvSeek' /\ InvBroken'
  BY DEF IInv, TypeOK, TypeCaller, InvCall, InvSeek, InvBroken, SeekPending, CheckInterrupt, target
<1>3. InvSpace'
  BY DEF IInv, InvSpace, ring_size, ring_space, NeverOverwritten, Cells
<1>4. InvEof'
  BY SizesAssumption DEF IInv, TypeOK, TypeRing, InvEof
<1>5. InvBytes'
  BY BytesAreLeftStep DEF BytesAreLeft, CheckInterrupt, End, SeekPending
<1> QED
  BY <1>1, <1>2, <1>3, <1>4, <1>5 DEF IInv, TypeOK

LEMMA BgFillFailsStep ==
  ASSUME IInv, BgFillFails
  PROVE  IInv'
<1> USE DEF BgFillFails, ring, flags, seeking, caller, reading
<1>1. TypeRing'
  BY DEF IInv, TypeOK, TypeRing, Cells
<1>2. TypeCaller'
  BY DEF IInv, TypeOK, TypeCaller, CheckInterrupt
<1>3. InvCall' /\ InvSeek' /\ InvBroken'
  BY DEF IInv, InvCall, InvSeek, InvBroken, SeekPending, CheckInterrupt, target
<1>4. InvSpace'
  BY DEF IInv, InvSpace, ring_size, ring_space, NeverOverwritten, Cells
<1>5. InvEof'
  BY DEF IInv, InvEof
<1>6. InvBytes'
  BY BytesAreLeftStep DEF BytesAreLeft, CheckInterrupt, End, SeekPending
<1> QED
  BY <1>1, <1>2, <1>3, <1>4, <1>5, <1>6 DEF IInv, TypeOK

LEMMA BgPublishStep ==
  ASSUME IInv, BgPublish
  PROVE  IInv'
<1> USE DEF BgPublish, fill, flags, seeking, caller, reading
<1>1. TypeRing'
  BY DEF IInv, TypeOK, TypeRing, Cells
<1>2. TypeCaller' /\ InvCall' /\ InvSeek' /\ InvBroken'
  BY DEF IInv, TypeOK, TypeCaller, InvCall, InvSeek, InvBroken, SeekPending, CheckInterrupt, target
<1>3. InvSpace'
  BY CellsNat DEF IInv, TypeOK, TypeRing, InvSpace, ring_size, ring_space, NeverOverwritten, Cells
<1>4. InvEof'
  BY DEF IInv, InvEof
<1>5. InvBytes'
  BY BytesAreLeftStep DEF BytesAreLeft, CheckInterrupt, End, SeekPending
<1> QED
  BY <1>1, <1>2, <1>3, <1>4, <1>5 DEF IInv, TypeOK

LEMMA BgPostStep ==
  ASSUME IInv, BgPost
  PROVE  IInv'
<1> USE DEF BgPost, ring, seeking, caller, reading
<1>1. TypeRing'
  BY DEF IInv, TypeOK, TypeRing, Cells
<1>2. TypeCaller'
  BY SignalledMain DEF IInv, TypeOK, TypeCaller, TypeRing
<1>3. InvCall' /\ InvSeek'
  BY SignalledMain DEF IInv, InvCall, InvSeek, SeekPending, CheckInterrupt, target
<1>4. InvSpace'
  BY DEF IInv, InvSpace, ring_size, ring_space, NeverOverwritten, Cells
<1>5. InvEof' /\ InvBroken'
  BY SignalledMain DEF IInv, InvEof, InvBroken, CheckInterrupt
<1>6. InvBytes'
  BY BytesAreLeftStep, SignalledMain DEF IInv, BytesAreLeft, CheckInterrupt, End
<1> QED
  BY <1>1, <1>2, <1>3, <1>4, <1>5, <1>6 DEF IInv, TypeOK

LEMMA Step == ASSUME IInv, [Next]_vars PROVE IInv'
<1>1. CASE Background
  BY <1>1, BgAbortStep, BgSeekStep, BgSeekFailsStep, BgSleepStep, BgStartFillStep, BgFillStep,
     BgFillEndsStep, BgFillFailsStep, BgPublishStep, BgPostStep DEF Background
<1>2. CASE Reader
  BY <1>2, ReadInterruptedStep, ReadSomeStep, ReadEndsStep, ReadWaitsStep, SeekHereStep, SeekForwardStep,
     SeekBackStep, SeekRefusedStep, SeekRequestStep, SeekWaitsStep, SeekInterruptedStep, SeekDoneStep,
     JoinedStep DEF Reader
<1>3. CASE Caller
  BY <1>3, ReadStep, SeekStep, CloseStep DEF Caller
<1>4. CASE UNCHANGED vars
  <2> USE <1>4 DEF vars, ring, fill, flags, seeking, caller, reading
  <2>1. RingIsLeft
    BY DEF RingIsLeft
  <2>2. TypeCaller' /\ InvCall' /\ InvSeek' /\ InvBroken' /\ CheckInterrupt' = CheckInterrupt /\ At' = At
    BY DEF IInv, TypeOK, TypeCaller, InvCall, InvSeek, InvBroken, SeekPending, CheckInterrupt, At, target
  <2> QED
    BY <2>1, <2>2, LeftStep
<1> QED
  BY <1>1, <1>2, <1>3, <1>4, InterruptStep, SpuriousReaderStep, SpuriousBackgroundStep DEF Next, Terminated

\* The types, the call in progress, the space in the ring, the bytes in it, the end
\* of the file and errors are what the code takes them for, at every moment of both
\* threads (async_buffer_task, async_read_internal, async_seek).
THEOREM Invariance == Spec => []IInv
<1> QED
  BY Initially, Step, PTL DEF Spec

\* No byte that may still be read or sought back to is overwritten while the
\* background thread fills the ring without the mutex (ring_space).
THEOREM NothingIsOverwritten == Spec => []NeverOverwritten
<1>1. IInv => NeverOverwritten
  BY DEF IInv, InvSpace
<1> QED
  BY <1>1, Invariance, PTL

-------------------------------------------------------------------------------
(***************************************************************************)
(* The refinement                                                          *)
(***************************************************************************)
\* What the caller of the protocol does not see.
LEMMA Stutters ==
  ASSUME UNCHANGED <<call, result, broken>>, Position' = Position
  PROVE  UNCHANGED File!vars
BY DEF File!vars

\* Outside a skip the position is the protocol's.
LEMMA PositionIs ==
  ASSUME IInv
  PROVE  /\ rd \notin {"read", "readwait"} => Position = logical_pos
         /\ call[1] # "seek" => Position = logical_pos
         /\ rd \in {"read", "readwait"} /\ call[1] = "seek" => Position = logical_pos - (size - to_read)
BY DEF Position

\* The position in the file and the sizes are numbers.
LEMMA Numbers ==
  ASSUME IInv
  PROVE  /\ logical_pos \in 0 .. Size /\ Size \in Nat /\ size \in Nat /\ to_read \in 0 .. size
         /\ rndx \in Nat /\ wndx \in Nat /\ read_pos \in Nat /\ inner \in 0 .. Size /\ wpos \in Nat
         /\ left \in Nat /\ ring_size \in Nat /\ End \in Nat /\ wndx <= End
BY SizesAssumption DEF IInv, TypeOK, TypeRing, TypeCaller, InvSpace, ring_size, End

LEMMA BackgroundRefines ==
  ASSUME IInv, Background
  PROVE  [File!Next]_(File!vars)
<1>1. CASE BgSeekFails \/ BgFillFails
  <2>1. Position' = Position /\ UNCHANGED <<call, result>> /\ broken' = TRUE
    BY <1>1, SignalledMain DEF BgSeekFails, BgFillFails, SeekAnswered, Position, IInv, caller, reading
  <2> QED
    BY <2>1 DEF File!Next, File!Break
<1>2. CASE BgAbort \/ BgSeek \/ BgSleep \/ BgStartFill \/ BgFill \/ BgFillEnds \/ BgPublish \/ BgPost
  <2>1. UNCHANGED <<call, result, broken, logical_pos, size, to_read>>
        /\ (rd' \in {"read", "readwait"} <=> rd \in {"read", "readwait"})
    BY <1>2, SignalledMain DEF BgAbort, BgSeek, BgSleep, BgStartFill, BgFill, BgFillEnds, BgPublish, BgPost,
       SeekAnswered, IInv, caller, reading
  <2>2. Position' = Position
    BY <2>1 DEF Position
  <2> QED
    BY <2>1, <2>2, Stutters
<1> QED
  BY <1>1, <1>2 DEF Background

LEMMA CallerRefines ==
  ASSUME IInv, Caller
  PROVE  [File!Next]_(File!vars)
<1>1. rd = "idle" /\ call = <<"none">> /\ result' = <<"none">> /\ UNCHANGED <<broken, logical_pos>>
  BY DEF IInv, InvCall, Caller, Read, Seek, Close, Begin, bgVars
<1>2. Position = logical_pos
  BY <1>1 DEF Position
<1>3. CASE \E n \in ReadSizes : Read(n)
  <2>1. PICK n \in ReadSizes : Read(n)
    BY <1>3
  <2>2. call' = <<"read", n>> /\ n \in 1 .. Size
    BY <2>1, SizesAssumption DEF Read, Begin
  <2>3. Position' = logical_pos
    BY <1>1, <2>2 DEF Position
  <2> QED
    BY <1>1, <1>2, <2>2, <2>3 DEF File!Next, File!Begin
<1>4. CASE \E p \in Targets : Seek(p)
  <2>1. PICK p \in Targets : Seek(p)
    BY <1>4
  <2>2. call' = <<"seek", p>> /\ rd' = "decide" /\ p \in File!Targets
    BY <2>1 DEF Seek, Begin, Targets, File!Targets
  <2>3. Position' = logical_pos
    BY <1>1, <2>2 DEF Position
  <2> QED
    BY <1>1, <1>2, <2>2, <2>3 DEF File!Next, File!Begin
<1>5. CASE Close
  <2>1. call' = <<"close">> /\ rd' = "join"
    BY <1>5 DEF Close, Begin
  <2>2. Position' = logical_pos
    BY <1>1, <2>1 DEF Position
  <2> QED
    BY <1>1, <1>2, <2>1, <2>2 DEF File!Next, File!Begin
<1> QED
  BY <1>3, <1>4, <1>5 DEF Caller

\* A call that ends reads or seeks as the file does.
LEMMA Ends ==
  ASSUME File!Read \/ File!Seek, call' = <<"none">>, UNCHANGED broken
  PROVE  [File!Next]_(File!vars)
BY DEF File!Next

\* The caller waits, or a thread wakes up.
LEMMA WaitsRefine ==
  ASSUME IInv, ReadWaits \/ SeekWaits \/ Joined \/ SpuriousReader \/ SpuriousBackground
  PROVE  UNCHANGED File!vars
<1>1. UNCHANGED <<call, result, broken, logical_pos, size, to_read>>
      /\ (rd' \in {"read", "readwait"} <=> rd \in {"read", "readwait"})
  BY SignalledMain DEF ReadWaits, SeekWaits, Joined, SpuriousReader, SpuriousBackground, IInv, caller, reading, bgVars
<1>2. Position' = Position
  BY <1>1 DEF Position
<1> QED
  BY <1>1, <1>2, Stutters

LEMMA ReadInterruptedRefines ==
  ASSUME IInv, ReadInterrupted
  PROVE  [File!Next]_(File!vars)
<1> USE DEF ReadInterrupted, Return
<1>1. broken /\ UNCHANGED broken /\ call' = <<"none">> /\ logical_pos' = logical_pos
  BY DEF IInv, InvBroken, bgVars
<1>2. Position' = logical_pos
  BY <1>1 DEF Position
<1>3. CASE call = <<"read", size>>
  <2>1. Position = logical_pos /\ result' = <<"error">>
    BY <1>3 DEF Position, ReadResult, Skipping
  <2>2. File!Read
    BY <1>1, <1>2, <1>3, <2>1 DEF File!Read
  <2> QED
    BY <1>1, <2>2, Ends
<1>4. CASE call = <<"seek", logical_pos + to_read>>
  <2>1. Position = logical_pos - (size - to_read) /\ result' = <<"at", logical_pos>>
    BY <1>4 DEF Position, ReadResult, Skipping
  <2>2. logical_pos \in Position .. (logical_pos + to_read)
    BY <2>1, Numbers
  <2>3. File!Seek
    BY <1>1, <1>2, <1>4, <2>1, <2>2 DEF File!Seek
  <2> QED
    BY <1>1, <2>3, Ends
<1> QED
  BY <1>3, <1>4 DEF IInv, InvCall

LEMMA ReadEndsRefines ==
  ASSUME IInv, ReadEnds
  PROVE  [File!Next]_(File!vars)
<1> USE DEF ReadEnds, Return
<1>1. /\ UNCHANGED broken /\ call' = <<"none">> /\ logical_pos' = logical_pos
      /\ (io_error => broken) /\ ~CheckInterrupt /\ to_read > 0
  BY DEF IInv, InvBroken, InvCall, bgVars
<1>2. Position' = logical_pos
  BY <1>1 DEF Position
\* The end of the file was noticed, and all that came before it has been read.
<1>3. ~io_error => logical_pos = Size
  <2> SUFFICES ASSUME ~io_error PROVE logical_pos = Size
    OBVIOUS
  <2>1. inner = Size /\ End = wndx
    BY DEF IInv, InvEof, End
  <2>2. inner = At + (End - (rndx + read_pos)) /\ At = logical_pos
    BY <1>1 DEF IInv, InvBytes, At, SeekPending
  <2>3. wndx - rndx - read_pos = 0
    BY Numbers DEF ring_size
  <2> QED
    BY <2>1, <2>2, <2>3, Numbers
<1>4. CASE call = <<"read", size>>
  <2>1. Position = logical_pos /\ result' = IF io_error THEN <<"error">> ELSE <<"eof">>
    BY <1>4 DEF Position, ReadResult, Skipping
  <2>2. File!Read
    BY <1>1, <1>2, <1>3, <1>4, <2>1 DEF File!Read
  <2> QED
    BY <1>1, <2>2, Ends
<1>5. CASE call = <<"seek", logical_pos + to_read>>
  <2>1. Position = logical_pos - (size - to_read) /\ result' = <<"at", logical_pos>>
    BY <1>5 DEF Position, ReadResult, Skipping
  <2>2. logical_pos \in Position .. (logical_pos + to_read)
    BY <2>1, Numbers
  <2>3. File!Seek
    <3>1. CASE io_error
      BY <1>1, <1>2, <1>5, <2>1, <2>2, <3>1 DEF File!Seek
    <3>2. CASE ~io_error
      <4>1. logical_pos + to_read > Size /\ logical_pos = Size
        BY <1>1, <1>3, <3>2, Numbers
      <4> QED
        BY <1>2, <1>5, <2>1, <4>1 DEF File!Seek
    <3> QED
      BY <3>1, <3>2
  <2> QED
    BY <1>1, <2>3, Ends
<1> QED
  BY <1>4, <1>5 DEF IInv, InvCall

\* The bytes that are taken are those at the position; a skip that is not over yet
\* does not move it.
LEMMA ReadSomeRefines ==
  ASSUME IInv, ReadSome
  PROVE  [File!Next]_(File!vars)
<1> DEFINE n == Min({to_read, ring_size})
<1>1. /\ rd = "read" /\ ~CheckInterrupt /\ ring_size > 0
      /\ logical_pos' = logical_pos + n /\ UNCHANGED broken
      /\ IF Skipping /\ n < to_read
           THEN rd' = "readwait" /\ to_read' = to_read - n /\ UNCHANGED <<caller, size>>
           ELSE Return(IF Skipping THEN <<"at", logical_pos'>> ELSE <<"data", RingPeek(n)>>)
  BY DEF ReadSome, bgVars
<1>2. n \in Nat /\ 0 < n /\ n <= to_read /\ n <= ring_size
  <2>1. to_read \in Int /\ to_read > 0 /\ ring_size \in Int
    BY <1>1, Numbers DEF IInv, InvCall
  <2> QED
    BY <1>1, <2>1, MinOf
<1> HIDE DEF n
<1>3. /\ inner = logical_pos + (End - (rndx + read_pos))
      /\ \A i \in rndx .. (End - 1) : mem[i % Cells] = logical_pos + (i - (rndx + read_pos))
  BY <1>1 DEF IInv, InvBytes, At, SeekPending
<1>4. logical_pos + n <= Size
  BY <1>2, <1>3, Numbers DEF ring_size
<1>5. CASE call = <<"read", size>> /\ to_read = size
  <2>1. Return(<<"data", RingPeek(n)>>) /\ Position = logical_pos
    BY <1>1, <1>5 DEF Skipping, Position
  <2>2. result' = <<"data", RingPeek(n)>> /\ call' = <<"none">> /\ Position' = logical_pos + n
    BY <1>1, <2>1 DEF Return, Position
  <2>3. RingPeek(n) = [i \in 1 .. n |-> logical_pos + i - 1]
    <3>1. ASSUME NEW i \in 1 .. n
          PROVE  mem[(rndx + read_pos + i - 1) % Cells] = logical_pos + i - 1
      <4> DEFINE j == rndx + read_pos + i - 1
      <4>1. j \in rndx .. (End - 1) /\ logical_pos + (j - (rndx + read_pos)) = logical_pos + i - 1
        BY <1>2, Numbers DEF ring_size
      <4> HIDE DEF j
      <4>2. mem[j % Cells] = logical_pos + (j - (rndx + read_pos))
        BY <1>3, <4>1
      <4>3. mem[j % Cells] = logical_pos + i - 1
        BY <4>1, <4>2
      <4> QED
        BY <4>3, Zenon DEF j
    <3> QED
      BY <3>1, Zenon DEF RingPeek
  <2>4. n \in 1 .. size /\ call[1] = "read" /\ call[2] = size
    BY <1>2, <1>5, Numbers
  <2>5. File!Read
    BY <1>4, <2>1, <2>2, <2>3, <2>4 DEF File!Read
  <2> QED
    BY <1>1, <2>2, <2>5, Ends
<1>6. CASE call = <<"seek", logical_pos + to_read>>
  <2>1. Skipping /\ Position = logical_pos - (size - to_read)
    BY <1>1, <1>6 DEF Skipping, Position
  <2>2. CASE n < to_read
    <3>1. rd' = "readwait" /\ to_read' = to_read - n /\ UNCHANGED <<call, result, size>>
      BY <1>1, <2>1, <2>2 DEF caller
    <3>2. Position' = (logical_pos + n) - (size - (to_read - n))
      BY <1>1, <2>1, <3>1 DEF Position, Skipping
    <3>3. Position' = Position
      BY <1>2, <2>1, <3>2, Numbers
    <3> QED
      BY <1>1, <3>1, <3>3, Stutters
  <2>3. CASE n = to_read
    <3>1. rd' = "idle" /\ call' = <<"none">> /\ result' = <<"at", logical_pos + n>>
      BY <1>1, <1>2, <2>1, <2>3, Numbers DEF Return
    <3>2. Position' = logical_pos + n
      BY <1>1, <3>1 DEF Position
    <3>3. File!Seek
      BY <1>4, <1>6, <2>3, <3>1, <3>2 DEF File!Seek
    <3> QED
      BY <1>1, <3>1, <3>3, Ends
  <2> QED
    BY <1>2, <2>2, <2>3, Numbers
<1> QED
  BY <1>1, <1>5, <1>6 DEF IInv, InvCall

\* Where a seek is decided the position is the protocol's.
LEMMA DecideRefines ==
  ASSUME IInv, SeekHere \/ SeekForward \/ SeekBack \/ SeekRefused \/ SeekRequest
  PROVE  [File!Next]_(File!vars)
<1>1. /\ rd = "decide" /\ Position = logical_pos /\ UNCHANGED broken
  BY DEF Position, SeekHere, SeekForward, SeekBack, SeekRefused, SeekRequest, bgVars
<1>2. PICK p \in Nat : call = <<"seek", p>> /\ target = p
  BY <1>1, SizesAssumption DEF IInv, InvCall, target, Targets
<1>3. CASE SeekForward
  <2>1. /\ UNCHANGED <<call, result>> /\ logical_pos' = logical_pos /\ rd' = "read"
        /\ size' = p - logical_pos /\ to_read' = p - logical_pos
    BY <1>2, <1>3 DEF SeekForward, caller
  <2>2. Position' = logical_pos - ((p - logical_pos) - (p - logical_pos))
    BY <1>2, <2>1 DEF Position
  <2>3. Position' = Position
    BY <1>1, <1>2, <2>2, Numbers
  <2> QED
    BY <1>1, <2>1, <2>3, Stutters
<1>4. CASE SeekHere \/ SeekBack
  <2>1. p <= logical_pos /\ logical_pos' = p /\ call' = <<"none">> /\ rd' = "idle" /\ result' = <<"at", p>>
    BY <1>2, <1>4, Numbers DEF SeekHere, SeekBack, Return
  <2>2. Position' = p /\ p <= Size
    BY <1>2, <2>1, Numbers DEF Position
  <2>3. File!Seek
    BY <1>2, <2>1, <2>2 DEF File!Seek
  <2> QED
    BY <1>1, <2>1, <2>3, Ends
<1>5. CASE SeekRefused \/ (SeekRequest /\ CheckInterrupt)
  <2>1. logical_pos' = logical_pos /\ call' = <<"none">> /\ rd' = "idle" /\ result' = <<"error">>
    BY <1>5 DEF SeekRefused, SeekRequest, Return
  <2>2. Position' = Position
    BY <1>1, <2>1 DEF Position
  <2>3. p > Size \/ broken
    BY <1>1, <1>2, <1>5 DEF SeekRefused, IInv, InvBroken
  <2>4. File!Seek
    BY <1>2, <2>1, <2>2, <2>3 DEF File!Seek
  <2> QED
    BY <1>1, <2>1, <2>4, Ends
<1>6. CASE SeekRequest /\ ~CheckInterrupt
  <2>1. UNCHANGED <<call, result>> /\ logical_pos' = logical_pos /\ rd' = "seekwait"
    BY <1>6 DEF SeekRequest, caller
  <2>2. Position' = Position
    BY <1>1, <2>1 DEF Position
  <2> QED
    BY <1>1, <2>1, <2>2, Stutters
<1> QED
  BY <1>3, <1>4, <1>5, <1>6

\* A seek that was handed over ends with what the background thread answered.
LEMMA SeekEndsRefines ==
  ASSUME IInv, SeekInterrupted \/ SeekDone
  PROVE  [File!Next]_(File!vars)
<1>1. /\ rd = "seek" /\ Position = logical_pos /\ UNCHANGED broken
      /\ rd' = "idle" /\ call' = <<"none">> /\ Position' = logical_pos'
  BY DEF Position, SeekInterrupted, SeekDone, Return, bgVars
<1>2. PICK p \in 0 .. Size : call = <<"seek", p>> /\ target = p
  BY <1>1 DEF IInv, InvCall, target
<1>3. CASE SeekInterrupted \/ (SeekDone /\ seek_ret < 0)
  <2>1. broken /\ logical_pos' = logical_pos /\ result' = <<"error">>
    BY <1>1, <1>3 DEF SeekInterrupted, SeekDone, Return, IInv, InvBroken, TypeOK, TypeCaller
  <2>2. File!Seek
    BY <1>1, <1>2, <2>1 DEF File!Seek
  <2> QED
    BY <1>1, <2>2, Ends
<1>4. CASE SeekDone /\ seek_ret >= 0
  <2>1. seek_ret = p /\ logical_pos' = p /\ result' = <<"at", p>>
    BY <1>1, <1>2, <1>4 DEF SeekDone, Return, IInv, InvSeek, SeekPending
  <2>2. File!Seek
    <3>1. p <= Size
      BY <1>2, Numbers
    <3> QED
      BY <1>1, <1>2, <2>1, <3>1 DEF File!Seek
  <2> QED
    BY <1>1, <2>2, Ends
<1>5. seek_ret < 0 \/ seek_ret >= 0
  BY SizesAssumption DEF IInv, TypeOK, TypeCaller
<1> QED
  BY <1>3, <1>4, <1>5

LEMMA Refines == ASSUME IInv, [Next]_vars PROVE [File!Next]_(File!vars)
<1>1. CASE Reader
  BY <1>1, ReadInterruptedRefines, ReadSomeRefines, ReadEndsRefines, WaitsRefine, DecideRefines,
     SeekEndsRefines DEF Reader
<1>2. CASE Interrupt
  <2>1. UNCHANGED <<call, result, logical_pos, rd, size, to_read>> /\ broken' = TRUE
    BY <1>2 DEF Interrupt, caller, reading
  <2>2. Position' = Position
    BY <2>1 DEF Position
  <2> QED
    BY <2>1, <2>2 DEF File!Next, File!Break
<1>3. CASE SpuriousReader \/ SpuriousBackground
  BY <1>3, WaitsRefine
<1>4. CASE UNCHANGED vars
  <2>1. UNCHANGED <<call, result, broken, logical_pos, rd, size, to_read>>
    BY <1>4 DEF vars, caller, reading
  <2>2. Position' = Position
    BY <2>1 DEF Position
  <2> QED
    BY <2>1, <2>2, Stutters
<1> QED
  BY <1>1, <1>2, <1>3, <1>4, BackgroundRefines, CallerRefines DEF Next, Terminated

\* The caller of the async protocol sees a file that is read and sought in, whatever
\* the background thread has buffered ahead (async_read, async_seek).
THEOREM AsyncImplementsByteFile == Spec => ImplementsByteFile
<1>1. Init => File!Init
  BY DEF Init, File!Init, Position
<1>2. IInv /\ [Next]_vars => [File!Next]_(File!vars)
  BY Refines
<1> QED
  BY <1>1, <1>2, Invariance, PTL DEF Spec, ImplementsByteFile, File!Spec

================================================================================
