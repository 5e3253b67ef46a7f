--------------------------- MODULE EventLog_proofs ---------------------------
(***************************************************************************)
(* Proofs about EventLog, for any writers, keys and clients, any size of a *)
(* page and any number of lost connections.                                *)
(***************************************************************************)
EXTENDS EventLog, SequenceTheorems, TLAPS

(* Writers whose row is in the table, committed or not. *)
Held(w) == append[w] = "inserted" \/ w \in log

(* Ids identify rows, keys have one, and what an append returned is a row. *)
RowsKept ==
    /\ \A w \in Writers : /\ w \in log => append[w] = "done"
                          /\ Held(w) => id[w] >= 1
    /\ \A w, x \in Writers : w # x /\ Held(w) /\ Held(x) => id[w] # id[x]
    /\ \A w \in Writers : \A x \in SameKey(w) : ~ (Held(w) /\ Held(x))
    /\ \A w \in Writers :
           /\ append[w] = "selecting" => SameKey(w) \cap log # {}
           /\ append[w] = "done" /\ w \notin log =>
                  \E x \in SameKey(w) \cap log : id[w] = id[x]

(* What client c has received, and what is on its way, are rows in order;  *)
(* what they reach up to is complete but for rows that were late.          *)
Frames(c) ==
    /\ ToSet(received[c]) \subseteq Visible
    /\ ToSet(page[c]) \subseteq Visible
    /\ Ascending(received[c])
    /\ Ascending(page[c])
    /\ \A i \in ToSet(page[c]) : LastReceived(c) < i
    /\ stream[c] = "closed" => page[c] = <<>>
    /\ stream[c] = "open" => idle[c] < MaxIdle
    /\ stream[c] = "open" /\ page[c] = <<>> => cursor[c] = LastReceived(c)

Complete(c) ==
    \A w \in log \ late :
        /\ id[w] <= LastReceived(c) => id[w] \in ToSet(received[c])
        /\ \A i \in ToSet(page[c]) :
               id[w] <= i => id[w] \in ToSet(received[c]) \cup ToSet(page[c])

IndInv == /\ TypeOK
          /\ RowsKept
          /\ \A c \in Clients : Frames(c) /\ Complete(c)

-----------------------------------------------------------------------------
(* Facts about sequences of numbers.                                       *)

LEMMA MemberFacts ==
    ASSUME NEW s
    PROVE  /\ \A i \in DOMAIN s : s[i] \in ToSet(s)
           /\ \A x \in ToSet(s) : \E i \in DOMAIN s : x = s[i]
  BY Zenon DEF ToSet

LEMMA OrderFacts ==
    ASSUME NEW s, Ascending(s), NEW i \in DOMAIN s, NEW j \in DOMAIN s, i < j
    PROVE  s[i] < s[j]
  BY Zenon DEF Ascending

LEMMA EmptyFacts ==
    /\ <<>> \in Seq(Nat) /\ ToSet(<<>>) = {} /\ Ascending(<<>>)
  BY DEF ToSet, Ascending

LEMMA AppendFacts ==
    ASSUME NEW s \in Seq(Nat), NEW n \in Nat
    PROVE  /\ Append(s, n) \in Seq(Nat)
           /\ Append(s, n) # <<>>
           /\ Last(Append(s, n)) = n
           /\ ToSet(Append(s, n)) = ToSet(s) \cup {n}
           /\ Ascending(s) /\ (s # <<>> => Last(s) < n) => Ascending(Append(s, n))
  <1> DEFINE t == Append(s, n)
             m == Len(s)
  <1>1. /\ m \in Nat /\ DOMAIN s = 1 .. m /\ (m = 0 <=> s = <<>>)
        /\ \A i \in 1 .. m : s[i] \in Nat
    BY LenProperties, EmptySeq, ElementOfSeq
  <1>2. /\ t \in Seq(Nat) /\ t # <<>> /\ Len(t) = m + 1
        /\ \A i \in 1 .. m : t[i] = s[i]
        /\ t[m + 1] = n
    BY AppendProperties
  <1>3. DOMAIN t = 1 .. m + 1 BY <1>2, LenProperties
  <1>4. Last(t) = n /\ Last(s) = s[m] BY <1>2 DEF Last
  <1> HIDE DEF t, m
  <1>5. ToSet(t) \subseteq ToSet(s) \cup {n}
    <2> SUFFICES ASSUME NEW x \in ToSet(t) PROVE x \in ToSet(s) \cup {n} OBVIOUS
    <2>1. PICK i \in 1 .. m + 1 : x = t[i] BY <1>3, MemberFacts
    <2>2. i \in 1 .. m \/ i = m + 1 BY <1>1
    <2>3. CASE i \in 1 .. m
      <3>1. x = s[i] BY <2>1, <2>3, <1>2
      <3>2. s[i] \in ToSet(s) BY <2>3, <1>1, MemberFacts
      <3> QED BY <3>1, <3>2
    <2>4. CASE i = m + 1 BY <2>4, <2>1, <1>2
    <2> QED BY <2>2, <2>3, <2>4
  <1>6. ToSet(s) \cup {n} \subseteq ToSet(t)
    <2>1. ASSUME NEW x \in ToSet(s) PROVE x \in ToSet(t)
      <3>1. PICK i \in 1 .. m : x = s[i] BY <1>1, MemberFacts
      <3>2. i \in DOMAIN t /\ x = t[i] BY <3>1, <1>1, <1>2, <1>3
      <3> QED BY <3>2, MemberFacts
    <2>2. m + 1 \in DOMAIN t BY <1>1, <1>3
    <2>3. n \in ToSet(t) BY <2>2, <1>2, MemberFacts
    <2> QED BY <2>1, <2>3
  <1>7. ASSUME Ascending(s), s # <<>> => Last(s) < n PROVE Ascending(t)
    <2> SUFFICES ASSUME NEW i \in 1 .. m + 1, NEW j \in 1 .. m + 1, i < j PROVE t[i] < t[j]
      BY <1>3 DEF Ascending
    <2>1. i \in 1 .. m /\ t[i] = s[i] /\ s[i] \in Nat BY <1>1, <1>2
    <2>2. CASE j \in 1 .. m
      <3>1. s[i] < s[j] BY <2>1, <2>2, <1>1, <1>7, OrderFacts
      <3> QED BY <3>1, <2>1, <2>2, <1>2
    <2>3. CASE j = m + 1
      <3>1. s # <<>> /\ m \in 1 .. m /\ s[m] \in Nat BY <2>1, <1>1
      <3>2. s[m] < n BY <3>1, <1>4, <1>7
      <3>3. i = m \/ s[i] < s[m]
        <4>1. CASE i < m BY <4>1, <3>1, <2>1, <1>1, <1>7, OrderFacts
        <4> QED BY <4>1, <2>1, <1>1
      <3> QED BY <3>1, <3>2, <3>3, <2>1, <2>3, <1>2
    <2> QED BY <2>2, <2>3, <1>1
  <1> QED BY <1>2, <1>4, <1>5, <1>6, <1>7 DEF t

LEMMA TailFacts ==
    ASSUME NEW s \in Seq(Nat), s # <<>>
    PROVE  /\ Head(s) \in Nat /\ Tail(s) \in Seq(Nat) /\ Len(Tail(s)) <= Len(s)
           /\ ToSet(s) = {Head(s)} \cup ToSet(Tail(s))
           /\ Ascending(s) => Ascending(Tail(s)) /\ \A x \in ToSet(Tail(s)) : Head(s) < x
           /\ Tail(s) = <<>> <=> Len(s) = 1
  <1> DEFINE t == Tail(s)
             m == Len(s)
             h == Head(s)
  <1>1. m \in Nat /\ m >= 1 /\ DOMAIN s = 1 .. m BY LenProperties, EmptySeq
  <1>2. /\ h \in Nat /\ t \in Seq(Nat) /\ Len(t) = m - 1
        /\ \A i \in 1 .. m - 1 : t[i] = s[i + 1]
    BY HeadTailProperties
  <1>3. h = s[1] OBVIOUS
  <1>4. DOMAIN t = 1 .. m - 1 BY <1>2, LenProperties
  <1>5. t = <<>> <=> m = 1
    <2>1. Len(t) = 0 => t = <<>> BY <1>2, EmptySeq
    <2>2. t = <<>> => Len(t) = 0 BY EmptySeq
    <2> QED BY <2>1, <2>2, <1>1, <1>2
  <1> HIDE DEF t, m, h
  <1>6. ToSet(s) \subseteq {h} \cup ToSet(t)
    <2> SUFFICES ASSUME NEW x \in ToSet(s) PROVE x \in {h} \cup ToSet(t) OBVIOUS
    <2>1. PICK i \in 1 .. m : x = s[i] BY <1>1, MemberFacts
    <2>2. CASE i = 1 BY <2>1, <2>2, <1>3
    <2>3. CASE i # 1
      <3>1. i - 1 \in 1 .. m - 1 /\ (i - 1) + 1 = i BY <2>3, <1>1
      <3>2. x = t[i - 1] BY <3>1, <2>1, <1>2
      <3>3. t[i - 1] \in ToSet(t) BY <3>1, <1>4, MemberFacts
      <3> QED BY <3>2, <3>3
    <2> QED BY <2>2, <2>3
  <1>7. {h} \cup ToSet(t) \subseteq ToSet(s)
    <2>1. ASSUME NEW x \in ToSet(t) PROVE x \in ToSet(s)
      <3>1. PICK i \in 1 .. m - 1 : x = t[i] BY <1>4, MemberFacts
      <3>2. i + 1 \in DOMAIN s /\ x = s[i + 1] BY <3>1, <1>1, <1>2
      <3> QED BY <3>2, MemberFacts
    <2>2. 1 \in DOMAIN s BY <1>1
    <2>3. h \in ToSet(s) BY <2>2, <1>3, MemberFacts
    <2> QED BY <2>1, <2>3
  <1>8. ASSUME Ascending(s) PROVE Ascending(t) /\ \A x \in ToSet(t) : h < x
    <2>1. ASSUME NEW x \in ToSet(t) PROVE h < x
      <3>1. PICK i \in 1 .. m - 1 : x = t[i] BY <1>4, MemberFacts
      <3>2. 1 \in DOMAIN s /\ i + 1 \in DOMAIN s /\ 1 < i + 1 BY <3>1, <1>1
      <3>3. s[1] < s[i + 1] BY <3>2, <1>8, OrderFacts
      <3> QED BY <3>1, <3>3, <1>2, <1>3
    <2>2. ASSUME NEW i \in 1 .. m - 1, NEW j \in 1 .. m - 1, i < j PROVE t[i] < t[j]
      <3>1. i + 1 \in DOMAIN s /\ j + 1 \in DOMAIN s /\ i + 1 < j + 1 BY <2>2, <1>1
      <3>2. s[i + 1] < s[j + 1] BY <3>1, <1>8, OrderFacts
      <3> QED BY <3>2, <1>2
    <2>3. Ascending(t) BY <2>2, <1>4 DEF Ascending
    <2> QED BY <2>1, <2>3
  <1>9. Len(t) <= m BY <1>1, <1>2
  <1> QED BY <1>2, <1>5, <1>6, <1>7, <1>8, <1>9 DEF t, m, h

(* A page is in order, holds only what was asked for, and leaves out only  *)
(* what comes after all of it.                                             *)
LEMMA PageFacts ==
    ASSUME NEW ids \in SUBSET Nat, NEW s \in Pages(ids)
    PROVE  /\ s \in Seq(Nat) /\ s # <<>> /\ Len(s) <= PageSize
           /\ ToSet(s) \subseteq ids
           /\ Ascending(s)
           /\ \A x \in ids \ ToSet(s) : \A i \in ToSet(s) : i < x
  <1>1. PICK k \in 1 .. PageSize : s \in [1 .. k -> ids] BY DEF Pages
  <1>2. k \in Nat /\ k >= 1 /\ k <= PageSize BY LogAssumption DEF LogAssumption
  <1>3. s \in [1 .. k -> Nat] /\ DOMAIN s = 1 .. k BY <1>1
  <1>4. s \in Seq(Nat) BY <1>2, <1>3, SeqDef
  <1>5. Len(s) = k
    <2>1. Len(s) \in Nat /\ DOMAIN s = 1 .. Len(s) BY <1>4, LenProperties
    <2>2. 1 .. Len(s) = 1 .. k BY <2>1, <1>3
    <2>3. k \in 1 .. Len(s) BY <2>2, <1>2
    <2> DEFINE n == Len(s)
    <2> HIDE DEF n
    <2>4. n \in Nat /\ 1 .. n = 1 .. k /\ k \in 1 .. n BY <2>1, <2>2, <2>3 DEF n
    <2>5. k <= n /\ n \in 1 .. n BY <2>4, <1>2
    <2>6. n \in 1 .. k BY <2>4, <2>5
    <2>7. n = k BY <2>4, <2>5, <2>6, <1>2
    <2> QED BY <2>7 DEF n
  <1>6. s # <<>> BY <1>2, <1>4, <1>5, EmptySeq
  <1>7. Ascending(s) BY DEF Pages
  <1>8. ToSet(s) \subseteq ids
    <2> SUFFICES ASSUME NEW x \in ToSet(s) PROVE x \in ids OBVIOUS
    <2>1. PICK i \in 1 .. k : x = s[i] BY <1>3, MemberFacts
    <2> QED BY <2>1, <1>1
  <1>9. ASSUME NEW x \in ids \ ToSet(s), NEW y \in ToSet(s) PROVE y < x
    <2>1. Last(s) < x BY DEF Pages
    <2>2. Last(s) = s[k] BY <1>5 DEF Last
    <2>3. PICK j \in 1 .. k : y = s[j] BY <1>3, MemberFacts
    <2>4. k \in 1 .. k /\ s[j] \in Nat /\ s[k] \in Nat /\ x \in Nat BY <1>2, <1>3, <2>3
    <2>5. CASE j < k
      <3>1. s[j] < s[k] BY <2>5, <2>4, <2>3, <1>3, <1>7, OrderFacts
      <3> QED BY <3>1, <2>1, <2>2, <2>3, <2>4
    <2>6. CASE j = k BY <2>6, <2>1, <2>2, <2>3
    <2> QED BY <2>5, <2>6, <2>3, <1>2
  <1> QED BY <1>2, <1>4, <1>5, <1>6, <1>7, <1>8, <1>9

LEMMA VisibleFacts ==
    ASSUME TypeOK
    PROVE  /\ next \in Nat /\ Visible \subseteq 0 .. next
           /\ \A w \in log : w \in Writers /\ id[w] \in Visible /\ id[w] \in Nat
  BY DEF TypeOK, Visible

LEMMA LastFacts ==
    ASSUME TypeOK, NEW c \in Clients, ToSet(received[c]) \subseteq Visible
    PROVE  /\ LastReceived(c) \in {0} \cup ToSet(received[c])
           /\ LastReceived(c) \in 0 .. next
           /\ received[c] # <<>> => Last(received[c]) = LastReceived(c)
  <1>1. received[c] \in Seq(Nat) BY DEF TypeOK
  <1>2. CASE received[c] = <<>> BY <1>2, VisibleFacts DEF LastReceived
  <1>3. CASE received[c] # <<>>
    <2>1. Len(received[c]) \in DOMAIN received[c] BY <1>1, <1>3, LenProperties, EmptySeq
    <2>2. LastReceived(c) \in ToSet(received[c])
      BY <2>1, <1>3, MemberFacts DEF LastReceived, Last
    <2> QED BY <2>2, <1>3, VisibleFacts DEF LastReceived
  <1> QED BY <1>2, <1>3

-----------------------------------------------------------------------------
(* The writers' steps.                                                     *)

(* The clients only see more rows, and a row that became visible in order  *)
(* has a higher id than every row before it.                               *)
LEMMA WriterStep ==
    ASSUME IndInv, UNCHANGED clientVars, Visible \subseteq Visible',
           \A w \in log' \ late' :
               \/ w \in log \ late /\ id'[w] = id[w]
               \/ id'[w] \in Nat /\ id'[w] >= 1 /\ \A x \in log : id[x] < id'[w]
    PROVE  \A c \in Clients : Frames(c)' /\ Complete(c)'
  <1> SUFFICES ASSUME NEW c \in Clients PROVE Frames(c)' /\ Complete(c)' OBVIOUS
  <1>1. TypeOK /\ Frames(c) /\ Complete(c) BY DEF IndInv
  <1>2. /\ received' = received /\ page' = page /\ stream' = stream
        /\ cursor' = cursor /\ idle' = idle
    BY DEF clientVars
  <1>3. LastReceived(c)' = LastReceived(c) BY <1>2 DEF LastReceived
  <1>4. Frames(c)' BY <1>1, <1>2, <1>3 DEF Frames
  <1>5. ASSUME NEW w \in log' \ late',
               id'[w] \in Nat, id'[w] >= 1, \A x \in log : id[x] < id'[w]
        PROVE  /\ ~ (id'[w] <= LastReceived(c))
               /\ \A i \in ToSet(page[c]) : ~ (id'[w] <= i)
    <2>1. ASSUME NEW i \in Visible PROVE i \in Nat /\ i < id'[w]
      BY <1>1, <1>5, VisibleFacts DEF Visible
    <2>2. LastReceived(c) = 0 \/ LastReceived(c) \in Visible
      BY <1>1, LastFacts DEF Frames
    <2>3. ~ (id'[w] <= LastReceived(c)) BY <2>1, <2>2, <1>5
    <2>4. ToSet(page[c]) \subseteq Visible BY <1>1 DEF Frames
    <2>5. \A i \in ToSet(page[c]) : ~ (id'[w] <= i) BY <2>1, <2>4, <1>5
    <2> QED BY <2>3, <2>5
  <1>6. ASSUME NEW w \in log' \ late'
        PROVE  /\ id'[w] <= LastReceived(c) => id'[w] \in ToSet(received[c])
               /\ \A i \in ToSet(page[c]) :
                      id'[w] <= i => id'[w] \in ToSet(received[c]) \cup ToSet(page[c])
    <2>1. CASE w \in log \ late /\ id'[w] = id[w] BY <2>1, <1>1 DEF Complete
    <2>2. CASE id'[w] \in Nat /\ id'[w] >= 1 /\ \A x \in log : id[x] < id'[w]
      BY <2>2, <1>5
    <2> QED BY <2>1, <2>2
  <1>7. Complete(c)' BY <1>6, <1>2, <1>3 DEF Complete
  <1> QED BY <1>4, <1>7

(* An INSERT draws an id above every id of a row. *)
LEMMA DrawFacts ==
    ASSUME TypeOK, NEW w \in Writers, Draw(w)
    PROVE  /\ next' = next + 1 /\ next' \in Nat
           /\ id' \in [Writers -> 0 .. next']
           /\ id'[w] = next + 1
           /\ \A x \in Writers \ {w} : id'[x] = id[x]
           /\ \A x \in Writers : id[x] \in Nat /\ id[x] <= next
  <1>1. next \in Nat /\ id \in [Writers -> 0 .. next] BY DEF TypeOK
  <1>2. next' = next + 1 /\ id' = [id EXCEPT ![w] = next'] BY DEF Draw
  <1>3. 0 .. next \subseteq 0 .. next' /\ next' \in 0 .. next' BY <1>1, <1>2
  <1>4. id' \in [Writers -> 0 .. next'] BY <1>1, <1>2, <1>3
  <1>5. id'[w] = next' /\ \A x \in Writers \ {w} : id'[x] = id[x] BY <1>1, <1>2
  <1> QED BY <1>1, <1>2, <1>4, <1>5

LEMMA Changed ==
    ASSUME NEW S, NEW T, NEW f \in [S -> T], NEW s \in S, NEW t
    PROVE  /\ [f EXCEPT ![s] = t][s] = t
           /\ \A x \in S \ {s} : [f EXCEPT ![s] = t][x] = f[x]
  OBVIOUS

LEMMA SameKeySym ==
    ASSUME NEW w \in Writers, NEW x \in SameKey(w)
    PROVE  /\ x \in Writers /\ w \in SameKey(x)
           /\ \A y \in SameKey(w) \ {x} : y \in SameKey(x)
  BY DEF SameKey

(* A step of writer w keeps RowsKept if what it does to its own row does.  *)
LEMMA RowStep ==
    ASSUME RowsKept, NEW w \in Writers, w \notin log,
           key' = key, log \subseteq log', log' \subseteq log \cup {w},
           log \subseteq Writers,
           \A x \in Writers \ {w} : append'[x] = append[x] /\ id'[x] = id[x],
           w \in log' => append'[w] = "done",
           Held(w)' => id'[w] >= 1,
           Held(w)' => \A x \in Writers \ {w} : Held(x) => id'[w] # id[x] /\ x \notin SameKey(w),
           append'[w] = "selecting" => SameKey(w) \cap log # {},
           append'[w] = "done" /\ w \notin log' =>
               \E x \in SameKey(w) \cap log : id'[w] = id[x]
    PROVE  RowsKept'
  <1>1. \A x \in Writers \ {w} : (x \in log' <=> x \in log) /\ (Held(x)' <=> Held(x))
    BY DEF Held
  <1>2. \A x \in Writers : SameKey(x)' = SameKey(x) BY DEF SameKey
  <1>3. \A x \in log : id'[x] = id[x] OBVIOUS
  <1>4. ASSUME NEW x \in Writers
        PROVE  (x \in log' => append'[x] = "done") /\ (Held(x)' => id'[x] >= 1)
    <2>1. CASE x = w BY <2>1
    <2>2. CASE x # w BY <2>2, <1>1 DEF RowsKept
    <2> QED BY <2>1, <2>2
  <1>5. ASSUME NEW x \in Writers, NEW y \in Writers, x # y, Held(x)', Held(y)'
        PROVE  id'[x] # id'[y]
    <2>1. CASE x = w BY <2>1, <1>5, <1>1
    <2>2. CASE y = w BY <2>2, <1>5, <1>1
    <2>3. CASE x # w /\ y # w BY <2>3, <1>5, <1>1 DEF RowsKept
    <2> QED BY <2>1, <2>2, <2>3
  <1>6. ASSUME NEW x \in Writers, NEW y \in SameKey(x), Held(x)', Held(y)' PROVE FALSE
    <2>1. y \in Writers /\ y # x /\ x \in SameKey(y) BY <1>6, SameKeySym DEF SameKey
    <2>2. CASE x = w BY <2>1, <2>2, <1>6, <1>1
    <2>3. CASE y = w BY <2>1, <2>3, <1>6, <1>1
    <2>4. CASE x # w /\ y # w BY <2>1, <2>4, <1>6, <1>1 DEF RowsKept
    <2> QED BY <2>2, <2>3, <2>4
  <1>7. ASSUME NEW x \in Writers, append'[x] = "selecting" PROVE SameKey(x) \cap log' # {}
    <2>1. CASE x = w BY <2>1, <1>7
    <2>2. CASE x # w BY <2>2, <1>7 DEF RowsKept
    <2> QED BY <2>1, <2>2
  <1>8. ASSUME NEW x \in Writers, append'[x] = "done", x \notin log'
        PROVE  \E y \in SameKey(x) \cap log' : id'[x] = id'[y]
    <2>1. CASE x = w BY <2>1, <1>8, <1>3
    <2>2. CASE x # w
      <3>1. append[x] = "done" /\ x \notin log BY <2>2, <1>8
      <3>2. PICK y \in SameKey(x) \cap log : id[x] = id[y] BY <3>1 DEF RowsKept
      <3> QED BY <3>2, <2>2, <1>3
    <2> QED BY <2>1, <2>2
  <1> QED BY <1>2, <1>4, <1>5, <1>6, <1>7, <1>8 DEF RowsKept

LEMMA RowsUnchanged ==
    ASSUME RowsKept, UNCHANGED writerVars
    PROVE  RowsKept'
  <1>1. key' = key /\ append' = append /\ id' = id /\ log' = log BY DEF writerVars
  <1>2. \A w \in Writers : SameKey(w)' = SameKey(w) BY <1>1 DEF SameKey
  <1>3. \A w \in Writers : Held(w)' <=> Held(w) BY <1>1 DEF Held
  <1>4. ASSUME NEW w \in Writers
        PROVE  (w \in log' => append'[w] = "done") /\ (Held(w)' => id'[w] >= 1)
    BY <1>1, <1>3 DEF RowsKept
  <1>5. \A w, x \in Writers : w # x /\ Held(w)' /\ Held(x)' => id'[w] # id'[x]
    BY <1>1, <1>3 DEF RowsKept
  <1>6. ASSUME NEW w \in Writers, NEW x \in SameKey(w) PROVE ~ (Held(w)' /\ Held(x)')
    BY <1>3, SameKeySym DEF RowsKept
  <1>7. ASSUME NEW w \in Writers
        PROVE  /\ append'[w] = "selecting" => SameKey(w)' \cap log' # {}
               /\ append'[w] = "done" /\ w \notin log' =>
                      \E x \in SameKey(w)' \cap log' : id'[w] = id'[x]
    BY <1>1, <1>2 DEF RowsKept
  <1> QED BY <1>2, <1>4, <1>5, <1>6, <1>7 DEF RowsKept

(* The part of TypeOK that belongs to the clients. *)
LEMMA ClientTypes ==
    ASSUME TypeOK, UNCHANGED clientVars, next' \in Nat, next <= next'
    PROVE  /\ stream' \in [Clients -> {"open", "closed"}]
           /\ cursor' \in [Clients -> 0 .. next']
           /\ page' \in [Clients -> Seq(Nat)]
           /\ \A c \in Clients : Len(page'[c]) <= PageSize
           /\ idle' \in [Clients -> 0 .. MaxIdle]
           /\ received' \in [Clients -> Seq(Nat)]
           /\ drops' \in [Clients -> 0 .. MaxDrops]
  <1>1. 0 .. next \subseteq 0 .. next' BY DEF TypeOK
  <1> QED BY <1>1 DEF TypeOK, clientVars

LEMMA InsertPreserves ==
    ASSUME IndInv, NEW w \in Writers, Insert(w)
    PROVE  IndInv'
  <1>1. TypeOK /\ RowsKept BY DEF IndInv
  <1>2. /\ append[w] = "new" /\ append' = [append EXCEPT ![w] = "inserted"]
        /\ \A x \in SameKey(w) : ~ Held(x)
        /\ Draw(w)
        /\ key' = key /\ log' = log /\ late' = late /\ UNCHANGED clientVars
    BY DEF Insert, Held
  <1>3. append'[w] = "inserted" /\ \A x \in Writers \ {w} : append'[x] = append[x]
    BY <1>1, <1>2, Changed DEF TypeOK
  <1>4. w \notin log /\ log \subseteq Writers BY <1>1, <1>2 DEF TypeOK, RowsKept
  <1>5. /\ next \in Nat /\ next' = next + 1 /\ id'[w] = next + 1
        /\ id' \in [Writers -> 0 .. next']
        /\ \A x \in Writers \ {w} : id'[x] = id[x]
        /\ \A x \in Writers : id[x] \in Nat /\ id[x] <= next
    BY <1>1, <1>2, DrawFacts DEF TypeOK
  <1>6. RowsKept'
    <2>1. id'[w] >= 1 /\ \A x \in Writers : id'[w] # id[x] BY <1>5
    <2> QED BY <2>1, <1>1, <1>2, <1>3, <1>4, <1>5, RowStep
  <1>7. TypeOK'
    <2>1. append' \in [Writers -> {"new", "inserted", "selecting", "done", "aborted"}]
      BY <1>1, <1>2 DEF TypeOK
    <2>2. next' \in Nat /\ next <= next' BY <1>5
    <2> QED BY <2>1, <2>2, <1>1, <1>2, <1>5, ClientTypes DEF TypeOK
  <1>8. \A x \in log : id'[x] = id[x] BY <1>4, <1>5
  <1>9. Visible' = Visible BY <1>2, <1>8 DEF Visible
  <1>10. \A c \in Clients : Frames(c)' /\ Complete(c)' BY <1>2, <1>8, <1>9, WriterStep
  <1> QED BY <1>6, <1>7, <1>10 DEF IndInv

LEMMA ConflictPreserves ==
    ASSUME IndInv, NEW w \in Writers, Conflict(w)
    PROVE  IndInv'
  <1>1. TypeOK /\ RowsKept BY DEF IndInv
  <1>2. /\ append[w] = "new" /\ append' = [append EXCEPT ![w] = "selecting"]
        /\ SameKey(w) \cap log # {}
        /\ Draw(w)
        /\ key' = key /\ log' = log /\ late' = late /\ UNCHANGED clientVars
    BY DEF Conflict
  <1>3. append'[w] = "selecting" /\ \A x \in Writers \ {w} : append'[x] = append[x]
    BY <1>1, <1>2, Changed DEF TypeOK
  <1>4. w \notin log /\ log \subseteq Writers BY <1>1, <1>2 DEF TypeOK, RowsKept
  <1>5. /\ next \in Nat /\ next' = next + 1
        /\ id' \in [Writers -> 0 .. next']
        /\ \A x \in Writers \ {w} : id'[x] = id[x]
    BY <1>1, <1>2, DrawFacts DEF TypeOK
  <1>6. RowsKept'
    <2>1. ~ Held(w)' BY <1>2, <1>3, <1>4 DEF Held
    <2> QED BY <2>1, <1>1, <1>2, <1>3, <1>4, <1>5, RowStep
  <1>7. TypeOK'
    <2>1. append' \in [Writers -> {"new", "inserted", "selecting", "done", "aborted"}]
      BY <1>1, <1>2 DEF TypeOK
    <2>2. next' \in Nat /\ next <= next' BY <1>5
    <2> QED BY <2>1, <2>2, <1>1, <1>2, <1>5, ClientTypes DEF TypeOK
  <1>8. \A x \in log : id'[x] = id[x] BY <1>4, <1>5
  <1>9. Visible' = Visible BY <1>2, <1>8 DEF Visible
  <1>10. \A c \in Clients : Frames(c)' /\ Complete(c)' BY <1>2, <1>8, <1>9, WriterStep
  <1> QED BY <1>6, <1>7, <1>10 DEF IndInv

LEMMA CommitPreserves ==
    ASSUME IndInv, NEW w \in Writers, Commit(w)
    PROVE  IndInv'
  <1>1. TypeOK /\ RowsKept BY DEF IndInv
  <1>2. /\ append[w] = "inserted" /\ append' = [append EXCEPT ![w] = "done"]
        /\ log' = log \cup {w}
        /\ late' = IF \E x \in log : id[x] > id[w] THEN late \cup {w} ELSE late
        /\ key' = key /\ id' = id /\ next' = next /\ UNCHANGED clientVars
    BY DEF Commit
  <1>3. append'[w] = "done" /\ \A x \in Writers \ {w} : append'[x] = append[x]
    BY <1>1, <1>2, Changed DEF TypeOK
  <1>4. w \notin log /\ log \subseteq Writers /\ Held(w)
    BY <1>1, <1>2 DEF TypeOK, RowsKept, Held
  <1>5. RowsKept'
    <2>1. id[w] >= 1 /\ \A x \in Writers \ {w} : Held(x) => id[w] # id[x] /\ x \notin SameKey(w)
      BY <1>1, <1>4 DEF RowsKept
    <2> QED BY <2>1, <1>1, <1>2, <1>3, <1>4, RowStep
  <1>6. TypeOK'
    <2>1. append' \in [Writers -> {"new", "inserted", "selecting", "done", "aborted"}]
      BY <1>1, <1>2 DEF TypeOK
    <2>2. next' \in Nat /\ next <= next' BY <1>1, <1>2 DEF TypeOK
    <2>3. late' \subseteq log' BY <1>1, <1>2 DEF TypeOK
    <2> QED BY <2>1, <2>2, <2>3, <1>1, <1>2, ClientTypes DEF TypeOK
  <1>7. Visible \subseteq Visible' BY <1>2 DEF Visible
  <1>8. ASSUME NEW v \in log' \ late'
        PROVE  \/ v \in log \ late /\ id'[v] = id[v]
               \/ id'[v] \in Nat /\ id'[v] >= 1 /\ \A x \in log : id[x] < id'[v]
    <2>1. CASE v \in log BY <2>1, <1>8, <1>2
    <2>2. CASE v = w
      <3>1. ~ \E x \in log : id[x] > id[w] BY <2>2, <1>8, <1>2
      <3>2. \A x \in log : id[x] # id[w] BY <1>1, <1>4 DEF RowsKept, Held
      <3>3. id[w] \in Nat /\ \A x \in log : id[x] \in Nat BY <1>1, <1>4 DEF TypeOK
      <3>4. \A x \in log : id[x] < id[w] BY <3>1, <3>2, <3>3
      <3> QED BY <3>3, <3>4, <2>2, <1>1, <1>2, <1>4 DEF RowsKept
    <2> QED BY <2>1, <2>2, <1>2
  <1>9. \A c \in Clients : Frames(c)' /\ Complete(c)' BY <1>2, <1>7, <1>8, WriterStep
  <1> QED BY <1>5, <1>6, <1>9 DEF IndInv

LEMMA AbortPreserves ==
    ASSUME IndInv, NEW w \in Writers, Abort(w)
    PROVE  IndInv'
  <1>1. TypeOK /\ RowsKept BY DEF IndInv
  <1>2. /\ append[w] = "inserted" /\ append' = [append EXCEPT ![w] = "aborted"]
        /\ key' = key /\ id' = id /\ next' = next /\ log' = log /\ late' = late
        /\ UNCHANGED clientVars
    BY DEF Abort
  <1>3. append'[w] = "aborted" /\ \A x \in Writers \ {w} : append'[x] = append[x]
    BY <1>1, <1>2, Changed DEF TypeOK
  <1>4. w \notin log /\ log \subseteq Writers BY <1>1, <1>2 DEF TypeOK, RowsKept
  <1>5. RowsKept'
    <2>1. ~ Held(w)' BY <1>2, <1>3, <1>4 DEF Held
    <2> QED BY <2>1, <1>1, <1>2, <1>3, <1>4, RowStep
  <1>6. TypeOK'
    <2>1. append' \in [Writers -> {"new", "inserted", "selecting", "done", "aborted"}]
      BY <1>1, <1>2 DEF TypeOK
    <2>2. next' \in Nat /\ next <= next' BY <1>1, <1>2 DEF TypeOK
    <2> QED BY <2>1, <2>2, <1>1, <1>2, ClientTypes DEF TypeOK
  <1>7. Visible' = Visible BY <1>2 DEF Visible
  <1>8. \A c \in Clients : Frames(c)' /\ Complete(c)' BY <1>2, <1>7, WriterStep
  <1> QED BY <1>5, <1>6, <1>8 DEF IndInv

(* There is one row under a key. *)
LEMMA SelectPreserves ==
    ASSUME IndInv, NEW w \in Writers, Select(w)
    PROVE  IndInv'
  <1>1. TypeOK /\ RowsKept BY DEF IndInv
  <1>2. /\ append[w] = "selecting" /\ append' = [append EXCEPT ![w] = "done"]
        /\ id' = [id EXCEPT ![w] = Max({id[x] : x \in SameKey(w) \cap log})]
        /\ key' = key /\ next' = next /\ log' = log /\ late' = late
        /\ UNCHANGED clientVars
    BY DEF Select
  <1>3. append'[w] = "done" /\ \A x \in Writers \ {w} : append'[x] = append[x]
    BY <1>1, <1>2, Changed DEF TypeOK
  <1>4. w \notin log /\ log \subseteq Writers BY <1>1, <1>2 DEF TypeOK, RowsKept
  <1>5. PICK r \in SameKey(w) \cap log : TRUE BY <1>1, <1>2 DEF RowsKept
  <1>6. ASSUME NEW x \in SameKey(w) \cap log PROVE x = r
    <2>1. x # r => x \in SameKey(r) BY <1>5, <1>6, SameKeySym
    <2> QED BY <2>1, <1>1, <1>4, <1>5, <1>6 DEF RowsKept, Held
  <1>7. {id[x] : x \in SameKey(w) \cap log} = {id[r]} BY <1>5, <1>6
  <1>8. id[r] \in 0 .. next BY <1>1, <1>4, <1>5 DEF TypeOK
  <1>9. Max({id[r]}) = id[r]
    <2>1. id[r] >= id[r] BY <1>1, <1>8 DEF TypeOK
    <2> QED BY <2>1 DEF Max
  <1>10. id' = [id EXCEPT ![w] = id[r]] BY <1>2, <1>7, <1>9
  <1>11. id'[w] = id[r] /\ \A x \in Writers \ {w} : id'[x] = id[x]
    BY <1>1, <1>10, Changed DEF TypeOK
  <1>12. RowsKept'
    <2>1. ~ Held(w)' BY <1>2, <1>3, <1>4 DEF Held
    <2> QED BY <2>1, <1>1, <1>2, <1>3, <1>4, <1>5, <1>11, RowStep
  <1>13. TypeOK'
    <2>1. append' \in [Writers -> {"new", "inserted", "selecting", "done", "aborted"}]
      BY <1>1, <1>2 DEF TypeOK
    <2>2. next' \in Nat /\ next <= next' BY <1>1, <1>2 DEF TypeOK
    <2>3. id' \in [Writers -> 0 .. next'] BY <1>1, <1>2, <1>8, <1>10 DEF TypeOK
    <2> QED BY <2>1, <2>2, <2>3, <1>1, <1>2, ClientTypes DEF TypeOK
  <1>14. \A x \in log : id'[x] = id[x] BY <1>4, <1>11
  <1>15. Visible' = Visible BY <1>2, <1>14 DEF Visible
  <1>16. \A c \in Clients : Frames(c)' /\ Complete(c)' BY <1>2, <1>14, <1>15, WriterStep
  <1> QED BY <1>12, <1>13, <1>16 DEF IndInv

-----------------------------------------------------------------------------
(* The clients' steps.                                                     *)

(* The rows stay, and so does everything of the other clients. *)
LEMMA ClientStep ==
    ASSUME IndInv, UNCHANGED writerVars, NEW c \in Clients,
           \A d \in Clients \ {c} :
               /\ stream'[d] = stream[d] /\ cursor'[d] = cursor[d] /\ page'[d] = page[d]
               /\ idle'[d] = idle[d] /\ received'[d] = received[d],
           TypeOK', Frames(c)', Complete(c)'
    PROVE  IndInv'
  <1>1. /\ key' = key /\ append' = append /\ id' = id /\ next' = next
        /\ log' = log /\ late' = late
    BY DEF writerVars
  <1>2. RowsKept' BY RowsUnchanged DEF IndInv
  <1>3. ASSUME NEW d \in Clients \ {c} PROVE Frames(d)' /\ Complete(d)'
    <2>1. Visible' = Visible BY <1>1 DEF Visible
    <2>2. LastReceived(d)' = LastReceived(d) BY DEF LastReceived
    <2>3. Frames(d) /\ Complete(d) BY DEF IndInv
    <2>4. Frames(d)' BY <2>1, <2>2, <2>3 DEF Frames
    <2>5. Complete(d)' BY <2>2, <2>3, <1>1 DEF Complete
    <2> QED BY <2>4, <2>5
  <1> QED BY <1>2, <1>3 DEF IndInv

(* A page holds rows after the cursor and skips none of them. *)
LEMMA FetchPreserves ==
    ASSUME IndInv, NEW c \in Clients, Fetch(c)
    PROVE  IndInv'
  <1>1. TypeOK /\ Frames(c) /\ Complete(c) BY DEF IndInv
  <1>2. PICK rows \in Pages(After(c)) : page' = [page EXCEPT ![c] = rows] BY DEF Fetch
  <1>3. /\ stream[c] = "open" /\ page[c] = <<>>
        /\ UNCHANGED writerVars /\ stream' = stream /\ cursor' = cursor
        /\ idle' = idle /\ received' = received /\ drops' = drops
    BY DEF Fetch
  <1>4. /\ key' = key /\ append' = append /\ id' = id /\ next' = next
        /\ log' = log /\ late' = late
    BY <1>3 DEF writerVars
  <1>5. Visible \subseteq Nat /\ After(c) \in SUBSET Nat /\ After(c) \subseteq Visible
    BY <1>1, VisibleFacts DEF After
  <1>6. /\ rows \in Seq(Nat) /\ rows # <<>> /\ Len(rows) <= PageSize
        /\ ToSet(rows) \subseteq After(c) /\ Ascending(rows)
        /\ \A x \in After(c) \ ToSet(rows) : \A i \in ToSet(rows) : i < x
    BY <1>5, PageFacts
  <1>7. page'[c] = rows /\ \A d \in Clients \ {c} : page'[d] = page[d]
    BY <1>1, <1>2, Changed DEF TypeOK
  <1>8. cursor[c] = LastReceived(c) BY <1>1, <1>3 DEF Frames
  <1>9. LastReceived(c)' = LastReceived(c) BY <1>3 DEF LastReceived
  <1>10. Visible' = Visible BY <1>4 DEF Visible
  <1>11. TypeOK'
    <2>1. page' \in [Clients -> Seq(Nat)] BY <1>1, <1>2, <1>6 DEF TypeOK
    <2>2. \A d \in Clients : Len(page'[d]) <= PageSize BY <1>1, <1>6, <1>7 DEF TypeOK
    <2> QED BY <2>1, <2>2, <1>1, <1>3, <1>4 DEF TypeOK
  <1>12. Frames(c)'
    <2>1. ToSet(rows) \subseteq Visible /\ \A i \in ToSet(rows) : LastReceived(c) < i
      BY <1>5, <1>6, <1>8 DEF After
    <2> QED BY <2>1, <1>1, <1>3, <1>6, <1>7, <1>9, <1>10 DEF Frames
  <1>13. Complete(c)'
    <2>1. ASSUME NEW w \in log \ late, NEW i \in ToSet(rows), id[w] <= i
          PROVE  id[w] \in ToSet(received[c]) \cup ToSet(rows)
      <3>1. id[w] \in Visible /\ id[w] \in Nat /\ i \in Nat
        BY <1>1, <1>5, <1>6, VisibleFacts
      <3>2. LastReceived(c) \in Nat BY <1>1, LastFacts, VisibleFacts DEF Frames
      <3>3. CASE id[w] <= LastReceived(c) BY <3>3, <1>1 DEF Complete
      <3>4. CASE id[w] > LastReceived(c)
        <4>1. id[w] \in After(c) BY <3>1, <3>4, <1>8 DEF After
        <4>2. id[w] \notin ToSet(rows) => i < id[w] BY <4>1, <1>6
        <4> QED BY <4>2, <3>1, <2>1
      <3> QED BY <3>1, <3>2, <3>3, <3>4
    <2> QED BY <2>1, <1>1, <1>3, <1>4, <1>7, <1>9 DEF Complete
  <1> QED BY <1>3, <1>7, <1>11, <1>12, <1>13, ClientStep

(* The frame that is delivered is the next row. *)
LEMMA YieldPreserves ==
    ASSUME IndInv, NEW c \in Clients, Yield(c)
    PROVE  IndInv'
  <1> DEFINE h == Head(page[c])
             t == Tail(page[c])
  <1>1. TypeOK /\ Frames(c) /\ Complete(c) BY DEF IndInv
  <1>2. /\ stream[c] = "open" /\ page[c] # <<>>
        /\ received' = [received EXCEPT ![c] = Append(received[c], h)]
        /\ page' = [page EXCEPT ![c] = t]
        /\ Len(page[c]) = 1 => /\ cursor' = [cursor EXCEPT ![c] = h]
                               /\ idle' = [idle EXCEPT ![c] = 0]
        /\ Len(page[c]) # 1 => cursor' = cursor /\ idle' = idle
        /\ UNCHANGED writerVars /\ stream' = stream /\ drops' = drops
    BY DEF Yield
  <1>3. /\ key' = key /\ append' = append /\ id' = id /\ next' = next
        /\ log' = log /\ late' = late
    BY <1>2 DEF writerVars
  <1>4. page[c] \in Seq(Nat) /\ received[c] \in Seq(Nat) BY <1>1 DEF TypeOK
  <1>5. /\ h \in Nat /\ t \in Seq(Nat) /\ Len(t) <= Len(page[c])
        /\ ToSet(page[c]) = {h} \cup ToSet(t)
        /\ Ascending(t) /\ \A x \in ToSet(t) : h < x
        /\ t = <<>> <=> Len(page[c]) = 1
    BY <1>1, <1>2, <1>4, TailFacts DEF Frames
  <1> HIDE DEF h, t
  <1>6. h \in Visible /\ h \in 0 .. next /\ LastReceived(c) < h
    BY <1>1, <1>5, VisibleFacts DEF Frames
  <1>7. received[c] # <<>> => Last(received[c]) < h BY <1>1, <1>6, LastFacts DEF Frames
  <1>8. /\ Append(received[c], h) \in Seq(Nat) /\ Append(received[c], h) # <<>>
        /\ Last(Append(received[c], h)) = h
        /\ ToSet(Append(received[c], h)) = ToSet(received[c]) \cup {h}
        /\ Ascending(Append(received[c], h))
    BY <1>1, <1>4, <1>5, <1>7, AppendFacts DEF Frames
  <1>9. /\ received'[c] = Append(received[c], h)
        /\ \A d \in Clients \ {c} : received'[d] = received[d]
    BY <1>1, <1>2, Changed DEF TypeOK
  <1>10. page'[c] = t /\ \A d \in Clients \ {c} : page'[d] = page[d]
    BY <1>1, <1>2, Changed DEF TypeOK
  <1>11. /\ t = <<>> => cursor'[c] = h
         /\ \A d \in Clients \ {c} : cursor'[d] = cursor[d]
    <2>1. CASE Len(page[c]) = 1 BY <2>1, <1>1, <1>2, Changed DEF TypeOK
    <2>2. CASE Len(page[c]) # 1 BY <2>2, <1>2, <1>5
    <2> QED BY <2>1, <2>2
  <1>12. idle'[c] < MaxIdle /\ \A d \in Clients \ {c} : idle'[d] = idle[d]
    <2>1. CASE Len(page[c]) = 1
      <3>1. idle'[c] = 0 /\ \A d \in Clients \ {c} : idle'[d] = idle[d]
        BY <2>1, <1>1, <1>2, Changed DEF TypeOK
      <3> QED BY <3>1, LogAssumption DEF LogAssumption
    <2>2. CASE Len(page[c]) # 1 BY <2>2, <1>1, <1>2 DEF Frames
    <2> QED BY <2>1, <2>2
  <1>13. LastReceived(c)' = h BY <1>8, <1>9 DEF LastReceived
  <1>14. Visible' = Visible BY <1>3 DEF Visible
  <1>15. TypeOK'
    <2>1. page' \in [Clients -> Seq(Nat)] BY <1>1, <1>2, <1>5 DEF TypeOK
    <2>2. \A d \in Clients : Len(page'[d]) <= PageSize
      <3>1. Len(t) <= PageSize
        <4>1. Len(page[c]) <= PageSize BY <1>1 DEF TypeOK
        <4>2. Len(t) \in Nat /\ Len(page[c]) \in Nat /\ PageSize \in Nat
          BY <1>4, <1>5, LenProperties, LogAssumption DEF LogAssumption
        <4> QED BY <4>1, <4>2, <1>5
      <3> QED BY <3>1, <1>1, <1>10 DEF TypeOK
    <2>3. received' \in [Clients -> Seq(Nat)] BY <1>1, <1>2, <1>8 DEF TypeOK
    <2>4. cursor' \in [Clients -> 0 .. next']
      <3>1. CASE Len(page[c]) = 1 BY <3>1, <1>1, <1>2, <1>3, <1>6 DEF TypeOK
      <3>2. CASE Len(page[c]) # 1 BY <3>2, <1>1, <1>2, <1>3 DEF TypeOK
      <3> QED BY <3>1, <3>2
    <2>5. idle' \in [Clients -> 0 .. MaxIdle]
      <3>1. 0 \in 0 .. MaxIdle BY LogAssumption DEF LogAssumption
      <3>2. CASE Len(page[c]) = 1 BY <3>1, <3>2, <1>1, <1>2 DEF TypeOK
      <3>3. CASE Len(page[c]) # 1 BY <3>3, <1>1, <1>2 DEF TypeOK
      <3> QED BY <3>2, <3>3
    <2> QED BY <2>1, <2>2, <2>3, <2>4, <2>5, <1>1, <1>2, <1>3 DEF TypeOK
  <1>16. Frames(c)'
    <2>1. ToSet(t) \subseteq Visible BY <1>1, <1>5 DEF Frames
    <2>2. ToSet(received'[c]) \subseteq Visible BY <1>1, <1>6, <1>8, <1>9 DEF Frames
    <2> QED BY <2>1, <2>2, <1>2, <1>5, <1>8, <1>9, <1>10, <1>11, <1>12, <1>13, <1>14
         DEF Frames
  <1>17. Complete(c)'
    <2>1. ASSUME NEW w \in log \ late
          PROVE  /\ id[w] <= h => id[w] \in ToSet(received[c]) \cup {h}
                 /\ \A i \in ToSet(t) : id[w] <= i =>
                        id[w] \in (ToSet(received[c]) \cup {h}) \cup ToSet(t)
      <3>1. \A i \in ToSet(page[c]) :
                id[w] <= i => id[w] \in ToSet(received[c]) \cup ToSet(page[c])
        BY <1>1 DEF Complete
      <3>2. id[w] \in Nat BY <1>1, VisibleFacts
      <3>3. ASSUME id[w] <= h PROVE id[w] \notin ToSet(t)
        BY <3>2, <3>3, <1>5, <1>6
      <3> QED BY <3>1, <3>3, <1>5
    <2> QED BY <2>1, <1>3, <1>8, <1>9, <1>10, <1>13 DEF Complete
  <1> QED BY <1>2, <1>9, <1>10, <1>11, <1>12, <1>15, <1>16, <1>17, ClientStep

LEMMA IdlePreserves ==
    ASSUME IndInv, NEW c \in Clients, Idle(c)
    PROVE  IndInv'
  <1>1. TypeOK /\ Frames(c) /\ Complete(c) BY DEF IndInv
  <1>2. /\ stream[c] = "open" /\ page[c] = <<>>
        /\ idle' = [idle EXCEPT ![c] = idle[c] + 1]
        /\ stream' = [stream EXCEPT ![c] = IF idle'[c] < MaxIdle THEN "open" ELSE "closed"]
        /\ UNCHANGED writerVars /\ cursor' = cursor /\ page' = page
        /\ received' = received /\ drops' = drops
    BY DEF Idle
  <1>3. /\ key' = key /\ append' = append /\ id' = id /\ next' = next
        /\ log' = log /\ late' = late
    BY <1>2 DEF writerVars
  <1>4. idle[c] \in Nat /\ idle[c] < MaxIdle /\ MaxIdle \in Nat
    BY <1>1, <1>2, LogAssumption DEF TypeOK, Frames, LogAssumption
  <1>5. idle'[c] = idle[c] + 1 /\ \A d \in Clients \ {c} : idle'[d] = idle[d]
    BY <1>1, <1>2, Changed DEF TypeOK
  <1>6. /\ stream'[c] = "open" => idle'[c] < MaxIdle
        /\ \A d \in Clients \ {c} : stream'[d] = stream[d]
    <2>1. stream'[c] = IF idle'[c] < MaxIdle THEN "open" ELSE "closed"
      BY <1>1, <1>2, Changed DEF TypeOK
    <2>2. \A d \in Clients \ {c} : stream'[d] = stream[d]
      BY <1>1, <1>2, Changed DEF TypeOK
    <2> QED BY <2>1, <2>2
  <1>7. TypeOK'
    <2>1. idle' \in [Clients -> 0 .. MaxIdle] BY <1>1, <1>2, <1>4 DEF TypeOK
    <2>2. stream' \in [Clients -> {"open", "closed"}] BY <1>1, <1>2 DEF TypeOK
    <2> QED BY <2>1, <2>2, <1>1, <1>2, <1>3 DEF TypeOK
  <1>8. LastReceived(c)' = LastReceived(c) /\ Visible' = Visible
    BY <1>2, <1>3 DEF LastReceived, Visible
  <1>9. cursor[c] = LastReceived(c) BY <1>1, <1>2 DEF Frames
  <1>10. Frames(c)' BY <1>1, <1>2, <1>6, <1>8, <1>9 DEF Frames
  <1>11. Complete(c)' BY <1>1, <1>2, <1>3, <1>8 DEF Complete
  <1> QED BY <1>2, <1>5, <1>6, <1>7, <1>10, <1>11, ClientStep

LEMMA DropPreserves ==
    ASSUME IndInv, NEW c \in Clients, Drop(c)
    PROVE  IndInv'
  <1>1. TypeOK /\ Frames(c) /\ Complete(c) BY DEF IndInv
  <1>2. /\ drops[c] < MaxDrops /\ drops' = [drops EXCEPT ![c] = drops[c] + 1]
        /\ stream' = [stream EXCEPT ![c] = "closed"]
        /\ page' = [page EXCEPT ![c] = <<>>]
        /\ UNCHANGED writerVars /\ cursor' = cursor /\ idle' = idle /\ received' = received
    BY DEF Drop
  <1>3. /\ key' = key /\ append' = append /\ id' = id /\ next' = next
        /\ log' = log /\ late' = late
    BY <1>2 DEF writerVars
  <1>4. stream'[c] = "closed" /\ \A d \in Clients \ {c} : stream'[d] = stream[d]
    BY <1>1, <1>2, Changed DEF TypeOK
  <1>5. page'[c] = <<>> /\ \A d \in Clients \ {c} : page'[d] = page[d]
    BY <1>1, <1>2, Changed DEF TypeOK
  <1>6. TypeOK'
    <2>1. stream' \in [Clients -> {"open", "closed"}] BY <1>1, <1>2 DEF TypeOK
    <2>2. page' \in [Clients -> Seq(Nat)] BY <1>1, <1>2, EmptyFacts DEF TypeOK
    <2>3. \A d \in Clients : Len(page'[d]) <= PageSize
      <3>1. Len(<<>>) <= PageSize BY EmptySeq, LogAssumption DEF LogAssumption
      <3> QED BY <3>1, <1>1, <1>5 DEF TypeOK
    <2>4. drops' \in [Clients -> 0 .. MaxDrops]
      <3>1. drops[c] \in Nat /\ MaxDrops \in Nat
        BY <1>1, LogAssumption DEF TypeOK, LogAssumption
      <3>2. drops[c] + 1 \in 0 .. MaxDrops BY <3>1, <1>2
      <3> QED BY <3>2, <1>1, <1>2 DEF TypeOK
    <2> QED BY <2>1, <2>2, <2>3, <2>4, <1>1, <1>2, <1>3 DEF TypeOK
  <1>7. LastReceived(c)' = LastReceived(c) /\ Visible' = Visible
    BY <1>2, <1>3 DEF LastReceived, Visible
  <1>8. Frames(c)' BY <1>1, <1>2, <1>4, <1>5, <1>7, EmptyFacts DEF Frames
  <1>9. Complete(c)' BY <1>1, <1>2, <1>3, <1>5, <1>7, EmptyFacts DEF Complete
  <1> QED BY <1>2, <1>4, <1>5, <1>6, <1>8, <1>9, ClientStep

LEMMA ReconnectPreserves ==
    ASSUME IndInv, NEW c \in Clients, Reconnect(c)
    PROVE  IndInv'
  <1>1. TypeOK /\ Frames(c) /\ Complete(c) BY DEF IndInv
  <1>2. /\ stream[c] = "closed"
        /\ stream' = [stream EXCEPT ![c] = "open"]
        /\ cursor' = [cursor EXCEPT ![c] = LastReceived(c)]
        /\ idle' = [idle EXCEPT ![c] = 0]
        /\ UNCHANGED writerVars /\ page' = page /\ received' = received /\ drops' = drops
    BY DEF Reconnect
  <1>3. /\ key' = key /\ append' = append /\ id' = id /\ next' = next
        /\ log' = log /\ late' = late
    BY <1>2 DEF writerVars
  <1>4. stream'[c] = "open" /\ \A d \in Clients \ {c} : stream'[d] = stream[d]
    BY <1>1, <1>2, Changed DEF TypeOK
  <1>5. cursor'[c] = LastReceived(c) /\ \A d \in Clients \ {c} : cursor'[d] = cursor[d]
    BY <1>1, <1>2, Changed DEF TypeOK
  <1>6. idle'[c] = 0 /\ \A d \in Clients \ {c} : idle'[d] = idle[d]
    BY <1>1, <1>2, Changed DEF TypeOK
  <1>7. 0 \in 0 .. MaxIdle /\ 0 < MaxIdle BY LogAssumption DEF LogAssumption
  <1>8. TypeOK'
    <2>1. stream' \in [Clients -> {"open", "closed"}] BY <1>1, <1>2 DEF TypeOK
    <2>2. LastReceived(c) \in 0 .. next' BY <1>1, <1>3, LastFacts DEF Frames
    <2>3. cursor' \in [Clients -> 0 .. next'] BY <2>2, <1>1, <1>2, <1>3 DEF TypeOK
    <2>4. idle' \in [Clients -> 0 .. MaxIdle] BY <1>1, <1>2, <1>7 DEF TypeOK
    <2> QED BY <2>1, <2>3, <2>4, <1>1, <1>2, <1>3 DEF TypeOK
  <1>9. LastReceived(c)' = LastReceived(c) /\ Visible' = Visible
    BY <1>2, <1>3 DEF LastReceived, Visible
  <1>10. Frames(c)' BY <1>1, <1>2, <1>4, <1>5, <1>6, <1>7, <1>9 DEF Frames
  <1>11. Complete(c)' BY <1>1, <1>2, <1>3, <1>9 DEF Complete
  <1> QED BY <1>2, <1>4, <1>5, <1>6, <1>8, <1>10, <1>11, ClientStep

-----------------------------------------------------------------------------
LEMMA InitEstablishes == Init => IndInv
  <1> SUFFICES ASSUME Init PROVE IndInv OBVIOUS
  <1>1. TypeOK
    <2>1. Len(<<>>) <= PageSize BY EmptySeq, LogAssumption DEF LogAssumption
    <2> QED BY <2>1, EmptyFacts, LogAssumption DEF Init, TypeOK, LogAssumption
  <1>2. RowsKept BY DEF Init, RowsKept, Held
  <1>3. ASSUME NEW c \in Clients PROVE Frames(c) /\ Complete(c)
    <2>1. /\ received[c] = <<>> /\ page[c] = <<>> /\ stream[c] = "open"
          /\ cursor[c] = 0 /\ idle[c] = 0 /\ log = {}
      BY DEF Init
    <2>2. LastReceived(c) = 0 BY <2>1 DEF LastReceived
    <2>3. Frames(c)
      BY <2>1, <2>2, EmptyFacts, LogAssumption DEF Frames, LogAssumption
    <2>4. Complete(c) BY <2>1 DEF Complete
    <2> QED BY <2>3, <2>4
  <1> QED BY <1>1, <1>2, <1>3 DEF IndInv

LEMMA NextPreserves == IndInv /\ [Next]_vars => IndInv'
  <1> SUFFICES ASSUME IndInv, [Next]_vars PROVE IndInv' OBVIOUS
  <1>1. ASSUME NEW w \in Writers, Write(w) PROVE IndInv'
    BY <1>1, InsertPreserves, ConflictPreserves, CommitPreserves, AbortPreserves,
       SelectPreserves DEF Write
  <1>2. ASSUME NEW c \in Clients, Follow(c) \/ Idle(c) \/ Drop(c) PROVE IndInv'
    BY <1>2, FetchPreserves, YieldPreserves, ReconnectPreserves, IdlePreserves,
       DropPreserves DEF Follow
  <1>3. CASE UNCHANGED vars
    <2>1. UNCHANGED writerVars /\ UNCHANGED clientVars
      BY <1>3 DEF vars, writerVars, clientVars
    <2>2. UNCHANGED <<key, append, id, next, log, late>> BY <2>1 DEF writerVars
    <2>3. TypeOK' BY <2>1, <2>2 DEF IndInv, TypeOK, clientVars
    <2>4. RowsKept' BY <2>1, RowsUnchanged DEF IndInv
    <2>5. Visible' = Visible BY <2>2 DEF Visible
    <2>6. \A c \in Clients : Frames(c)' /\ Complete(c)' BY <2>1, <2>2, <2>5, WriterStep
    <2> QED BY <2>3, <2>4, <2>6 DEF IndInv
  <1> QED BY <1>1, <1>2, <1>3 DEF Next

LEMMA Invariance == Spec => []IndInv
  BY InitEstablishes, NextPreserves, PTL DEF Spec

(* Rows are writers, pages are at most PageSize events, an open stream has *)
(* idle ticks left (append_event, stream_run_events).                      *)
THEOREM LogTypes == Spec => []TypeOK
  <1>1. IndInv => TypeOK BY DEF IndInv
  <1> QED BY <1>1, Invariance, PTL

(* An event key names one row, and every append under it returns that row  *)
(* (the partial unique index and ON CONFLICT DO NOTHING).                  *)
THEOREM KeysNameOneRow == Spec => []KeyedOnce
  <1>1. IndInv => KeyedOnce
    <2> SUFFICES ASSUME IndInv, NEW w \in Writers, NEW x \in SameKey(w),
                        append[w] = "done", append[x] = "done"
                 PROVE  id[w] = id[x] /\ ~ {w, x} \subseteq log
      BY DEF KeyedOnce
    <2>1. RowsKept /\ log \subseteq Writers BY DEF IndInv, TypeOK
    <2>2. x \in Writers /\ w \in SameKey(x) /\ \A y \in SameKey(w) \ {x} : y \in SameKey(x)
      BY SameKeySym
    <2>3. ~ (w \in log /\ x \in log) BY <2>1 DEF RowsKept, Held
    <2>4. \A y \in SameKey(w) \cap log, z \in SameKey(x) \cap log : y = z
      <3> SUFFICES ASSUME NEW y \in SameKey(w) \cap log, NEW z \in SameKey(x) \cap log, y # z
                   PROVE  FALSE
        OBVIOUS
      <3>1. z \in SameKey(y) BY <2>1 DEF SameKey
      <3> QED BY <3>1, <2>1 DEF RowsKept, Held
    <2>5. w \notin log => \E y \in SameKey(w) \cap log : id[w] = id[y] BY <2>1 DEF RowsKept
    <2>6. x \notin log => \E z \in SameKey(x) \cap log : id[x] = id[z]
      BY <2>1, <2>2 DEF RowsKept
    <2>7. id[w] = id[x]
      <3>1. CASE w \in log
        <4>1. w \in SameKey(x) \cap log BY <3>1, <2>2
        <4>2. PICK z \in SameKey(x) \cap log : id[x] = id[z] BY <3>1, <2>3, <2>6
        <4>3. \A y \in SameKey(x) \cap log : y = z
          BY <4>2, <2>1, <2>2 DEF RowsKept, Held, SameKey
        <4> QED BY <4>1, <4>2, <4>3
      <3>2. CASE x \in log
        <4>1. PICK y \in SameKey(w) \cap log : id[w] = id[y] BY <3>2, <2>3, <2>5
        <4>2. \A z \in SameKey(w) \cap log : z = y
          BY <4>1, <2>1 DEF RowsKept, Held, SameKey
        <4> QED BY <4>1, <4>2, <3>2
      <3>3. CASE w \notin log /\ x \notin log BY <3>3, <2>4, <2>5, <2>6
      <3> QED BY <3>1, <3>2, <3>3
    <2> QED BY <2>3, <2>7
  <1> QED BY <1>1, Invariance, PTL

(* Frames arrive in the order of their ids, none twice, over any number of *)
(* lost connections (stream_run_events and Last-Event-ID).                 *)
THEOREM FramesInOrder == Spec => []ReceivedInOrder
  <1>1. IndInv => ReceivedInOrder
    <2> SUFFICES ASSUME IndInv, NEW c \in Clients, NEW i \in 2 .. Len(received[c])
                 PROVE  received[c][i - 1] < received[c][i]
      BY DEF ReceivedInOrder
    <2>1. received[c] \in Seq(Nat) /\ Ascending(received[c]) BY DEF IndInv, TypeOK, Frames
    <2>2. Len(received[c]) \in Nat /\ DOMAIN received[c] = 1 .. Len(received[c])
      BY <2>1, LenProperties
    <2>3. i - 1 \in DOMAIN received[c] /\ i \in DOMAIN received[c] /\ i - 1 < i BY <2>2
    <2> QED BY <2>1, <2>3, OrderFacts
  <1> QED BY <1>1, Invariance, PTL

(* A client misses no event up to the last it received, but for rows that  *)
(* became visible late (the cursor of stream_run_events).                  *)
THEOREM NoFrameSkipped == Spec => []NothingPassedOver
  <1>1. IndInv => NothingPassedOver BY DEF IndInv, Complete, NothingPassedOver
  <1> QED BY <1>1, Invariance, PTL
=============================================================================
