------------------------------ MODULE HdmaProofs ------------------------------
(***************************************************************************)
(* H-DMA follows its tables: for every length of a line and a frame that   *)
(* is long enough for it, every number of channels and every table.        *)
(***************************************************************************)
EXTENDS SuperFamicomCPUProofs

-----------------------------------------------------------------------------
(* The tables of H-DMA *)

\* How far a line is into an entry.
LEMMA Offset ==
  ASSUME NEW v \in Nat, NEW s \in Nat, NEW z \in Nat, NEW y, y = s + z, s <= v, v < y
  PROVE  v - s \in Nat /\ v - s < z /\ (v + 1) - s = (v - s) + 1
OBVIOUS

\* A table begins at line and address 0, and each entry where the one before it ends.
LEMMA EntrySums ==
  ASSUME NEW c, HoldsTable(c), c.length \in Nat, CountHalf \in Nat \ {0}
  PROVE  /\ Len(c.entries) \in Nat
         /\ EntryStart(c)[1] = 0 /\ EntryAddress(c)[1] = 0
         /\ \A i \in 1 .. Len(c.entries) :
              /\ c.entries[i] \in 1 .. 2 * CountHalf - 1
              /\ EntryLines(c.entries[i]) \in Nat \ {0}
              /\ EntryStart(c)[i + 1] = EntryStart(c)[i] + EntryLines(c.entries[i])
              /\ EntryAddress(c)[i + 1] = EntryAddress(c)[i] + EntrySize(c, c.entries[i])
         /\ \A i \in 1 .. Len(c.entries) + 1 :
              EntryStart(c)[i] \in Nat /\ EntryAddress(c)[i] \in Nat
         /\ \A i, j \in 1 .. Len(c.entries) + 1 :
              i <= j => EntryStart(c)[i] <= EntryStart(c)[j]
<1> DEFINE L == Len(c.entries)
           g == [i \in 1 .. L |-> EntryLines(c.entries[i])]
           h == [i \in 1 .. L |-> EntrySize(c, c.entries[i])]
           start == EntryStart(c)
           address == EntryAddress(c)
           a == 1
<1>0. a \in Nat
  OBVIOUS
<1>1. L \in Nat /\ \A i \in 1 .. L : c.entries[i] \in 1 .. 2 * CountHalf - 1
  BY DEF HoldsTable
<1>. HIDE DEF L, a
<1>2. \A b \in 1 .. 2 * CountHalf - 1 : EntryLines(b) \in Nat \ {0}
  <2>1. \A b \in 1 .. 2 * CountHalf - 1 : b % CountHalf \in Nat
    BY Modulo
  <2>. QED  BY <2>1 DEF EntryLines
<1>3. \A b \in 1 .. 2 * CountHalf - 1 : EntrySize(c, b) \in Nat
  BY <1>2 DEF EntrySize
<1>4. \A i \in 1 .. L : g[i] \in Nat /\ h[i] \in Nat
  BY <1>1, <1>2, <1>3
<1>. HIDE DEF g, h
<1>5. IsSum(start, a, L, g)
  <2> DEFINE Is(f) ==
           f = [i \in 1 .. L + 1 |->
                  IF i = 1 THEN 0 ELSE f[i - 1] + EntryLines(c.entries[i - 1])]
  <2>1. \E f : IsSum(f, a, L, g)
    BY <1>0, <1>1, SumExists
  <2>2. \A i \in 1 .. L + 1 : i # 1 => g[i - 1] = EntryLines(c.entries[i - 1])
    BY <1>1 DEF g
  <2>3. a = 1 /\ a .. a + L = 1 .. L + 1
    BY <1>1 DEF a
  <2>4. ASSUME NEW f PROVE IsSum(f, a, L, g) <=> Is(f)
    <3>1. [i \in a .. a + L |-> IF i = a THEN 0 ELSE f[i - 1] + g[i - 1]]
            = [i \in 1 .. L + 1 |-> IF i = 1 THEN 0 ELSE f[i - 1] + EntryLines(c.entries[i - 1])]
      BY <2>2, <2>3
    <3>. QED  BY <3>1 DEF IsSum
  <2>5. \E f : Is(f)
    BY <2>1, <2>4
  <2>6. start = CHOOSE f : Is(f)
    BY DEF EntryStart, L
  <2>. HIDE DEF start, Is
  <2>7. Is(start)
    BY <2>5, <2>6
  <2>. QED  BY <2>4, <2>7
<1>6. IsSum(address, a, L, h)
  <2> DEFINE Is(f) ==
           f = [i \in 1 .. L + 1 |->
                  IF i = 1 THEN 0 ELSE f[i - 1] + EntrySize(c, c.entries[i - 1])]
  <2>1. \E f : IsSum(f, a, L, h)
    BY <1>0, <1>1, SumExists
  <2>2. \A i \in 1 .. L + 1 : i # 1 => h[i - 1] = EntrySize(c, c.entries[i - 1])
    BY <1>1 DEF h
  <2>3. a = 1 /\ a .. a + L = 1 .. L + 1
    BY <1>1 DEF a
  <2>4. ASSUME NEW f PROVE IsSum(f, a, L, h) <=> Is(f)
    <3>1. [i \in a .. a + L |-> IF i = a THEN 0 ELSE f[i - 1] + h[i - 1]]
            = [i \in 1 .. L + 1 |-> IF i = 1 THEN 0 ELSE f[i - 1] + EntrySize(c, c.entries[i - 1])]
      BY <2>2, <2>3
    <3>. QED  BY <3>1 DEF IsSum
  <2>5. \E f : Is(f)
    BY <2>1, <2>4
  <2>6. address = CHOOSE f : Is(f)
    BY DEF EntryAddress, L
  <2>. HIDE DEF address, Is
  <2>7. Is(address)
    BY <2>5, <2>6
  <2>. QED  BY <2>4, <2>7
<1>. HIDE DEF start, address
<1>7. a = 1 /\ a .. a + L - 1 = 1 .. L /\ a .. a + L = 1 .. L + 1
  BY <1>1 DEF a
<1>8. /\ start[a] = 0 /\ \A i \in a .. a + L - 1 : start[i + 1] = start[i] + g[i]
      /\ \A i \in a .. a + L : start[i] \in Nat
      /\ \A i, j \in a .. a + L : i <= j => start[i] <= start[j]
  <2>1. \A i \in a .. a + L - 1 : g[i] \in Nat
    BY <1>4, <1>7
  <2>. QED  BY <1>0, <1>1, <1>5, <2>1, SumGrows
<1>9. /\ address[a] = 0 /\ \A i \in a .. a + L - 1 : address[i + 1] = address[i] + h[i]
      /\ \A i \in a .. a + L : address[i] \in Nat
  <2>1. \A i \in a .. a + L - 1 : h[i] \in Nat
    BY <1>4, <1>7
  <2>. QED  BY <1>0, <1>1, <1>6, <2>1, SumGrows
<1>10. \A i \in 1 .. L : g[i] = EntryLines(c.entries[i]) /\ h[i] = EntrySize(c, c.entries[i])
  BY DEF g, h
<1>. HIDE DEF a
<1>. QED  BY <1>1, <1>2, <1>7, <1>8, <1>9, <1>10 DEF L, start, address

\* What the transfers and the counts of the channels take together.
LEMMA TimeSums ==
  ASSUME NEW p \in Programs
  PROVE  /\ MoveTime(p)[0] = 0 /\ CountTime(p)[0] = 0
         /\ \A k \in Channel :
              /\ MoveTime(p)[k + 1] = MoveTime(p)[k] + 2 * p.channel[k].length
              /\ CountTime(p)[k + 1] = CountTime(p)[k]
                                         + (IF p.channel[k].indirect THEN 6 ELSE 2)
         /\ \A k \in 0 .. Channels :
              /\ MoveTime(p)[k] \in Nat /\ MoveTime(p)[k] <= MoveTime(p)[Channels]
              /\ CountTime(p)[k] \in Nat /\ CountTime(p)[k] <= CountTime(p)[Channels]
<1> DEFINE g == [k \in Channel |-> 2 * p.channel[k].length]
           h == [k \in Channel |-> IF p.channel[k].indirect THEN 6 ELSE 2]
           move == MoveTime(p)
           count == CountTime(p)
           a == 0
           C == Channels
<1>0. a \in Nat /\ C \in Nat
  BY CpuAssumption
<1>. HIDE DEF C
<1>1. Channel = 0 .. C - 1 /\ \A k \in Channel : p.channel[k].length \in Nat
  BY CpuAssumption DEF Channel, C
<1>2. \A k \in Channel : g[k] \in Nat /\ h[k] \in Nat
  BY <1>1
<1>. HIDE DEF g, h, a
<1>3. a = 0 /\ a .. a + C = 0 .. C /\ a .. a + C - 1 = Channel
  BY <1>0, <1>1 DEF a
<1>4. \A k \in 0 .. C : k # 0 => k - 1 \in Channel
  BY <1>0, <1>1
<1>5. IsSum(move, a, C, g)
  <2> DEFINE Is(f) == f = [k \in 0 .. C |-> IF k = 0 THEN 0
                                            ELSE f[k - 1] + 2 * p.channel[k - 1].length]
  <2>1. \E f : IsSum(f, a, C, g)
    BY <1>0, SumExists
  <2>2. \A k \in 0 .. C : k # 0 => g[k - 1] = 2 * p.channel[k - 1].length
    BY <1>4 DEF g
  <2>3. \A f : IsSum(f, a, C, g) <=> Is(f)
    BY <1>3, <2>2 DEF IsSum
  <2>4. \E f : Is(f)
    BY <2>1, <2>3
  <2>5. move = CHOOSE f : Is(f)
    BY DEF MoveTime, C
  <2>. HIDE DEF move, Is
  <2>6. Is(move)
    BY <2>4, <2>5
  <2>. QED  BY <2>3, <2>6
<1>6. IsSum(count, a, C, h)
  <2> DEFINE Is(f) == f = [k \in 0 .. C |-> IF k = 0 THEN 0
                             ELSE f[k - 1] + (IF p.channel[k - 1].indirect THEN 6 ELSE 2)]
  <2>1. \E f : IsSum(f, a, C, h)
    BY <1>0, SumExists
  <2>2. \A k \in 0 .. C : k # 0 => h[k - 1] = (IF p.channel[k - 1].indirect THEN 6 ELSE 2)
    BY <1>4 DEF h
  <2>3. \A f : IsSum(f, a, C, h) <=> Is(f)
    BY <1>3, <2>2 DEF IsSum
  <2>4. \E f : Is(f)
    BY <2>1, <2>3
  <2>5. count = CHOOSE f : Is(f)
    BY DEF CountTime, C
  <2>. HIDE DEF count, Is
  <2>6. Is(count)
    BY <2>4, <2>5
  <2>. QED  BY <2>3, <2>6
<1>. HIDE DEF move, count
<1>7. /\ move[a] = 0 /\ \A k \in a .. a + C - 1 : move[k + 1] = move[k] + g[k]
      /\ \A k \in a .. a + C : move[k] \in Nat
      /\ \A j, k \in a .. a + C : j <= k => move[j] <= move[k]
  <2>1. \A k \in a .. a + C - 1 : g[k] \in Nat
    BY <1>2, <1>3
  <2>. QED  BY <1>0, <1>5, <2>1, SumGrows
<1>8. /\ count[a] = 0 /\ \A k \in a .. a + C - 1 : count[k + 1] = count[k] + h[k]
      /\ \A k \in a .. a + C : count[k] \in Nat
      /\ \A j, k \in a .. a + C : j <= k => count[j] <= count[k]
  <2>1. \A k \in a .. a + C - 1 : h[k] \in Nat
    BY <1>2, <1>3
  <2>. QED  BY <1>0, <1>6, <2>1, SumGrows
<1>9. \A k \in Channel : /\ g[k] = 2 * p.channel[k].length
                         /\ h[k] = (IF p.channel[k].indirect THEN 6 ELSE 2)
  BY DEF g, h
<1>10. C \in 0 .. C /\ \A k \in 0 .. C : k <= C
  BY <1>0
<1>11. move[0] = 0 /\ count[0] = 0
  BY <1>3, <1>7, <1>8
<1>12. \A k \in Channel : /\ move[k + 1] = move[k] + 2 * p.channel[k].length
                          /\ count[k + 1] = count[k]
                                              + (IF p.channel[k].indirect THEN 6 ELSE 2)
  <2>1. \A k \in Channel : move[k + 1] = move[k] + g[k] /\ count[k + 1] = count[k] + h[k]
    BY <1>3, <1>7, <1>8
  <2>. QED  BY <1>9, <2>1
<1>13. \A k \in 0 .. C : /\ move[k] \in Nat /\ move[k] <= move[C]
                         /\ count[k] \in Nat /\ count[k] <= count[C]
  BY <1>3, <1>7, <1>8, <1>10
<1>. QED  BY <1>11, <1>12, <1>13 DEF move, count, C

\* The lines an entry says that its channel transfers on are its own, and after the last
\* entry there are none.
LEMMA TableLines ==
  ASSUME NEW n, HoldsTable(program.channel[n]), program.channel[n].length \in Nat,
         CountHalf \in Nat \ {0}, NEW v \in Nat
  PROVE  LET c == program.channel[n]
             start == EntryStart(c)
         IN  /\ \A i \in 1 .. Len(c.entries) :
                  start[i] <= v /\ v < start[i + 1] =>
                    (v \in TransferLines(n) <=> v = start[i] \/ c.entries[i] > CountHalf)
             /\ v >= start[Len(c.entries) + 1] => v \notin TransferLines(n)
<1> DEFINE c == program.channel[n]
           start == EntryStart(c)
           L == Len(c.entries)
           b(i) == c.entries[i]
           own(i) == IF b(i) > CountHalf THEN start[i] .. start[i] + EntryLines(b(i)) - 1
                     ELSE {start[i]}
<1>1. /\ L \in Nat /\ DOMAIN c.entries = 1 .. L
      /\ \A i \in 1 .. L : /\ b(i) \in Nat /\ EntryLines(b(i)) \in Nat \ {0}
                           /\ start[i + 1] = start[i] + EntryLines(b(i))
      /\ \A i \in 1 .. L + 1 : start[i] \in Nat
      /\ \A i, j \in 1 .. L + 1 : i <= j => start[i] <= start[j]
  <2>1. DOMAIN c.entries = 1 .. L
    BY DEF HoldsTable
  <2>. QED  BY <2>1, EntrySums
<1>2. TransferLines(n) = UNION {own(i) : i \in 1 .. L}
  BY <1>1 DEF TransferLines
<1>. HIDE DEF start, L, c
<1>3. \A i \in 1 .. L : \A w \in own(i) : w \in Nat /\ start[i] <= w /\ w < start[i + 1]
  <2>. SUFFICES ASSUME NEW i \in 1 .. L, NEW w \in own(i)
                PROVE  w \in Nat /\ start[i] <= w /\ w < start[i + 1]
    OBVIOUS
  <2>1. i \in 1 .. L + 1
    BY <1>1
  <2>2. start[i] \in Nat /\ EntryLines(b(i)) \in Nat \ {0}
        /\ start[i + 1] = start[i] + EntryLines(b(i))
    BY <1>1, <2>1
  <2>. QED  BY <2>2
<1>4. \A i \in 1 .. L : start[i] \in own(i)
  <2>. SUFFICES ASSUME NEW i \in 1 .. L PROVE start[i] \in own(i)
    OBVIOUS
  <2>1. i \in 1 .. L + 1
    BY <1>1
  <2>2. start[i] \in Nat /\ EntryLines(b(i)) \in Nat \ {0}
    BY <1>1, <2>1
  <2>. QED  BY <2>2
<1>5. ASSUME NEW i \in 1 .. L, start[i] <= v, v < start[i + 1]
      PROVE  v \in own(i) <=> v = start[i] \/ b(i) > CountHalf
  <2>1. i \in 1 .. L + 1
    BY <1>1
  <2>2. start[i] \in Nat /\ EntryLines(b(i)) \in Nat \ {0}
        /\ start[i + 1] = start[i] + EntryLines(b(i))
    BY <1>1, <2>1
  <2>. QED  BY <1>5, <2>2
<1>. HIDE DEF own
<1>6. ASSUME NEW i \in 1 .. L, start[i] <= v, v < start[i + 1]
      PROVE  v \in TransferLines(n) <=> v = start[i] \/ b(i) > CountHalf
  <2>1. ASSUME NEW j \in 1 .. L, v \in own(j) PROVE j = i
    <3>1. start[j] <= v /\ v < start[j + 1]
      BY <1>3, <2>1
    <3>2. /\ j \in Nat /\ i \in Nat /\ {i, j, i + 1, j + 1} \subseteq 1 .. L + 1
      BY <1>1
    <3>3. {start[i], start[j], start[i + 1], start[j + 1]} \subseteq Nat
      BY <1>1, <3>2
    <3>4. CASE j < i
      <4>1. j + 1 <= i
        BY <3>2, <3>4
      <4>2. start[j + 1] <= start[i]
        BY <1>1, <3>2, <4>1
      <4>. QED  BY <1>6, <3>1, <3>3, <4>2
    <3>5. CASE i < j
      <4>1. i + 1 <= j
        BY <3>2, <3>5
      <4>2. start[i + 1] <= start[j]
        BY <1>1, <3>2, <4>1
      <4>. QED  BY <1>6, <3>1, <3>3, <4>2
    <3>. QED  BY <3>2, <3>4, <3>5
  <2>2. v \in TransferLines(n) <=> v \in own(i)
    BY <1>2, <2>1
  <2>. QED  BY <1>5, <1>6, <2>2
<1>7. ASSUME v >= start[L + 1] PROVE v \notin TransferLines(n)
  <2>1. ASSUME NEW j \in 1 .. L, v \in own(j) PROVE FALSE
    <3>1. v < start[j + 1]
      BY <1>3, <2>1
    <3>2. j + 1 \in 1 .. L + 1 /\ L + 1 \in 1 .. L + 1 /\ j + 1 <= L + 1
      BY <1>1
    <3>3. start[j + 1] <= start[L + 1] /\ start[j + 1] \in Nat /\ start[L + 1] \in Nat
      BY <1>1, <3>2
    <3>. QED  BY <1>7, <3>1, <3>3
  <2>. QED  BY <1>2, <2>1
<1>. QED  BY <1>6, <1>7 DEF start, L, c

\* Of the data of an entry b, the lines that are behind a channel that has transferred on k
\* of its lines, or seen them pass.
Sent(b, k) == IF b > CountHalf THEN k ELSE IF k = 0 THEN 0 ELSE 1

\* A channel in state d is at line v of its table, in its entry i; on that line it has
\* transferred already if j is 1, and not yet if j is 0.
AtEntry(n, i, d, v, j) ==
  LET c == program.channel[n]
      b == c.entries[i]
      k == v - EntryStart(c)[i]
      data == IF c.indirect THEN 2 ELSE c.length * Sent(b, k + j)
  IN  /\ EntryStart(c)[i] <= v /\ v < EntryStart(c)[i + 1]
      /\ ~d.completed /\ d.line = b - k
      /\ d.transfer <=> (k = 0 \/ b > CountHalf)
      /\ d.address = (EntryAddress(c)[i] + 1 + data) % c.width

Reads(n, d, v, j) ==
  LET c == program.channel[n] IN
  \/ d.completed /\ v >= EntryStart(c)[Len(c.entries) + 1]
  \/ \E i \in 1 .. Len(c.entries) : AtEntry(n, i, d, v, j)

Tabled(n) ==
  /\ HoldsTable(program.channel[n]) /\ program.channel[n].length \in Nat
  /\ CountHalf \in Nat \ {0} /\ Vdisp \in Nat

LEMMA TabledTypes ==
  ASSUME NEW n, Tabled(n)
  PROVE  LET c == program.channel[n] IN
         /\ HoldsTable(c) /\ c.length \in Nat /\ CountHalf \in Nat \ {0} /\ Vdisp \in Nat
         /\ c.width \in Nat \ {0} /\ DOMAIN c.entries = 1 .. Len(c.entries)
BY DEF Tabled, HoldsTable

LEMMA AllTabled == program \in Programs => \A n \in Channel : Tabled(n)
BY CpuAssumption, HdmaAssumption DEF Tabled

\* A channel whose table has ended stays there, and its table says no line more.
LEMMA ReadsPast ==
  ASSUME NEW n, Tabled(n), NEW v \in Nat, NEW d, NEW j, NEW h, Reads(n, d, v, j), d.completed
  PROVE  v \notin TransferLines(n) /\ Reads(n, d, v + 1, h)
<1> DEFINE c == program.channel[n]
           end == EntryStart(c)[Len(c.entries) + 1]
<1>1. v >= end
  BY DEF Reads, AtEntry
<1>2. end \in Nat
  <2>1. Len(c.entries) \in Nat /\ \A i \in 1 .. Len(c.entries) + 1 : EntryStart(c)[i] \in Nat
    BY EntrySums DEF Tabled
  <2>2. Len(c.entries) + 1 \in 1 .. Len(c.entries) + 1
    BY <2>1
  <2>. QED  BY <2>1, <2>2
<1>3. v \notin TransferLines(n)
  BY <1>1, TableLines DEF Tabled
<1>4. v + 1 >= end
  <2>. HIDE DEF end
  <2>. QED  BY <1>1, <1>2
<1>. QED  BY <1>3, <1>4 DEF Reads

\* A channel begins an entry, or its table ends: what is read at its address is the count.
LEMMA ReadsLoad ==
  ASSUME NEW n, Tabled(n), NEW i \in 1 .. Len(program.channel[n].entries) + 1,
         EntryStart(program.channel[n])[i] <= Vdisp,
         NEW a, a = EntryAddress(program.channel[n])[i] % program.channel[n].width,
         NEW e, e.line = Memory(n, a), e.completed = (e.line = 0), e.transfer = (e.line # 0),
         e.line # 0 => e.address = (IF program.channel[n].indirect
                                      THEN Next16(n, Next16(n, Next16(n, a))) ELSE Next16(n, a))
  PROVE  Reads(n, e, EntryStart(program.channel[n])[i], 0)
<1> DEFINE c == program.channel[n]
           L == Len(c.entries)
           start == EntryStart(c)
           address == EntryAddress(c)
           w == c.width
           at == (address[i] % w) + 1
           v == start[i]
           g == address[i]
<1>1. /\ L \in Nat /\ DOMAIN c.entries = 1 .. L
      /\ start[i] \in Nat /\ address[i] \in Nat
      /\ \A k \in 1 .. L : /\ c.entries[k] \in 1 .. 2 * CountHalf - 1
                           /\ EntryLines(c.entries[k]) \in Nat \ {0}
                           /\ start[k + 1] = start[k] + EntryLines(c.entries[k])
  <2>1. /\ HoldsTable(c) /\ c.length \in Nat /\ CountHalf \in Nat \ {0}
        /\ DOMAIN c.entries = 1 .. L
    BY TabledTypes
  <2>2. i \in 1 .. L + 1
    OBVIOUS
  <2>. HIDE DEF c
  <2>. QED  BY <2>1, <2>2, EntrySums
<1>2. w \in Nat \ {0} /\ CountHalf \in Nat \ {0}
  BY TabledTypes
<1>3. at \in DOMAIN c.memory /\ c.memory[at] = IF i \in DOMAIN c.entries THEN c.entries[i] ELSE 0
  <2>1. \A k \in 1 .. Len(c.entries) + 1 :
          EntryStart(c)[k] <= Vdisp =>
            /\ (EntryAddress(c)[k] % c.width) + 1 \in DOMAIN c.memory
            /\ c.memory[(EntryAddress(c)[k] % c.width) + 1]
                 = IF k \in DOMAIN c.entries THEN c.entries[k] ELSE 0
    BY DEF Tabled, HoldsTable
  <2>. QED  BY <2>1
<1>4. e.line = c.memory[at]
  BY <1>3 DEF Memory
<1>8. a = g % w /\ g \in Nat /\ a \in Nat
  <2>1. a = g % w /\ g \in Nat
    BY <1>1
  <2>. HIDE DEF c, address, at, v, g, w
  <2>2. g \in Nat /\ w \in Nat \ {0}
    BY <1>2, <2>1
  <2>3. g \in Int
    BY <2>2
  <2>4. g % w \in Nat
    BY <2>2, <2>3, Modulo, Zenon
  <2>. QED  BY <2>1, <2>4
<1>5. CASE i = L + 1
  <2>1. i \notin DOMAIN c.entries
    <3>1. DOMAIN c.entries = 1 .. L /\ L \in Nat
      BY <1>1
    <3>. HIDE DEF L
    <3>. QED  BY <1>5, <3>1
  <2>2. e.line = 0
    BY <1>3, <1>4, <2>1
  <2>3. v >= start[L + 1]
    <3>1. start[i] \in Nat
      BY <1>1
    <3>. HIDE DEF start, L
    <3>. QED  BY <1>5, <3>1
  <2>. QED  BY <2>2, <2>3 DEF Reads
<1>6. CASE i \in 1 .. L
  <2> DEFINE b == c.entries[i]
             data == IF c.indirect THEN 2 ELSE c.length * Sent(b, (v - start[i]) + 0)
  <2>1. e.line = b /\ b \in Nat \ {0}
    <3>1. i \in DOMAIN c.entries /\ c.entries[i] \in 1 .. 2 * CountHalf - 1
      BY <1>1, <1>6
    <3>2. e.line = c.entries[i]
      BY <1>3, <1>4, <3>1
    <3>. QED  BY <1>2, <3>1, <3>2
  <2>2. v - start[i] = 0 /\ (v - start[i]) + 0 = 0
    <3>1. start[i] \in Nat
      BY <1>1
    <3>. HIDE DEF start
    <3>. QED  BY <3>1
  <2>3. data = IF c.indirect THEN 2 ELSE 0
    <3>1. Sent(b, (v - start[i]) + 0) = 0
      BY <2>2 DEF Sent
    <3>2. c.length * 0 = 0
      BY DEF Tabled
    <3>. QED  BY <3>1, <3>2
  <2>4. e.address = (g + 1 + data) % w
    <3>. HIDE DEF g, w, data
    <3>0. /\ a = g % w /\ g \in Nat /\ a \in Nat
          /\ \A k \in Nat : ((k % w) + 1) % w = (k + 1) % w
      <4>1. a = g % w /\ g \in Nat /\ a \in Nat
        BY <1>8 DEF g, w
      <4>2. w \in Nat \ {0}
        BY <1>2 DEF w
      <4>3. ASSUME NEW k \in Nat PROVE ((k % w) + 1) % w = (k + 1) % w
        <5>1. k \in Int /\ 1 \in Int
          OBVIOUS
        <5>. QED  BY <4>2, <5>1, ModAdd
      <4>. QED  BY <4>1, <4>3
    <3>1. Next16(n, a) = (g + 1) % w
      <4>1. Next16(n, a) = (a + 1) % w
        BY DEF Next16, w
      <4>. QED  BY <4>1, <3>0
    <3>2. Next16(n, Next16(n, a)) = (g + 2) % w
      <4>1. Next16(n, Next16(n, a)) = (((g + 1) % w) + 1) % w
        BY <3>1 DEF Next16, w
      <4>2. (((g + 1) % w) + 1) % w = ((g + 1) + 1) % w
        <5>1. g + 1 \in Nat /\ g + 2 \in Nat
          BY <3>0
        <5>. QED  BY <3>0, <5>1
      <4>3. (g + 1) + 1 = g + 2
        BY <3>0
      <4>. QED  BY <4>1, <4>2, <4>3
    <3>3. Next16(n, Next16(n, Next16(n, a))) = (g + 3) % w
      <4>1. Next16(n, Next16(n, Next16(n, a))) = (((g + 2) % w) + 1) % w
        BY <3>2 DEF Next16, w
      <4>2. (((g + 2) % w) + 1) % w = ((g + 2) + 1) % w
        <5>1. g + 1 \in Nat /\ g + 2 \in Nat
          BY <3>0
        <5>. QED  BY <3>0, <5>1
      <4>3. (g + 2) + 1 = g + 3
        BY <3>0
      <4>. QED  BY <4>1, <4>2, <4>3
    <3>4. CASE c.indirect
      <4>1. g + 1 + data = g + 3
        BY <2>3, <3>0, <3>4
      <4>. QED  BY <2>1, <3>3, <3>4, <4>1
    <3>5. CASE ~c.indirect
      <4>1. g + 1 + data = g + 1
        BY <2>3, <3>0, <3>5
      <4>. QED  BY <2>1, <3>1, <3>5, <4>1
    <3>. QED  BY <3>4, <3>5
  <2>5. v < start[i + 1] /\ start[i] <= v
    <3>1. start[i + 1] = start[i] + EntryLines(b) /\ EntryLines(b) \in Nat \ {0} /\ start[i] \in Nat
      BY <1>1, <1>6
    <3>. HIDE DEF start
    <3>. QED  BY <3>1
  <2>6. ~e.completed /\ e.transfer /\ e.line = b - (v - start[i])
    <3>1. e.completed = FALSE /\ e.transfer = TRUE
      BY <2>1
    <3>2. b - 0 = b
      BY <2>1
    <3>. QED  BY <2>1, <2>2, <3>1, <3>2
  <2>7. AtEntry(n, i, e, v, 0)
    BY <2>2, <2>4, <2>5, <2>6 DEF AtEntry
  <2>. QED  BY <1>6, <2>7 DEF Reads
<1>7. i = L + 1 \/ i \in 1 .. L
  <2>1. L \in Nat /\ i \in 1 .. L + 1
    BY <1>1
  <2>. HIDE DEF L
  <2>. QED  BY <2>1
<1>. QED  BY <1>5, <1>6, <1>7

\* A channel transfers on the lines its table says, and its address goes on with the data.
LEMMA ReadsMove ==
  ASSUME NEW n, Tabled(n), NEW v \in Nat, NEW d, Reads(n, d, v, 0), ~d.completed
  PROVE  /\ d.transfer <=> v \in TransferLines(n)
         /\ \A e : /\ e.line = d.line /\ e.completed = d.completed /\ e.transfer = d.transfer
                   /\ e.address = IF d.transfer /\ ~program.channel[n].indirect
                                    THEN (d.address + program.channel[n].length)
                                           % program.channel[n].width
                                    ELSE d.address
                   => Reads(n, e, v, 1)
<1> DEFINE c == program.channel[n]
           L == Len(c.entries)
           start == EntryStart(c)
           w == c.width
           l == c.length
<1>1. PICK i \in 1 .. L : AtEntry(n, i, d, v, 0)
  BY DEF Reads
<1> DEFINE b == c.entries[i]
           k == v - start[i]
           g == EntryAddress(c)[i]
           data(j) == IF c.indirect THEN 2 ELSE l * Sent(b, k + j)
<1>2. /\ start[i] <= v /\ v < start[i + 1] /\ d.line = b - k
      /\ d.transfer <=> (k = 0 \/ b > CountHalf)
      /\ d.address = (g + 1 + data(0)) % w
  BY <1>1 DEF AtEntry
<1>3. start[i] \in Nat /\ g \in Nat /\ b \in Nat /\ L \in Nat
  <2>1. HoldsTable(c) /\ l \in Nat /\ CountHalf \in Nat \ {0}
    BY DEF Tabled
  <2>2. /\ L \in Nat /\ \A q \in 1 .. L : c.entries[q] \in 1 .. 2 * CountHalf - 1
        /\ \A q \in 1 .. L + 1 : start[q] \in Nat /\ EntryAddress(c)[q] \in Nat
    <3>. HIDE DEF c
    <3>. QED  BY <2>1, EntrySums
  <2>3. i \in 1 .. L + 1
    <3>. HIDE DEF L
    <3>. QED  BY <2>2
  <2>. QED  BY <2>1, <2>2, <2>3
<1>4. k \in Nat
  <2>. HIDE DEF start
  <2>. QED  BY <1>2, <1>3
<1>5. w \in Nat \ {0} /\ l \in Nat /\ CountHalf \in Nat
  BY DEF Tabled, HoldsTable
<1>6. d.transfer <=> v \in TransferLines(n)
  <2>1. v \in TransferLines(n) <=> v = start[i] \/ b > CountHalf
    BY <1>2, TableLines DEF Tabled
  <2>2. k = 0 <=> v = start[i]
    <3>. HIDE DEF start
    <3>. QED  BY <1>3
  <2>. QED  BY <1>2, <2>1, <2>2
<1>7. /\ d.transfer /\ ~c.indirect => data(1) = data(0) + l /\ data(0) \in Nat
      /\ ~(d.transfer /\ ~c.indirect) => data(1) = data(0)
  <2>. HIDE DEF k, b, l
  <2>1. CASE c.indirect
    BY <2>1
  <2>2. CASE ~c.indirect /\ b > CountHalf
    <3>1. data(0) = l * k /\ data(1) = l * (k + 1)
      BY <1>4, <2>2 DEF Sent
    <3>2. l * (k + 1) = l * k + l /\ l * k \in Nat
      BY <1>4, <1>5
    <3>3. d.transfer
      BY <1>2, <2>2
    <3>. HIDE DEF data
    <3>. QED  BY <2>2, <3>1, <3>2, <3>3
  <2>3. CASE ~c.indirect /\ ~(b > CountHalf) /\ k = 0
    <3>1. Sent(b, k + 0) = 0 /\ Sent(b, k + 1) = 1
      BY <2>3 DEF Sent
    <3>2. data(0) = 0 /\ data(1) = l
      BY <1>5, <2>3, <3>1
    <3>3. d.transfer
      BY <1>2, <2>3
    <3>. HIDE DEF data
    <3>. QED  BY <1>5, <2>3, <3>2, <3>3
  <2>4. CASE ~c.indirect /\ ~(b > CountHalf) /\ k # 0
    <3>1. Sent(b, k + 0) = 1 /\ Sent(b, k + 1) = 1
      BY <1>4, <2>4 DEF Sent
    <3>2. data(1) = data(0)
      BY <3>1
    <3>3. ~d.transfer
      BY <1>2, <2>4
    <3>. QED  BY <3>2, <3>3
  <2>. QED  BY <2>1, <2>2, <2>3, <2>4
<1>8. ASSUME NEW e, e.line = d.line, e.completed = d.completed, e.transfer = d.transfer,
             e.address = IF d.transfer /\ ~c.indirect THEN (d.address + l) % w ELSE d.address
      PROVE  Reads(n, e, v, 1)
  <2>1. e.address = (g + 1 + data(1)) % w
    <3>1. CASE d.transfer /\ ~c.indirect
      <4>0. e.address = (d.address + l) % w
        BY <1>8, <3>1
      <4>. HIDE DEF data, g, w, l
      <4>1. data(1) = data(0) + l /\ data(0) \in Nat
        BY <1>7, <3>1
      <4>2. (((g + 1 + data(0)) % w) + l) % w = (g + 1 + data(0) + l) % w
        <5>1. g + 1 + data(0) \in Int /\ l \in Int
          BY <1>3, <1>5, <4>1
        <5>. QED  BY <1>5, <5>1, ModAdd
      <4>3. g + 1 + data(0) + l = g + 1 + data(1)
        BY <1>3, <1>5, <4>1
      <4>. QED  BY <1>2, <4>0, <4>2, <4>3
    <3>2. CASE ~(d.transfer /\ ~c.indirect)
      <4>1. e.address = d.address
        BY <1>8, <3>2
      <4>2. data(1) = data(0)
        BY <1>7, <3>2
      <4>. HIDE DEF data
      <4>. QED  BY <1>2, <4>1, <4>2
    <3>. QED  BY <3>1, <3>2
  <2>2. AtEntry(n, i, e, v, 1)
    BY <1>2, <1>8, <2>1 DEF AtEntry
  <2>. QED  BY <2>2 DEF Reads
<1>. QED  BY <1>6, <1>8

\* A count of a line is the count of the lines that an entry has left, and at its end the next
\* is loaded.
LEMMA CountLeft ==
  ASSUME NEW h \in Nat \ {0}, NEW b \in 1 .. 2 * h - 1, NEW k \in Nat, h = CountHalf,
         k < EntryLines(b)
  PROVE  LET left == (b - k + 2 * h - 1) % (2 * h) IN
         /\ left = b - (k + 1) /\ left \in Nat
         /\ Reloads(left) <=> k + 1 = EntryLines(b)
         /\ ~Reloads(left) => (left >= h <=> b > h)
<1>1. CASE b < h
  <2>1. b % h = b
    BY <1>1
  <2>2. EntryLines(b) = b
    BY <2>1 DEF EntryLines
  <2>3. (b - k + 2 * h - 1) % (2 * h) = b - (k + 1) /\ b - (k + 1) \in 0 .. h - 1
    BY <1>1, <2>2
  <2>4. (b - (k + 1)) % h = b - (k + 1)
    BY <2>3
  <2>. QED  BY <1>1, <2>2, <2>3, <2>4 DEF Reloads
<1>2. CASE b = h
  <2>1. b % h = 0
    BY <1>2
  <2>2. EntryLines(b) = h
    BY <2>1 DEF EntryLines
  <2>3. (b - k + 2 * h - 1) % (2 * h) = b - (k + 1) /\ b - (k + 1) \in 0 .. h - 1
    BY <1>2, <2>2
  <2>4. (b - (k + 1)) % h = b - (k + 1)
    BY <2>3
  <2>. QED  BY <1>2, <2>2, <2>3, <2>4 DEF Reloads
<1>3. CASE b > h
  <2>1. b % h = b - h
    BY <1>3
  <2>2. EntryLines(b) = b - h
    BY <1>3, <2>1 DEF EntryLines
  <2>3. (b - k + 2 * h - 1) % (2 * h) = b - (k + 1) /\ b - (k + 1) \in h .. 2 * h - 1
    BY <1>3, <2>2
  <2>4. (b - (k + 1)) % h = b - (k + 1) - h
    BY <2>3
  <2>. QED  BY <1>3, <2>2, <2>3, <2>4 DEF Reloads
<1>. QED  BY <1>1, <1>2, <1>3

\* A channel that reads a count at address a is now in state e.
Loaded(n, a, e) ==
  /\ e.line = Memory(n, a) /\ e.completed = (e.line = 0) /\ e.transfer = (e.line # 0)
  /\ e.line # 0 =>
       e.address = IF program.channel[n].indirect
                     THEN Next16(n, Next16(n, Next16(n, a))) ELSE Next16(n, a)

\* The count of a line comes to the next, in the same entry or in the one after it.
LEMMA ReadsCount ==
  ASSUME NEW n, Tabled(n), NEW v \in Nat, v + 1 <= Vdisp, NEW d, Reads(n, d, v, 1), ~d.completed,
         NEW left, left = (d.line + 2 * CountHalf - 1) % (2 * CountHalf), NEW e,
         IF Reloads(left) THEN Loaded(n, d.address, e)
         ELSE /\ e.line = left /\ e.completed = d.completed /\ e.transfer = (left >= CountHalf)
              /\ e.address = d.address
  PROVE  Reads(n, e, v + 1, 0)
<1> DEFINE c == program.channel[n]
           L == Len(c.entries)
           start == EntryStart(c)
           address == EntryAddress(c)
           w == c.width
           l == c.length
           h == CountHalf
<1>1. PICK i \in 1 .. L : AtEntry(n, i, d, v, 1)
  BY DEF Reads
<1> DEFINE b == c.entries[i]
           k == v - start[i]
           K == (v + 1) - start[i]
           g == address[i]
           data == IF c.indirect THEN 2 ELSE l * Sent(b, k + 1)
<1>2. /\ start[i] <= v /\ v < start[i + 1] /\ d.line = b - k
      /\ d.transfer <=> (k = 0 \/ b > CountHalf)
      /\ d.address = (g + 1 + data) % w
  BY <1>1 DEF AtEntry
<1>3. HoldsTable(c) /\ l \in Nat /\ h \in Nat \ {0} /\ w \in Nat \ {0}
  BY DEF Tabled, HoldsTable
<1>4. /\ L \in Nat /\ \A q \in 1 .. L + 1 : start[q] \in Nat /\ address[q] \in Nat
      /\ \A q \in 1 .. L : /\ c.entries[q] \in 1 .. 2 * h - 1
                           /\ EntryLines(c.entries[q]) \in Nat \ {0}
                           /\ start[q + 1] = start[q] + EntryLines(c.entries[q])
                           /\ address[q + 1] = address[q] + EntrySize(c, c.entries[q])
  <2>. HIDE DEF c
  <2>. QED  BY <1>3, EntrySums
<1>5. /\ i \in 1 .. L + 1 /\ i + 1 \in 1 .. L + 1
  <2>. HIDE DEF L
  <2>. QED  BY <1>4
<1>6. /\ start[i] \in Nat /\ g \in Nat /\ b \in 1 .. 2 * h - 1 /\ EntryLines(b) \in Nat \ {0}
      /\ start[i + 1] = start[i] + EntryLines(b)
      /\ address[i + 1] = g + EntrySize(c, b)
  BY <1>4, <1>5
<1>7. k \in Nat /\ k < EntryLines(b) /\ K = k + 1
  <2>1. /\ start[i] <= v /\ v < start[i + 1] /\ start[i] \in Nat
        /\ EntryLines(b) \in Nat /\ start[i + 1] = start[i] + EntryLines(b)
    BY <1>2, <1>6
  <2>2. /\ v - start[i] \in Nat /\ v - start[i] < EntryLines(b)
        /\ (v + 1) - start[i] = (v - start[i]) + 1
    <3>. HIDE DEF start, b
    <3>. QED  BY <2>1, Offset
  <2>. QED  BY <2>2
<1>8. /\ left = b - (k + 1) /\ left \in Nat
      /\ Reloads(left) <=> k + 1 = EntryLines(b)
      /\ ~Reloads(left) => (left >= h <=> b > h)
  <2>1. left = (b - k + 2 * h - 1) % (2 * h)
    BY <1>2
  <2>2. h \in Nat \ {0} /\ b \in 1 .. 2 * h - 1 /\ k \in Nat /\ k < EntryLines(b)
    BY <1>3, <1>6, <1>7
  <2>. HIDE DEF b, k
  <2>3. LET x == (b - k + 2 * h - 1) % (2 * h) IN
        /\ x = b - (k + 1) /\ x \in Nat
        /\ Reloads(x) <=> k + 1 = EntryLines(b)
        /\ ~Reloads(x) => (x >= h <=> b > h)
    BY <2>2, CountLeft
  <2>. QED  BY <2>1, <2>3
<1>9. CASE ~Reloads(left)
  <2>1. start[i] <= v + 1 /\ v + 1 < start[i + 1]
    <3>. HIDE DEF start, b
    <3>1. k + 1 # EntryLines(b)
      BY <1>8, <1>9
    <3>2. /\ start[i] <= v /\ v < start[i + 1] /\ start[i] \in Nat
          /\ EntryLines(b) \in Nat /\ start[i + 1] = start[i] + EntryLines(b)
      BY <1>2, <1>6
    <3>. QED  BY <3>1, <3>2
  <2>2. e.line = b - K
    BY <1>7, <1>8, <1>9
  <2>3. e.transfer <=> (K = 0 \/ b > CountHalf)
    <3>1. e.transfer = (left >= h) /\ (left >= h <=> b > h)
      BY <1>8, <1>9
    <3>2. K # 0
      <4>. HIDE DEF k, K
      <4>. QED  BY <1>7
    <3>. HIDE DEF K, b
    <3>. QED  BY <3>1, <3>2
  <2>4. e.address = (g + 1 + (IF c.indirect THEN 2 ELSE l * Sent(b, K + 0))) % w
    <3>1. K + 0 = k + 1
      <4>. HIDE DEF k, K
      <4>. QED  BY <1>7
    <3>2. e.address = d.address
      BY <1>9
    <3>. QED  BY <1>2, <3>1, <3>2
  <2>5. AtEntry(n, i, e, v + 1, 0)
    BY <1>9, <2>1, <2>2, <2>3, <2>4 DEF AtEntry
  <2>. QED  BY <2>5 DEF Reads
<1>10. CASE Reloads(left)
  <2>1. k + 1 = EntryLines(b)
    BY <1>8, <1>10
  <2>2. v + 1 = start[i + 1]
    <3>1. v - start[i] = k /\ start[i] \in Nat /\ start[i + 1] = start[i] + (k + 1)
      BY <1>6, <2>1
    <3>. HIDE DEF start, k
    <3>. QED  BY <3>1
  <2>3. d.address = address[i + 1] % w
    <3>1. 1 + data = EntrySize(c, b)
      <4>1. CASE c.indirect
        BY <4>1 DEF EntrySize
      <4>2. CASE ~c.indirect
        <5>1. Sent(b, k + 1) = IF b > h THEN EntryLines(b) ELSE 1
          <6>. HIDE DEF k, b
          <6>. QED  BY <1>7, <2>1 DEF Sent
        <5>. QED  BY <4>2, <5>1 DEF EntrySize
      <4>. QED  BY <4>1, <4>2
    <3>2. data \in Nat
      <4>1. CASE c.indirect
        BY <4>1
      <4>2. CASE ~c.indirect
        <5>1. Sent(b, k + 1) \in Nat
          <6>. HIDE DEF k, b
          <6>. QED  BY <1>7 DEF Sent
        <5>2. \A x, y \in Nat : x * y \in Nat
          OBVIOUS
        <5>. QED  BY <1>3, <4>2, <5>1, <5>2
      <4>. QED  BY <4>1, <4>2
    <3>. HIDE DEF data, g, b
    <3>3. g + 1 + data = g + EntrySize(c, b)
      BY <1>6, <3>1, <3>2
    <3>. QED  BY <1>2, <1>6, <3>3
  <2>4. Loaded(n, d.address, e)
    BY <1>10
  <2>5. Reads(n, e, start[i + 1], 0)
    <3>1. start[i + 1] <= Vdisp
      BY <2>2
    <3>. QED  BY <1>5, <2>3, <2>4, <3>1, ReadsLoad DEF Loaded
  <2>. QED  BY <2>2, <2>5
<1>. QED  BY <1>9, <1>10

\* A frame begins with the first entry.
LEMMA ReadsBegin ==
  ASSUME NEW n, Tabled(n), NEW e, Loaded(n, 0, e)
  PROVE  Reads(n, e, 0, 0)
<1> DEFINE c == program.channel[n]
           L == Len(c.entries)
<1>1. HoldsTable(c) /\ c.length \in Nat /\ CountHalf \in Nat \ {0} /\ c.width \in Nat \ {0}
  BY DEF Tabled, HoldsTable
<1>2. L \in Nat /\ EntryStart(c)[1] = 0 /\ EntryAddress(c)[1] = 0
  <2>. HIDE DEF c
  <2>. QED  BY <1>1, EntrySums
<1>3. 0 = EntryAddress(c)[1] % c.width /\ 1 \in 1 .. L + 1 /\ EntryStart(c)[1] <= Vdisp
  <2>1. 0 % c.width = 0 /\ Vdisp \in Nat
    BY <1>1 DEF Tabled
  <2>2. 1 \in 1 .. L + 1
    <3>. HIDE DEF L
    <3>. QED  BY <1>2
  <2>. QED  BY <1>2, <2>1, <2>2
<1>4. Reads(n, e, EntryStart(c)[1], 0)
  BY <1>3, ReadsLoad DEF Loaded
<1>. QED  BY <1>2, <1>4

-----------------------------------------------------------------------------
(* Time, as H-DMA sees it *)

LineNow(m) == LineOf(m.clock.at)
Dot(m)     == m.clock.at % Line

\* The line and the dot of a position, and those of the next one.
LEMMA Place ==
  ASSUME NEW at \in 0 .. Frame - 1
  PROVE  at % Line \in 0 .. Line - 1 /\ LineOf(at) \in 0 .. Lines - 1
<1>1. Line \in Nat \ {0} /\ Lines \in Nat \ {0} /\ Frame = Line * Lines
  BY CpuAssumption DEF Frame
<1>2. Frame \in Nat
  BY FrameIsPositive
<1>3. at \in Nat /\ at < Frame
  BY <1>2
<1>4. PICK q \in Int :
        \E s \in 0 .. Line - 1 : q = at \div Line /\ s = at % Line /\ at = Line * q + s
  BY <1>1, <1>3, Division
<1>5. PICK s \in 0 .. Line - 1 : s = at % Line /\ at = Line * q + s
  BY <1>4
<1>6. LineOf(at) = q
  BY <1>4 DEF LineOf
<1>7. q >= 0
  <2>1. SUFFICES ASSUME q < 0 PROVE FALSE
    OBVIOUS
  <2>2. Line * q <= 0 - Line
    <3>1. 0 - 1 - q \in Nat /\ Line * (0 - 1 - q) >= 0 /\ Line * (0 - 1 - q) = 0 - Line - Line * q
      BY <1>1, <2>1
    <3>. QED  BY <1>1, <3>1
  <2>. QED  BY <1>1, <1>3, <1>5, <2>2
<1>8. q < Lines
  <2>1. SUFFICES ASSUME q >= Lines PROVE FALSE
    BY <1>1
  <2>2. Line * (q - Lines) >= 0 /\ Line * (q - Lines) = Line * q - Line * Lines
    BY <1>1, <2>1
  <2>. QED  BY <1>1, <1>3, <1>5, <2>2
<1>. QED  BY <1>1, <1>5, <1>6, <1>7, <1>8

LEMMA NextPlace ==
  ASSUME NEW at \in 0 .. Frame - 1
  PROVE  LET next == (at + 1) % Frame IN
         /\ next \in 0 .. Frame - 1
         /\ next % Line = 0 <=> ~((at % Line) + 1 < Line)
         /\ (at % Line) + 1 < Line => next % Line = (at % Line) + 1 /\ LineOf(next) = LineOf(at)
         /\ ~((at % Line) + 1 < Line) =>
              LineOf(next) = IF LineOf(at) = Lines - 1 THEN 0 ELSE LineOf(at) + 1
<1> DEFINE next == (at + 1) % Frame
           s == at % Line
           l == LineOf(at)
<1>1. Line \in Nat \ {0} /\ Lines \in Nat \ {0} /\ Frame = Line * Lines
  BY CpuAssumption DEF Frame
<1>2. Frame \in Nat \ {0}
  BY FrameIsPositive
<1>3. at \in Nat /\ at < Frame
  BY <1>2
<1>4. s \in 0 .. Line - 1 /\ l \in 0 .. Lines - 1
  BY Place
<1>5. at = Line * l + s
  <2>1. PICK q \in Int :
          \E t \in 0 .. Line - 1 : q = at \div Line /\ t = at % Line /\ at = Line * q + t
    BY <1>1, <1>3, Division
  <2>. QED  BY <2>1 DEF LineOf
<1>6. next = IF at = Frame - 1 THEN 0 ELSE at + 1
  BY NextPosition
<1>7. next \in 0 .. Frame - 1
  BY <1>2, <1>3, <1>6
<1>8. PICK q \in Int :
        \E t \in 0 .. Line - 1 : q = next \div Line /\ t = next % Line /\ next = Line * q + t
  <2>1. next \in Int
    BY <1>2, <1>7
  <2>. HIDE DEF next
  <2>. QED  BY <1>1, <2>1, Division
<1>9. PICK t \in 0 .. Line - 1 : t = next % Line /\ next = Line * q + t
  BY <1>8
<1>10. LineOf(next) = q
  BY <1>8 DEF LineOf
<1>. HIDE DEF next, s, l
<1>11. CASE s + 1 < Line
  <2>1. at # Frame - 1
    <3>1. SUFFICES ASSUME at = Frame - 1 PROVE FALSE
      OBVIOUS
    <3>2. Lines - l \in Nat \ {0} /\ Line * (Lines - l) = Line * Lines - Line * l
      BY <1>1, <1>4
    <3>3. Line * (Lines - l) >= Line
      BY <1>1, <3>2
    <3>4. Line * l \in Int /\ Line * Lines \in Int
      BY <1>1, <1>4
    <3> DEFINE x == Line * l
               y == Line * Lines
    <3>5. x \in Int /\ y \in Int /\ y - x >= Line /\ at = x + s /\ at = y - 1
      BY <1>1, <1>5, <3>1, <3>2, <3>3, <3>4
    <3>. HIDE DEF x, y
    <3>. QED  BY <1>1, <1>4, <1>11, <3>5
  <2>2. Line * q + t = Line * l + (s + 1) /\ s + 1 \in 0 .. Line - 1 /\ l \in Int
    <3>1. next = at + 1
      BY <1>6, <2>1
    <3>2. Line * l \in Int /\ s + 1 \in 0 .. Line - 1 /\ l \in Int
      BY <1>1, <1>4, <1>11
    <3>3. next = Line * q + t
      BY <1>9
    <3> DEFINE x == Line * l
               y == Line * q
    <3>4. x \in Int /\ at = x + s /\ next = y + t
      BY <1>5, <3>2, <3>3
    <3>. HIDE DEF x, y
    <3>5. y + t = x + (s + 1)
      BY <1>4, <3>1, <3>4
    <3>. QED  BY <3>2, <3>5 DEF x, y
  <2>3. t = s + 1 /\ q = l
    BY <1>1, <2>2, Remainder
  <2>. QED  BY <1>1, <1>4, <1>7, <1>9, <1>10, <1>11, <2>3 DEF next, s, l
<1>12. CASE ~(s + 1 < Line)
  <2>1. s + 1 = Line
    BY <1>1, <1>4, <1>12
  <2>2. Line * (l + 1) = Line * l + Line /\ Line * l \in Int /\ l \in Int /\ l + 1 \in Int
    BY <1>1, <1>4
  <2>3. at + 1 = Line * (l + 1)
    BY <1>1, <1>4, <1>5, <2>1, <2>2
  <2>4. 0 \in 0 .. Line - 1
    BY <1>1
  <2>5. at = Frame - 1 <=> l = Lines - 1
    <3>1. ASSUME at = Frame - 1 PROVE l = Lines - 1
      <4>1. Line * (l + 1) + 0 = Line * Lines + 0 /\ Lines \in Int
        <5>1. Line * Lines \in Int /\ Line * (l + 1) \in Int
          BY <1>1, <2>2
        <5>. QED  BY <1>1, <1>3, <2>3, <3>1, <5>1
      <4>2. l + 1 = Lines
        BY <1>1, <2>2, <2>4, <4>1, Remainder
      <4>. QED  BY <1>1, <1>4, <4>2
    <3>2. ASSUME l = Lines - 1 PROVE at = Frame - 1
      <4>1. l + 1 = Lines
        BY <1>1, <1>4, <3>2
      <4>. QED  BY <1>1, <1>3, <2>3, <4>1
    <3>. QED  BY <3>1, <3>2
  <2>6. CASE l = Lines - 1
    <3>1. Line * q + t = Line * 0 + 0
      <4>1. next = 0 /\ Line * 0 + 0 = 0
        BY <1>1, <1>6, <2>5, <2>6
      <4>. QED  BY <1>9, <4>1
    <3>2. t = 0 /\ q = 0
      <4>1. 0 \in Int
        OBVIOUS
      <4>. QED  BY <1>1, <2>4, <3>1, <4>1, Remainder
    <3>. QED  BY <1>7, <1>9, <1>10, <1>12, <2>6, <3>2 DEF next, s, l
  <2>7. CASE l # Lines - 1
    <3>1. Line * q + t = Line * (l + 1) + 0
      <4>1. next = at + 1 /\ Line * (l + 1) \in Int
        BY <1>1, <1>6, <2>2, <2>5, <2>7
      <4>2. next = Line * q + t
        BY <1>9
      <4> DEFINE x == Line * (l + 1)
                 y == Line * q
      <4>3. x \in Int /\ at + 1 = x /\ next = at + 1 /\ next = y + t
        BY <2>3, <4>1, <4>2
      <4>. HIDE DEF x, y
      <4>4. y + t = x + 0
        BY <4>3
      <4>. QED  BY <4>4 DEF x, y
    <3>2. t = 0 /\ q = l + 1
      BY <1>1, <2>2, <2>4, <3>1, Remainder
    <3>. QED  BY <1>7, <1>9, <1>10, <1>12, <2>7, <3>2 DEF next, s, l
  <2>. QED  BY <2>6, <2>7
<1>. QED  BY <1>11, <1>12 DEF s

\* Neither the state of the tables has changed from m to r, nor the H-DMA that is pending.
Unserved(m, r) ==
  /\ r.dma.hdmaPending = m.dma.hdmaPending /\ r.dma.hdmaMode = m.dma.hdmaMode
  /\ TablesKept(m, r)

\* From m to r, u units have passed, and the end of at most one line.
Passed(m, r, u) ==
  /\ Unserved(m, r) /\ r.clock.at \in 0 .. Frame - 1
  /\ Dot(m) + u < Line =>
       /\ Dot(r) = Dot(m) + u /\ LineNow(r) = LineNow(m)
       /\ (r.clock.init <=> m.clock.init) /\ (r.clock.run <=> m.clock.run)
  /\ ~(Dot(m) + u < Line) =>
       /\ Dot(r) = Dot(m) + u - Line
       /\ LineNow(r) = IF LineNow(m) = Lines - 1 THEN 0 ELSE LineNow(m) + 1
       /\ r.clock.init <=> m.clock.init /\ LineNow(r) # 0
       /\ r.clock.run <=> m.clock.run /\ LineNow(r) >= Vdisp

InFrame(m) == m.clock.at \in 0 .. Frame - 1

LEMMA Places ==
  ASSUME NEW m, InFrame(m)
  PROVE  Dot(m) \in 0 .. Line - 1 /\ LineNow(m) \in 0 .. Lines - 1
BY Place DEF InFrame, Dot, LineNow

LEMMA Sizes ==
  /\ {Line, Lines, Vdisp, InitPosition, HdmaPosition, Access, CountHalf} \subseteq Nat \ {0}
  /\ Vdisp < Lines /\ InitPosition < HdmaPosition /\ HdmaPosition < Line /\ Access < Line
BY CpuAssumption

LEMMA UnservedTransitive ==
  ASSUME NEW l, NEW m, NEW r, Unserved(l, m), Unserved(m, r)
  PROVE  Unserved(l, r)
BY DEF Unserved, TablesKept

\* No time has passed.
LEMMA PassedStill ==
  ASSUME NEW m, NEW r, InFrame(m), r.clock = m.clock, Unserved(m, r)
  PROVE  Passed(m, r, 0)
<1>1. Dot(m) + 0 < Line /\ Dot(m) + 0 = Dot(m)
  BY Places, Sizes
<1>2. Dot(r) = Dot(m) /\ LineNow(r) = LineNow(m)
  BY DEF Dot, LineNow
<1>. QED  BY <1>1, <1>2 DEF Passed, InFrame

LEMMA PassedTransitive ==
  ASSUME NEW l, NEW m, NEW r, NEW u \in Nat, NEW w \in Nat, InFrame(l), InFrame(m),
         Passed(l, m, u), Passed(m, r, w), Dot(l) + u + w < 2 * Line
  PROVE  Passed(l, r, u + w)
<1>1. Unserved(l, r) /\ r.clock.at \in 0 .. Frame - 1
  BY UnservedTransitive DEF Passed
<1>2. /\ Dot(l) \in 0 .. Line - 1 /\ LineNow(l) \in 0 .. Lines - 1
      /\ Dot(m) \in 0 .. Line - 1 /\ LineNow(m) \in 0 .. Lines - 1
      /\ Dot(r) \in 0 .. Line - 1 /\ LineNow(r) \in 0 .. Lines - 1
  BY <1>1, Places DEF InFrame
<1>3. Line \in Nat \ {0} /\ Lines \in Nat \ {0} /\ Vdisp \in Nat
  BY Sizes
<1>4. /\ Dot(l) + u < Line =>
           /\ Dot(m) = Dot(l) + u /\ LineNow(m) = LineNow(l)
           /\ (m.clock.init <=> l.clock.init) /\ (m.clock.run <=> l.clock.run)
      /\ ~(Dot(l) + u < Line) =>
           /\ Dot(m) = Dot(l) + u - Line
           /\ LineNow(m) = IF LineNow(l) = Lines - 1 THEN 0 ELSE LineNow(l) + 1
           /\ m.clock.init <=> l.clock.init /\ LineNow(m) # 0
           /\ m.clock.run <=> l.clock.run /\ LineNow(m) >= Vdisp
  BY DEF Passed
<1>5. /\ Dot(m) + w < Line =>
           /\ Dot(r) = Dot(m) + w /\ LineNow(r) = LineNow(m)
           /\ (r.clock.init <=> m.clock.init) /\ (r.clock.run <=> m.clock.run)
      /\ ~(Dot(m) + w < Line) =>
           /\ Dot(r) = Dot(m) + w - Line
           /\ LineNow(r) = IF LineNow(m) = Lines - 1 THEN 0 ELSE LineNow(m) + 1
           /\ r.clock.init <=> m.clock.init /\ LineNow(r) # 0
           /\ r.clock.run <=> m.clock.run /\ LineNow(r) >= Vdisp
  BY DEF Passed
<1>6. CASE Dot(l) + u < Line /\ Dot(m) + w < Line
  <2>1. Dot(l) + (u + w) < Line
    BY <1>2, <1>3, <1>4, <1>6
  <2>2. Dot(r) = Dot(l) + (u + w)
    BY <1>2, <1>4, <1>5, <1>6
  <2>. QED  BY <1>1, <1>4, <1>5, <1>6, <2>1, <2>2 DEF Passed
<1>7. CASE Dot(l) + u < Line /\ ~(Dot(m) + w < Line)
  <2>1. ~(Dot(l) + (u + w) < Line)
    BY <1>2, <1>3, <1>4, <1>7
  <2>2. Dot(r) = Dot(l) + (u + w) - Line
    BY <1>2, <1>3, <1>4, <1>5, <1>7
  <2>. QED  BY <1>1, <1>4, <1>5, <1>7, <2>1, <2>2 DEF Passed
<1>8. CASE ~(Dot(l) + u < Line) /\ Dot(m) + w < Line
  <2>1. ~(Dot(l) + (u + w) < Line)
    BY <1>2, <1>3, <1>8
  <2>2. Dot(r) = Dot(l) + (u + w) - Line
    BY <1>2, <1>3, <1>4, <1>5, <1>8
  <2>. QED  BY <1>1, <1>4, <1>5, <1>8, <2>1, <2>2 DEF Passed
<1>9. CASE ~(Dot(l) + u < Line) /\ ~(Dot(m) + w < Line)
  BY <1>2, <1>3, <1>4, <1>9
<1>. QED  BY <1>6, <1>7, <1>8, <1>9

\* A unit passes.
LEMMA TickPassed ==
  ASSUME NEW m, Shape(m), InFrame(m)
  PROVE  Passed(m, Tick(m), 1)
<1> DEFINE r == Tick(m)
           at == m.clock.at
           next == (at + 1) % Frame
           c == [m.clock EXCEPT !.at = (@ + 1) % Frame]
<1>1. /\ r.dma = m.dma /\ r.channel = m.channel /\ r.clock.at = next
      /\ r.ghost.clean = m.ghost.clean /\ r.ghost.moves = m.ghost.moves
  BY TickFields DEF GhostFields
<1>2. Unserved(m, r)
  BY <1>1 DEF Unserved, TablesKept
<1>3. /\ next \in 0 .. Frame - 1
      /\ next % Line = 0 <=> ~((at % Line) + 1 < Line)
      /\ (at % Line) + 1 < Line => next % Line = (at % Line) + 1 /\ LineOf(next) = LineOf(at)
      /\ ~((at % Line) + 1 < Line) =>
           LineOf(next) = IF LineOf(at) = Lines - 1 THEN 0 ELSE LineOf(at) + 1
  BY NextPlace DEF InFrame
<1>4. /\ c.at = next /\ c.init = m.clock.init /\ c.run = m.clock.run
      /\ DOMAIN c = {"at", "init", "run"}
  BY DEF Shape
<1>. HIDE DEF next, at
<1>5. r.clock = IF next % Line = 0 THEN Scanline(c) ELSE c
  <2>1. DOMAIN m = Fields /\ DOMAIN m.ghost = GhostFields /\ DOMAIN m.irq = IrqFields
    BY DEF Shape
  <2> DEFINE d == IF c.at % Line = 0 THEN Scanline(c) ELSE c
  <2>2. r.clock = d
    BY <2>1 DEF Tick, Fields
  <2>. HIDE DEF c, r
  <2>. QED  BY <1>4, <2>2
<1>. HIDE DEF c, r
<1>6. /\ Scanline(c).init <=> c.init /\ LineOf(next) # 0
      /\ Scanline(c).run <=> c.run /\ LineOf(next) >= Vdisp
  BY <1>4 DEF Scanline
<1>7. /\ Dot(r) = next % Line /\ LineNow(r) = LineOf(next) /\ Dot(m) = at % Line
      /\ LineNow(m) = LineOf(at) /\ Dot(m) \in 0 .. Line - 1 /\ Line \in Nat \ {0}
  BY <1>1, Places, Sizes DEF Dot, LineNow, at
<1>8. CASE Dot(m) + 1 < Line
  <2>1. r.clock = c
    BY <1>3, <1>5, <1>7, <1>8
  <2>. QED  BY <1>1, <1>2, <1>3, <1>4, <1>7, <1>8, <2>1 DEF Passed, r
<1>9. CASE ~(Dot(m) + 1 < Line)
  <2>1. r.clock = Scanline(c)
    BY <1>3, <1>5, <1>7, <1>9
  <2>2. next % Line = Dot(m) + 1 - Line
    BY <1>3, <1>7, <1>9
  <2>. QED  BY <1>1, <1>2, <1>3, <1>4, <1>6, <1>7, <1>9, <2>1, <2>2 DEF Passed, r
<1>. QED  BY <1>8, <1>9

\* Up to a line passes.
LEMMA StepPassed ==
  ASSUME NEW m, Shape(m), InFrame(m), NEW units \in Nat, units <= Line
  PROVE  Passed(m, Step(m, units), units)
<1> DEFINE f == After(m, units)
           S == {k \in Nat : k <= units => Shape(f[k]) /\ Passed(m, f[k], k)}
<1>0. /\ Step(m, units) = f[units] /\ f[0] = Unlocked(m)
      /\ \A u \in 1 .. units : f[u] = Tick(f[u - 1])
  BY AfterExists
<1>. HIDE DEF f
<1>1. 0 \in S
  <2> DEFINE r == [m EXCEPT !.irq.lock = FALSE]
  <2>1. /\ r.clock = m.clock /\ r.dma = m.dma /\ r.channel = m.channel
        /\ r.ghost = m.ghost
    BY DEF Shape, Fields
  <2>2. f[0] = r
    BY <1>0 DEF Unlocked
  <2>3. Shape(r)
    BY LockLater DEF Later, Same
  <2>. HIDE DEF r
  <2>4. Unserved(m, r)
    BY <2>1 DEF Unserved, TablesKept
  <2>. QED  BY <2>1, <2>2, <2>3, <2>4, PassedStill
<1>2. ASSUME NEW k \in S PROVE k + 1 \in S
  <2>1. SUFFICES ASSUME k + 1 <= units
                 PROVE  Shape(f[k + 1]) /\ Passed(m, f[k + 1], k + 1)
    OBVIOUS
  <2>2. k \in Nat /\ Shape(f[k]) /\ Passed(m, f[k], k)
    BY <2>1
  <2>3. f[k + 1] = Tick(f[k])
    <3>1. k + 1 \in 1 .. units /\ k + 1 - 1 = k
      BY <2>1, <2>2
    <3>. QED  BY <3>1, <1>0
  <2>4. InFrame(f[k])
    BY <2>2 DEF Passed, InFrame
  <2>5. Passed(f[k], f[k + 1], 1)
    BY <2>2, <2>3, <2>4, TickPassed
  <2>6. Dot(m) + k + 1 < 2 * Line
    BY <2>1, <2>2, Places, Sizes
  <2>7. Passed(m, f[k + 1], k + 1)
    BY <2>2, <2>4, <2>5, <2>6, PassedTransitive
  <2>. QED  BY <2>2, <2>3, <2>7, TickSame DEF Same
<1>3. units \in S
  BY <1>1, <1>2, SetInduction
<1>. QED  BY <1>0, <1>3

\* What takes no time may come before or after.
LEMMA PassedAfter ==
  ASSUME NEW l, NEW m, NEW r, NEW u, l.clock = m.clock, Unserved(l, m), Passed(m, r, u)
  PROVE  Passed(l, r, u)
<1>1. Unserved(l, r)
  BY UnservedTransitive DEF Passed
<1>2. Dot(l) = Dot(m) /\ LineNow(l) = LineNow(m)
  BY DEF Dot, LineNow
<1>. QED  BY <1>1, <1>2 DEF Passed

LEMMA PassedBefore ==
  ASSUME NEW l, NEW m, NEW r, NEW u, Passed(l, m, u), r.clock = m.clock, Unserved(m, r)
  PROVE  Passed(l, r, u)
<1>1. Unserved(l, r)
  BY UnservedTransitive DEF Passed
<1>2. Dot(r) = Dot(m) /\ LineNow(r) = LineNow(m)
  BY DEF Dot, LineNow
<1>. QED  BY <1>1, <1>2 DEF Passed

LEMMA DmaStepPassed ==
  ASSUME NEW m, Shape(m), InFrame(m), NEW units \in Nat, units <= Line
  PROVE  Passed(m, DmaStep(m, units), units)
<1> DEFINE x == "clocks"
           k == (m.dma.clocks + units) % Access
           r == [m EXCEPT !.dma[x] = k]
<1>1. k \in 0 .. Access - 1 /\ k \in Nat
  <2>1. Access \in Nat \ {0}
    BY Sizes
  <2>2. m.dma.clocks + units \in Int
    BY <2>1 DEF Shape
  <2>. QED  BY <2>1, <2>2, Modulo
<1>2. DmaStep(m, units) = Step(r, units)
  BY DEF DmaStep
<1>. HIDE DEF k
<1>3. Later(m, r) /\ r.clock = m.clock
  BY <1>1, CountersLater
<1>4. r.ghost = m.ghost
  BY DEF Shape, Fields
<1>. HIDE DEF r
<1>5. Unserved(m, r)
  BY <1>3, <1>4 DEF Unserved, TablesKept, Later, Same, Transfers
<1>6. Passed(r, Step(r, units), units)
  BY <1>3, StepPassed DEF Later, Same, InFrame
<1>. QED  BY <1>2, <1>3, <1>5, <1>6, PassedAfter

LEMMA AlignPassed ==
  ASSUME NEW m, Shape(m), InFrame(m), Line >= 2
  PROVE  \E u \in 1 .. 2 : Passed(m, Align(m), u)
<1>1. 2 - (m.clock.at % 2) \in 1 .. 2
  BY DEF Shape
<1>2. Line \in Nat
  BY Sizes
<1>. QED  BY <1>1, <1>2, DmaStepPassed DEF Align

LEMMA SpendPassed ==
  ASSUME NEW m, Shape(m), InFrame(m), m.dma.spent <= Line
  PROVE  Passed(m, Spend(m), m.dma.spent)
<1> DEFINE x == "spent"
           u == m.dma.spent
           r == [m EXCEPT !.dma[x] = 0]
<1>1. u \in Nat
  BY DEF Shape
<1>2. Later(m, r) /\ r.clock = m.clock
  BY CountersLater
<1>3. r.ghost = m.ghost
  BY DEF Shape, Fields
<1>4. Spend(m) = DmaStep(r, u)
  BY DEF Spend
<1>. HIDE DEF r
<1>5. Unserved(m, r)
  BY <1>2, <1>3 DEF Unserved, TablesKept, Later, Same, Transfers
<1>6. Passed(r, DmaStep(r, u), u)
  BY <1>1, <1>2, DmaStepPassed DEF Later, Same, InFrame
<1>. QED  BY <1>2, <1>4, <1>5, <1>6, PassedAfter

LEMMA InactivePassed ==
  ASSUME NEW m, Shape(m), InFrame(m)
  PROVE  \E u \in 0 .. Access : Passed(m, Inactive(m), u)
<1> DEFINE u == Access - m.dma.clocks
           s == Step(m, u)
           r == [s EXCEPT !.dma.active = FALSE, !.ghost.withdrawn = FALSE]
<1>1. u \in 0 .. Access /\ u \in Nat /\ u <= Line
  BY Sizes DEF Shape
<1>. HIDE DEF u
<1>2. Later(m, s) /\ Passed(m, s, u)
  BY <1>1, StepLater, StepPassed
<1>. HIDE DEF s
<1>3. Shape(s)
  BY <1>2 DEF Later, Same
<1>4. /\ r.clock = s.clock /\ r.channel = s.channel /\ r.ghost.clean = s.ghost.clean
      /\ r.ghost.moves = s.ghost.moves
      /\ r.dma.hdmaPending = s.dma.hdmaPending /\ r.dma.hdmaMode = s.dma.hdmaMode
  BY <1>3 DEF Shape, Fields, GhostFields, DmaFields
<1>5. Inactive(m) = r
  BY DEF Inactive, s, u
<1>. HIDE DEF r
<1>6. Unserved(s, r)
  BY <1>4 DEF Unserved, TablesKept
<1>7. Passed(m, r, u)
  BY <1>2, <1>4, <1>6, PassedBefore
<1>. QED  BY <1>1, <1>5, <1>7

-----------------------------------------------------------------------------
(* H-DMA is on time, and each channel where its table is *)

\* The last dot at which it begins its tables.
Late == InitPosition - 1 + Delay

\* H-DMA is where it is in its frame; q units may pass until an H-DMA that is not pending is
\* looked for, p until one that is pending is done.
OnTime(m, q, p) ==
  /\ LineNow(m) >= Vdisp => m.clock.init /\ m.clock.run /\ ~m.dma.hdmaPending
  /\ LineNow(m) > 0 => m.clock.init
  /\ ~m.clock.init => ~m.clock.run /\ ~m.dma.hdmaPending /\ Dot(m) + q <= Late
  /\ m.clock.init /\ ~m.clock.run /\ m.dma.hdmaPending =>
       m.dma.hdmaMode = "init" /\ LineNow(m) = 0 /\ Dot(m) + p <= Late
  /\ m.clock.init /\ ~m.clock.run /\ ~m.dma.hdmaPending => Dot(m) + q < Line
  /\ m.clock.run /\ m.dma.hdmaPending => m.dma.hdmaMode = "run" /\ Dot(m) + p < Line

\* The lines that are counted.
Counted(m) ==
  IF LineNow(m) >= Vdisp THEN Vdisp
  ELSE IF m.clock.run /\ ~m.dma.hdmaPending THEN LineNow(m) + 1 ELSE LineNow(m)

\* The channels that were enabled when the frame began are at line v.
InTable(m, v) ==
  \A n \in m.ghost.clean :
    /\ m.channel[n].hdma /\ Reads(n, m.channel[n], v, 0)
    /\ m.ghost.moves[n] = TransferLines(n) \cap 0 .. v - 1

NoneMoved == [n \in Channel |-> {}]

OnTable(m) ==
  /\ m.ghost.clean \subseteq Channel /\ DOMAIN m.ghost.moves = Channel
  /\ m.clock.init => InTable(m, Counted(m))
  /\ m.clock.init /\ ~m.clock.run /\ m.dma.hdmaPending =>
       m.ghost.clean = {} /\ m.ghost.moves = NoneMoved

HdmaOK(m, q, p) == InFrame(m) /\ OnTime(m, q, p) /\ OnTable(m)

LEMMA InTableKept ==
  ASSUME NEW m, NEW r, NEW v, m.ghost.clean \subseteq Channel, TablesKept(m, r), InTable(m, v)
  PROVE  InTable(r, v)
<1>. SUFFICES ASSUME NEW n \in r.ghost.clean
              PROVE  /\ r.channel[n].hdma /\ Reads(n, r.channel[n], v, 0)
                     /\ r.ghost.moves[n] = TransferLines(n) \cap 0 .. v - 1
  BY DEF InTable
<1>1. n \in m.ghost.clean /\ n \in Channel
  BY DEF TablesKept
<1> DEFINE d == m.channel[n]
           e == r.channel[n]
<1>2. /\ e.hdma = d.hdma /\ e.completed = d.completed /\ e.transfer = d.transfer
      /\ e.line = d.line /\ e.address = d.address
  BY <1>1 DEF TablesKept, TableFields
<1>3. d.hdma /\ Reads(n, d, v, 0) /\ m.ghost.moves[n] = TransferLines(n) \cap 0 .. v - 1
  BY <1>1 DEF InTable
<1>. HIDE DEF d, e
<1>4. Reads(n, e, v, 0)
  BY <1>2, <1>3 DEF Reads, AtEntry
<1>. QED  BY <1>1, <1>2, <1>3, <1>4 DEF TablesKept, e

\* H-DMA stays on time, and the lines that are counted the same, while no more passes than
\* may.
LEMMA PassedOK ==
  ASSUME NEW m, NEW r, NEW u \in Nat, NEW q \in Int, NEW p \in Int, NEW s \in Nat, NEW t \in Nat,
         Delay \in Nat, InitPosition + Delay <= HdmaPosition,
         HdmaOK(m, q, p), Passed(m, r, u), u <= Line, q <= Line,
         q <= Delay \/ LineNow(m) # Lines - 1,
         ~m.dma.hdmaPending => u + s <= q, m.dma.hdmaPending => u + t <= p
  PROVE  HdmaOK(r, s, t)
<1>1. /\ Dot(m) \in 0 .. Line - 1 /\ LineNow(m) \in 0 .. Lines - 1
      /\ Dot(r) \in 0 .. Line - 1 /\ LineNow(r) \in 0 .. Lines - 1
  BY Places DEF InFrame, HdmaOK, Passed
<1>2. /\ {Line, Lines, Vdisp, InitPosition, HdmaPosition} \subseteq Nat \ {0}
      /\ Vdisp < Lines /\ HdmaPosition < Line
  BY Sizes
<1>3. Late \in Int /\ Late < Line /\ Delay - 1 <= Late
  BY <1>2 DEF Late
<1>4. /\ LineNow(m) >= Vdisp => m.clock.init /\ m.clock.run /\ ~m.dma.hdmaPending
      /\ LineNow(m) > 0 => m.clock.init
      /\ ~m.clock.init => ~m.clock.run /\ ~m.dma.hdmaPending /\ Dot(m) + q <= Late
      /\ m.clock.init /\ ~m.clock.run /\ m.dma.hdmaPending =>
           m.dma.hdmaMode = "init" /\ LineNow(m) = 0 /\ Dot(m) + p <= Late
      /\ m.clock.init /\ ~m.clock.run /\ ~m.dma.hdmaPending => Dot(m) + q < Line
      /\ m.clock.run /\ m.dma.hdmaPending => m.dma.hdmaMode = "run" /\ Dot(m) + p < Line
  BY DEF HdmaOK, OnTime
<1>5. r.dma.hdmaPending = m.dma.hdmaPending /\ r.dma.hdmaMode = m.dma.hdmaMode
  BY DEF Passed, Unserved
<1>6. OnTable(m) /\ TablesKept(m, r)
  BY DEF HdmaOK, Passed, Unserved
<1>7. CASE Dot(m) + u < Line
  <2>1. /\ Dot(r) = Dot(m) + u /\ LineNow(r) = LineNow(m)
        /\ (r.clock.init <=> m.clock.init) /\ (r.clock.run <=> m.clock.run)
    BY <1>7 DEF Passed
  <2>2. OnTime(r, s, t)
    BY <1>1, <1>2, <1>3, <1>4, <1>5, <2>1 DEF OnTime
  <2>3. Counted(r) = Counted(m)
    BY <1>5, <2>1 DEF Counted
  <2>4. OnTable(r)
    BY <1>5, <1>6, <2>1, <2>3, InTableKept DEF OnTable, TablesKept
  <2>. QED  BY <2>2, <2>4 DEF HdmaOK, InFrame, Passed
<1>8. CASE ~(Dot(m) + u < Line)
  <2>1. /\ Dot(r) = Dot(m) + u - Line
        /\ LineNow(r) = IF LineNow(m) = Lines - 1 THEN 0 ELSE LineNow(m) + 1
        /\ r.clock.init <=> m.clock.init /\ LineNow(r) # 0
        /\ r.clock.run <=> m.clock.run /\ LineNow(r) >= Vdisp
    BY <1>8 DEF Passed
  <2>2. m.clock.init /\ m.clock.run /\ ~m.dma.hdmaPending
    BY <1>1, <1>2, <1>3, <1>4, <1>8
  <2>3. Dot(r) <= u - 1
    BY <1>1, <1>2, <2>1
  <2>4. OnTime(r, s, t)
    <3>1. ~r.dma.hdmaPending
      BY <1>5, <2>2
    <3>2. LineNow(r) >= Vdisp => r.clock.init /\ r.clock.run
      BY <1>1, <1>2, <2>1, <2>2
    <3>3. LineNow(r) > 0 => r.clock.init
      BY <1>1, <1>2, <2>1, <2>2
    <3>4. ~r.clock.init => ~r.clock.run /\ Dot(r) + s <= Late
      <4>1. SUFFICES ASSUME ~r.clock.init PROVE ~r.clock.run /\ Dot(r) + s <= Late
        OBVIOUS
      <4>2. LineNow(r) = 0
        BY <2>1, <2>2, <4>1
      <4>3. ~(0 >= Vdisp)
        BY <1>2
      <4>4. LineNow(m) = Lines - 1
        BY <1>1, <1>2, <2>1, <4>2
      <4>5. u + s <= Delay
        BY <1>1, <2>2, <4>4
      <4>. QED  BY <1>1, <1>3, <2>1, <2>3, <4>2, <4>3, <4>5
    <3>5. Dot(r) + s < Line
      BY <1>1, <1>2, <2>2, <2>3
    <3>. QED  BY <3>1, <3>2, <3>3, <3>4, <3>5 DEF OnTime
  <2>5. r.clock.init => Counted(r) = Counted(m)
    <3>1. SUFFICES ASSUME r.clock.init PROVE Counted(r) = Counted(m)
      OBVIOUS
    <3>2. LineNow(r) = LineNow(m) + 1
      BY <1>1, <1>2, <2>1, <3>1
    <3>3. LineNow(r) >= Vdisp <=> r.clock.run
      BY <2>1, <2>2
    <3>. QED  BY <1>1, <1>2, <1>5, <2>2, <3>2, <3>3 DEF Counted
  <2>6. OnTable(r)
    BY <1>5, <1>6, <2>1, <2>2, <2>5, InTableKept DEF OnTable, TablesKept
  <2>. QED  BY <2>4, <2>6 DEF HdmaOK, InFrame, Passed
<1>. QED  BY <1>7, <1>8

-----------------------------------------------------------------------------
(* H-DMA and its tables *)

\* No time passes, and the ghosts do not change.
Frozen(m, r) == r.clock = m.clock /\ r.ghost = m.ghost

LEMMA DmaWriteFrozen ==
  ASSUME NEW m, Shape(m), PipeValid(m), NEW valid, NEW target
  PROVE  LET r == DmaWrite(m, valid, target) IN Frozen(m, r) /\ r.dma = m.dma
<1> DEFINE p == [valid |-> valid, target |-> target]
<1>1. DmaWrite(m, valid, target) = [m EXCEPT !.pipe = p]
  BY DEF DmaWrite, PipeValid
<1>. HIDE DEF p
<1>. QED  BY <1>1 DEF Frozen, Shape, Fields

LEMMA MovedFrozen ==
  ASSUME NEW m, Shape(m), PipeValid(m), NEW n, NEW length \in Nat
  PROVE  LET r == Moved(m, n, length)[length] IN Frozen(m, r) /\ r.dma = m.dma
<1> DEFINE f == Moved(m, n, length)
           Good(r) == Shape(r) /\ PipeValid(r) /\ Frozen(m, r) /\ r.dma = m.dma
           S == {k \in Nat : k <= length => Good(f[k])}
<1>0. f[0] = m /\ \A k \in 1 .. length : f[k] = DmaTransfer(f[k - 1], n)
  BY MovedExists
<1>. HIDE DEF f
<1>1. 0 \in S
  BY <1>0 DEF Frozen
<1>2. ASSUME NEW k \in S PROVE k + 1 \in S
  <2>1. SUFFICES ASSUME k + 1 <= length PROVE Good(f[k + 1])
    OBVIOUS
  <2>2. Good(f[k])
    BY <2>1
  <2>3. f[k + 1] = DmaTransfer(f[k], n)
    <3>1. k + 1 \in 1 .. length /\ k + 1 - 1 = k
      BY <2>1
    <3>. QED  BY <3>1, <1>0
  <2>4. Shape(f[k + 1]) /\ PipeValid(f[k + 1])
    BY <2>2, <2>3, DmaTransferSame DEF Same
  <2>5. Frozen(f[k], f[k + 1]) /\ f[k + 1].dma = f[k].dma
    BY <2>2, <2>3, DmaWriteFrozen DEF DmaTransfer
  <2>. QED  BY <2>2, <2>4, <2>5 DEF Frozen
<1>3. length \in S
  BY <1>1, <1>2, SetInduction
<1>. QED  BY <1>3 DEF f

LEMMA SpentFrozen ==
  ASSUME NEW m, Shape(m), NEW units \in Nat, NEW n \in Channel, NEW c
  PROVE  LET r == Spent(m, units, n, c) IN
         Frozen(m, r) /\ r.dma.spent = m.dma.spent + units
BY DEF Spent, Frozen, Shape, Fields, DmaFields

\* What the count of a channel takes at most.
CountUnits(n) == IF program.channel[n].indirect THEN 6 ELSE 2

LEMMA UpdateTable ==
  ASSUME NEW m, Shape(m), PipeValid(m), NEW n \in Channel
  PROVE  LET r == HdmaUpdate(m, n)
             c == m.channel[n]
         IN  /\ Frozen(m, r) /\ r.dma.spent <= m.dma.spent + CountUnits(n)
             /\ IF Reloads(c.line) THEN Loaded(n, c.address, r.channel[n]) ELSE r.channel[n] = c
<1> DEFINE c      == m.channel[n]
           count  == Memory(n, c.address)
           whole  == count # 0 \/ HdmaActiveAfter(m, n)
           loaded == [c EXCEPT !.line = count, !.completed = (count = 0),
                               !.transfer = (count # 0), !.address = Next16(n, @)]
           low    == [loaded EXCEPT !.address = Next16(n, @),
                                    !.size = (Memory(n, loaded.address) % 2) * 2]
           high   == [low EXCEPT !.address = Next16(n, @),
                                 !.size = (@ \div 2) + (Memory(n, low.address) % 2) * 2]
           f      == DmaFlush(m)
           r      == HdmaUpdate(m, n)
           Done == /\ Frozen(m, r) /\ r.dma.spent <= m.dma.spent + CountUnits(n)
                   /\ IF Reloads(c.line) THEN Loaded(n, c.address, r.channel[n])
                      ELSE r.channel[n] = c
<1>. SUFFICES Done
  OBVIOUS
<1>0. r = IF ~Reloads(c.line) THEN [f EXCEPT !.dma.spent = @ + 2]
          ELSE IF ~program.channel[n].indirect
            THEN [f EXCEPT !.dma.spent = @ + 2, !.channel[n] = loaded]
          ELSE [f EXCEPT !.dma.spent = @ + (IF whole THEN 6 ELSE 4),
                         !.channel[n] = IF whole THEN high ELSE low]
  BY DEF HdmaUpdate
<1>. HIDE DEF r
<1>1. Shape(f) /\ f.channel = m.channel /\ Frozen(m, f) /\ f.dma = m.dma
  BY DmaFlushSame, DmaWriteFrozen DEF Same, DmaFlush
<1>2. m.dma.spent \in Nat /\ DOMAIN c = ChannelFields
  BY DEF Shape
<1> DEFINE Byte(k) == IF k = 1 THEN Next16(n, c.address)
                      ELSE IF k = 2 THEN Next16(n, Next16(n, c.address))
                      ELSE Next16(n, Next16(n, Next16(n, c.address)))
           Like(d, k) == /\ DOMAIN d = ChannelFields /\ d.line = count
                         /\ d.completed = (count = 0)
                         /\ d.transfer = (count # 0) /\ d.address = Byte(k)
<1>3. Like(loaded, 1) /\ Like(low, 2) /\ Like(high, 3)
  <2>. HIDE DEF count, c
  <2>1. Like(loaded, 1)
    BY <1>2 DEF ChannelFields
  <2>. HIDE DEF loaded
  <2>2. Like(low, 2)
    BY <2>1 DEF ChannelFields
  <2>. HIDE DEF low
  <2>3. Like(high, 3)
    BY <2>2 DEF ChannelFields
  <2>. QED  BY <2>1, <2>2, <2>3
<1>. HIDE DEF f, loaded, low, high
<1>4. CASE ~Reloads(c.line)
  <2>1. r = [f EXCEPT !.dma.spent = @ + 2]
    BY <1>0, <1>4
  <2>2. r.dma.spent = f.dma.spent + 2 /\ r.clock = f.clock /\ r.ghost = f.ghost
        /\ r.channel = f.channel
    BY <1>1, <2>1 DEF Shape, Fields, DmaFields
  <2>. QED  BY <1>1, <1>2, <1>4, <2>2 DEF Frozen, CountUnits
<1>5. CASE Reloads(c.line)
  <2>1. PICK d, units, k : /\ units \in Nat /\ units <= CountUnits(n) /\ Like(d, k)
                           /\ r = Spent(f, units, n, d)
                           /\ count # 0 => k = (IF program.channel[n].indirect THEN 3 ELSE 1)
    <3>. HIDE DEF Like, c, count
    <3>1. CASE ~program.channel[n].indirect
      <4>1. r = Spent(f, 2, n, loaded)
        BY <1>0, <1>5, <3>1 DEF Spent
      <4>. QED  BY <1>3, <3>1, <4>1 DEF CountUnits
    <3>2. CASE program.channel[n].indirect /\ whole
      <4>1. r = Spent(f, 6, n, high)
        BY <1>0, <1>5, <3>2 DEF Spent
      <4>. QED  BY <1>3, <3>2, <4>1 DEF CountUnits
    <3>3. CASE program.channel[n].indirect /\ ~whole
      <4>1. r = Spent(f, 4, n, low)
        BY <1>0, <1>5, <3>3 DEF Spent
      <4>2. count = 0
        BY <3>3
      <4>. QED  BY <1>3, <3>3, <4>1, <4>2 DEF CountUnits
    <3>. QED  BY <3>1, <3>2, <3>3
  <2>2. Frozen(f, r) /\ r.dma.spent = f.dma.spent + units
    BY <1>1, <2>1, SpentFrozen
  <2>3. r.channel[n] = d
    BY <1>1, <2>1, SpentSame
  <2>4. Loaded(n, c.address, d)
    <3>. HIDE DEF c
    <3>. QED  BY <2>1 DEF Loaded
  <2>5. r.dma.spent <= m.dma.spent + CountUnits(n)
    <3>1. CountUnits(n) \in Nat
      BY DEF CountUnits
    <3>. QED  BY <1>1, <1>2, <2>1, <2>2, <3>1
  <2>. QED  BY <1>1, <1>5, <2>2, <2>3, <2>4, <2>5 DEF Frozen
<1>. QED  BY <1>4, <1>5

\* The address of a channel after it has transferred on a line.
Onward(n, a) ==
  IF program.channel[n].indirect THEN a
  ELSE (a + program.channel[n].length) % program.channel[n].width

LEMMA TransferTable ==
  ASSUME program \in Programs, NEW m, Shape(m), PipeValid(m), NEW n \in Channel
  PROVE  LET r == HdmaTransfer(m, n)
             c == m.channel[n]
             d == r.channel[n]
         IN  /\ Frozen(m, r) /\ r.dma.spent = m.dma.spent + 2 * program.channel[n].length
             /\ d.line = c.line /\ d.transfer = c.transfer /\ d.address = Onward(n, c.address)
<1> DEFINE length == program.channel[n].length
           t == Moved(m, n, length)[length]
           r == HdmaTransfer(m, n)
           c == t.channel[n]
           units == 2 * length
<1>0. LET e == [t EXCEPT !.dma.spent = @ + 2 * length] IN
      r = IF program.channel[n].indirect
            THEN [e EXCEPT !.channel[n].size = (@ + length) % SizeWidth]
            ELSE [e EXCEPT !.channel[n].address = (@ + length) % program.channel[n].width]
  BY DEF HdmaTransfer, Moved
<1>. HIDE DEF r
<1>1. length \in Nat
  BY CpuAssumption
<1>2. Shape(t) /\ t.channel = m.channel /\ Frozen(m, t) /\ t.dma = m.dma
  <2>. HIDE DEF length
  <2>. QED  BY <1>1, MovedSame, MovedFrozen DEF Same
<1>3. PICK d : /\ DOMAIN d = ChannelFields /\ d.line = c.line /\ d.transfer = c.transfer
               /\ d.address = Onward(n, c.address) /\ r = Spent(t, units, n, d)
  <2> DEFINE size == [c EXCEPT !.size = (@ + length) % SizeWidth]
             address == [c EXCEPT !.address = (@ + length) % program.channel[n].width]
  <2>1. DOMAIN c = ChannelFields
    BY <1>2 DEF Shape
  <2>. HIDE DEF c
  <2>2. /\ DOMAIN size = ChannelFields /\ size.line = c.line /\ size.transfer = c.transfer
        /\ size.address = c.address
        /\ DOMAIN address = ChannelFields /\ address.line = c.line
        /\ address.transfer = c.transfer
        /\ address.address = (c.address + length) % program.channel[n].width
    BY <2>1 DEF ChannelFields
  <2>. HIDE DEF t
  <2>3. r = [t EXCEPT !.dma.spent = @ + 2 * length,
                      !.channel[n] = IF program.channel[n].indirect THEN size ELSE address]
    BY <1>0, <1>2 DEF Shape, Fields, c
  <2>. HIDE DEF size, address
  <2>. QED  BY <2>2, <2>3 DEF Spent, Onward
<1>. HIDE DEF t
<1>4. units \in Nat
  BY <1>1
<1>. HIDE DEF units
<1>5. Frozen(t, r) /\ r.dma.spent = t.dma.spent + units /\ r.channel[n] = d
  BY <1>2, <1>3, <1>4, SpentFrozen, SpentSame
<1>. QED  BY <1>2, <1>3, <1>5 DEF Frozen, r, units

\* What the move of channel n does to m: its own moves, address and time, and nothing else that
\* the tables tell.
MovesOn(m, n, r) ==
  LET c == m.channel[n]
      d == r.channel[n]
  IN  /\ r.clock = m.clock /\ r.ghost.clean = m.ghost.clean
      /\ DOMAIN r.ghost.moves = Channel
      /\ \A k \in Channel \ {n} : r.ghost.moves[k] = m.ghost.moves[k]
      /\ r.ghost.moves[n] = IF c.transfer /\ n \in m.ghost.clean
                              THEN m.ghost.moves[n] \cup {LineNow(m)}
                              ELSE m.ghost.moves[n]
      /\ r.dma.spent <= m.dma.spent + 2 * program.channel[n].length
      /\ d.line = c.line /\ d.transfer = c.transfer
      /\ d.address = IF c.transfer THEN Onward(n, c.address) ELSE c.address

LEMMA MoveTable ==
  ASSUME program \in Programs, NEW m, Shape(m), PipeValid(m), NEW n \in Channel,
         DOMAIN m.ghost.moves = Channel
  PROVE  MovesOn(m, n, Move(m, n))
<1> DEFINE c == m.channel[n]
           d == [c EXCEPT !.dma = FALSE]
           stopped == [m EXCEPT !.channel[n] = d]
           t == HdmaTransfer(stopped, n)
           w == IF n \in m.ghost.clean THEN t.ghost.moves[n] \cup {LineOf(m.clock.at)}
                ELSE t.ghost.moves[n]
           v == [t.ghost.moves EXCEPT ![n] = w]
           length == program.channel[n].length
<1>1. /\ DOMAIN d = ChannelFields /\ d.line = c.line /\ d.transfer = c.transfer
      /\ d.address = c.address
  BY DEF Shape, ChannelFields
<1>2. Move(m, n) = IF c.transfer THEN [t EXCEPT !.ghost.moves = v] ELSE stopped
  <2>1. Move(m, n) = IF c.transfer
                       THEN [t EXCEPT !.ghost.moves[n] = IF n \in m.ghost.clean
                                THEN @ \cup {LineOf(m.clock.at)} ELSE @] ELSE stopped
    BY DEF Move
  <2>. HIDE DEF t
  <2>. QED  BY <2>1
<1>3. length \in Nat /\ m.dma.spent \in Nat
  BY CpuAssumption DEF Shape
<1>. HIDE DEF d
<1>4. /\ Same(m, stopped) /\ stopped.pipe = m.pipe /\ stopped.channel[n] = d
      /\ stopped.clock = m.clock /\ stopped.dma = m.dma
  BY <1>1, SetChannel
<1>5. stopped.ghost = m.ghost
  BY DEF Shape, Fields
<1>. HIDE DEF stopped
<1>6. Shape(stopped) /\ PipeValid(stopped)
  BY <1>4 DEF Same, PipeValid
<1>7. /\ Frozen(stopped, t) /\ t.dma.spent = stopped.dma.spent + 2 * length
      /\ t.channel[n].line = d.line /\ t.channel[n].transfer = d.transfer
      /\ t.channel[n].address = Onward(n, d.address)
  BY <1>4, <1>6, TransferTable
<1>8. Shape(t)
  BY <1>6, HdmaTransferSame DEF Same
<1>9. t.ghost = m.ghost /\ t.clock = m.clock
  BY <1>4, <1>5, <1>7 DEF Frozen
<1>. HIDE DEF t
<1>10. CASE c.transfer
  <2> DEFINE r == [t EXCEPT !.ghost.moves = v]
  <2>1. Move(m, n) = r
    BY <1>2, <1>10
  <2>2. /\ DOMAIN v = Channel /\ v[n] = w /\ \A k \in Channel \ {n} : v[k] = m.ghost.moves[k]
    BY <1>9
  <2>3. w = IF n \in m.ghost.clean THEN m.ghost.moves[n] \cup {LineNow(m)} ELSE m.ghost.moves[n]
    BY <1>9 DEF LineNow
  <2>. HIDE DEF v, w
  <2>4. /\ r.clock = t.clock /\ r.dma = t.dma /\ r.channel = t.channel
        /\ r.ghost.moves = v /\ r.ghost.clean = t.ghost.clean
    BY <1>8 DEF Shape, Fields, GhostFields
  <2>. HIDE DEF r
  <2>5. r.dma.spent <= m.dma.spent + 2 * length
    BY <1>3, <1>4, <1>7, <2>4
  <2>6. MovesOn(m, n, r)
    BY <1>1, <1>4, <1>7, <1>9, <1>10, <2>2, <2>3, <2>4, <2>5 DEF MovesOn
  <2>. QED  BY <2>1, <2>6
<1>11. CASE ~c.transfer
  <2>1. Move(m, n) = stopped
    BY <1>2, <1>11
  <2>2. m.dma.spent <= m.dma.spent + 2 * length
    BY <1>3
  <2>3. MovesOn(m, n, stopped)
    BY <1>1, <1>4, <1>5, <1>11, <2>2 DEF MovesOn
  <2>. QED  BY <2>1, <2>3
<1>. QED  BY <1>10, <1>11

LEMMA CountTable ==
  ASSUME NEW m, Shape(m), PipeValid(m), NEW n \in Channel
  PROVE  LET r == Count(m, n)
             c == m.channel[n]
             d == r.channel[n]
             left == (c.line + 2 * CountHalf - 1) % (2 * CountHalf)
         IN  /\ Frozen(m, r) /\ r.dma.spent <= m.dma.spent + CountUnits(n)
             /\ IF Reloads(left) THEN Loaded(n, c.address, d)
                ELSE /\ d.line = left /\ d.completed = c.completed
                     /\ d.transfer = (left >= CountHalf) /\ d.address = c.address
<1> DEFINE left == (m.channel[n].line + 2 * CountHalf - 1) % (2 * CountHalf)
           c == [m.channel[n] EXCEPT !.line = left, !.transfer = (left >= CountHalf)]
           counted == [m EXCEPT !.channel[n] = c]
<1>1. /\ DOMAIN c = ChannelFields /\ c.line = left /\ c.transfer = (left >= CountHalf)
      /\ c.completed = m.channel[n].completed /\ c.address = m.channel[n].address
  <2>. HIDE DEF left
  <2>. QED  BY DEF Shape, ChannelFields
<1>2. Count(m, n) = HdmaUpdate(counted, n)
  <2>1. counted = [m EXCEPT !.channel[n].line = left, !.channel[n].transfer = (left >= CountHalf)]
    <3>. HIDE DEF left
    <3>. QED  BY DEF Shape, Fields, ChannelFields
  <2>. QED  BY <2>1 DEF Count
<1>. HIDE DEF c, left
<1>3. /\ Same(m, counted) /\ counted.pipe = m.pipe /\ counted.channel[n] = c
      /\ counted.clock = m.clock /\ counted.dma = m.dma
  BY <1>1, SetChannel
<1>4. counted.ghost = m.ghost
  BY DEF Shape, Fields
<1>. HIDE DEF counted
<1>5. Shape(counted) /\ PipeValid(counted)
  BY <1>3 DEF Same, PipeValid
<1> DEFINE r == HdmaUpdate(counted, n)
<1>6. /\ Frozen(counted, r) /\ r.dma.spent <= counted.dma.spent + CountUnits(n)
      /\ IF Reloads(c.line) THEN Loaded(n, c.address, r.channel[n]) ELSE r.channel[n] = c
  BY <1>3, <1>5, UpdateTable
<1>. HIDE DEF r
<1>7. Frozen(m, r) /\ r.dma.spent <= m.dma.spent + CountUnits(n)
  BY <1>3, <1>4, <1>6 DEF Frozen
<1>8. IF Reloads(left) THEN Loaded(n, m.channel[n].address, r.channel[n])
      ELSE /\ r.channel[n].line = left /\ r.channel[n].completed = m.channel[n].completed
           /\ r.channel[n].transfer = (left >= CountHalf)
           /\ r.channel[n].address = m.channel[n].address
  BY <1>1, <1>6
<1>. QED  BY <1>2, <1>7, <1>8 DEF r, left

LEMMA BeginTable ==
  ASSUME NEW m, Shape(m), PipeValid(m), NEW n \in Channel
  PROVE  LET r == Begin(m, n)
             c == m.channel[n]
         IN  /\ r.clock = m.clock /\ r.dma.spent <= m.dma.spent + CountUnits(n)
             /\ r.ghost.moves = m.ghost.moves
             /\ r.ghost.clean = IF c.source = 0 THEN m.ghost.clean \cup {n} ELSE m.ghost.clean
             /\ c.source = 0 => Loaded(n, 0, r.channel[n])
<1> DEFINE c == [m.channel[n] EXCEPT !.dma = FALSE, !.line = 0, !.address = m.channel[n].source]
           x == "clean"
           v == IF m.channel[n].source = 0 THEN m.ghost.clean \cup {n} ELSE m.ghost.clean
           set == [m EXCEPT !.channel[n] = c]
           begun == [set EXCEPT !.ghost[x] = v]
<1>1. DOMAIN c = ChannelFields /\ c.line = 0 /\ c.address = m.channel[n].source
  BY DEF Shape, ChannelFields
<1>2. Begin(m, n) = HdmaUpdate(begun, n)
  <2>1. begun = [m EXCEPT !.channel[n].dma = FALSE, !.channel[n].line = 0,
                          !.channel[n].address = m.channel[n].source, !.ghost.clean = v]
    <3>. HIDE DEF v
    <3>. QED  BY DEF Shape, Fields, ChannelFields
  <2>2. v = IF m.channel[n].source = 0 THEN m.ghost.clean \cup {n} ELSE m.ghost.clean
    OBVIOUS
  <2>. HIDE DEF begun
  <2>. QED  BY <2>1, <2>2 DEF Begin, Shape, Fields
<1>. HIDE DEF c, v
<1>3. /\ Same(m, set) /\ set.pipe = m.pipe /\ set.channel[n] = c
      /\ set.clock = m.clock /\ set.dma = m.dma
  BY <1>1, SetChannel
<1>4. set.ghost = m.ghost
  BY DEF Shape, Fields
<1>. HIDE DEF set
<1>5. Same(set, begun) /\ begun.channel = set.channel /\ begun.pipe = set.pipe
  BY <1>3, GhostSame DEF Same
<1>6. /\ begun.clock = set.clock /\ begun.dma = set.dma /\ begun.ghost.clean = v
      /\ begun.ghost.moves = set.ghost.moves
  BY <1>3 DEF Same, Shape, Fields, GhostFields
<1>. HIDE DEF begun
<1>7. Shape(begun) /\ PipeValid(begun)
  BY <1>3, <1>5 DEF Same, PipeValid
<1> DEFINE r == HdmaUpdate(begun, n)
<1>8. /\ Frozen(begun, r) /\ r.dma.spent <= begun.dma.spent + CountUnits(n)
      /\ IF Reloads(c.line) THEN Loaded(n, c.address, r.channel[n]) ELSE r.channel[n] = c
  BY <1>3, <1>5, <1>7, UpdateTable
<1>9. Reloads(c.line)
  BY <1>1, Sizes DEF Reloads
<1>. HIDE DEF r
<1>10. m.channel[n].source = 0 => Loaded(n, 0, r.channel[n])
  BY <1>1, <1>8, <1>9
<1>. QED  BY <1>2, <1>3, <1>4, <1>6, <1>8, <1>10 DEF Frozen, r, v

-----------------------------------------------------------------------------
(* The channels, one after the other *)

\* Channel n is at line v of its table, and has transferred on that line if j is 1.
AtLine(m, n, v, j) ==
  /\ m.channel[n].hdma /\ Reads(n, m.channel[n], v, j)
  /\ m.ghost.moves[n] = TransferLines(n) \cap 0 .. v + j - 1

LEMMA InTableLines ==
  ASSUME NEW m, NEW v \in Nat
  PROVE  InTable(m, v) <=> \A n \in m.ghost.clean : AtLine(m, n, v, 0)
<1>1. v + 0 - 1 = v - 1
  OBVIOUS
<1>. QED  BY <1>1 DEF InTable, AtLine

\* The transfer of a line.
LEMMA MoveLine ==
  ASSUME program \in Programs, NEW m, Shape(m), PipeValid(m), NEW n \in Channel,
         DOMAIN m.ghost.moves = Channel, NEW v \in Nat, LineNow(m) = v,
         n \in m.ghost.clean, AtLine(m, n, v, 0)
  PROVE  AtLine(Turn("move", m, n), n, v, 1)
<1> DEFINE r == Turn("move", m, n)
           c == m.channel[n]
           d == r.channel[n]
           lines == TransferLines(n)
<1>1. c.hdma /\ Reads(n, c, v, 0) /\ m.ghost.moves[n] = lines \cap 0 .. v - 1 /\ Tabled(n)
  <2>1. v + 0 - 1 = v - 1
    OBVIOUS
  <2>. QED  BY <2>1, AllTabled DEF AtLine
<1>2. v + 1 - 1 = v /\ 0 .. v = (0 .. v - 1) \cup {v}
  OBVIOUS
<1>3. CASE HdmaActive(m, n)
  <2>1. r = Move(m, n)
    BY <1>3 DEF Turn
  <2>2. Apart(m, r, n, {"hdma", "completed"})
    BY <2>1, MoveSame
  <2>3. /\ r.ghost.moves[n] = IF c.transfer THEN m.ghost.moves[n] \cup {v} ELSE m.ghost.moves[n]
        /\ d.line = c.line /\ d.transfer = c.transfer
        /\ d.address = IF c.transfer THEN Onward(n, c.address) ELSE c.address
    <3>. HIDE DEF r
    <3>1. MovesOn(m, n, r)
      BY <2>1, MoveTable
    <3>. QED  BY <1>1, <3>1 DEF MovesOn
  <2>4. d.hdma = c.hdma /\ d.completed = c.completed /\ ~c.completed
    BY <1>3, <2>2 DEF Apart, HdmaActive
  <2>. HIDE DEF r, c, lines, d
  <2>5. /\ c.transfer <=> v \in lines
        /\ \A e : /\ e.line = c.line /\ e.completed = c.completed /\ e.transfer = c.transfer
                  /\ e.address = IF c.transfer /\ ~program.channel[n].indirect
                                   THEN (c.address + program.channel[n].length)
                                          % program.channel[n].width
                                   ELSE c.address
                  => Reads(n, e, v, 1)
    BY <1>1, <2>4, ReadsMove DEF lines
  <2>6. d.address = IF c.transfer /\ ~program.channel[n].indirect
                      THEN (c.address + program.channel[n].length) % program.channel[n].width
                      ELSE c.address
    BY <2>3 DEF Onward
  <2>7. Reads(n, d, v, 1)
    BY <2>3, <2>4, <2>5, <2>6
  <2>8. r.ghost.moves[n] = lines \cap 0 .. v
    BY <1>1, <1>2, <2>3, <2>5
  <2>. QED  BY <1>1, <1>2, <2>4, <2>7, <2>8 DEF AtLine, d, r, lines
<1>4. CASE ~HdmaActive(m, n)
  <2>1. r = m
    BY <1>4 DEF Turn
  <2>2. c.completed
    BY <1>1, <1>4 DEF HdmaActive
  <2>3. v \notin lines
    BY <1>1, <2>2, ReadsPast
  <2>4. Reads(n, c, v, 1)
    BY <1>1, <2>2 DEF Reads, AtEntry
  <2>. HIDE DEF r, lines
  <2>5. m.ghost.moves[n] = lines \cap 0 .. v
    BY <1>1, <1>2, <2>3
  <2>. QED  BY <1>1, <1>2, <2>1, <2>4, <2>5 DEF AtLine, r, lines
<1>. QED  BY <1>3, <1>4

\* The count of a line.
LEMMA CountLine ==
  ASSUME program \in Programs, NEW m, Shape(m), PipeValid(m), NEW n \in Channel,
         NEW v \in Nat, v + 1 <= Vdisp, AtLine(m, n, v, 1)
  PROVE  AtLine(Turn("count", m, n), n, v + 1, 0)
<1> DEFINE r == Turn("count", m, n)
           c == m.channel[n]
           d == r.channel[n]
           left == (c.line + 2 * CountHalf - 1) % (2 * CountHalf)
<1>1. c.hdma /\ Reads(n, c, v, 1) /\ m.ghost.moves[n] = TransferLines(n) \cap 0 .. v /\ Tabled(n)
  <2>1. v + 1 - 1 = v
    OBVIOUS
  <2>. QED  BY <2>1, AllTabled DEF AtLine
<1>2. v + 1 + 0 - 1 = v
  OBVIOUS
<1>3. CASE HdmaActive(m, n)
  <2>1. r = Count(m, n)
    BY <1>3 DEF Turn
  <2>2. Apart(m, r, n, {"dma", "hdma"})
    BY <2>1, CountSame
  <2>3. /\ Frozen(m, r)
        /\ IF Reloads(left) THEN Loaded(n, c.address, d)
           ELSE /\ d.line = left /\ d.completed = c.completed
                /\ d.transfer = (left >= CountHalf) /\ d.address = c.address
    BY <2>1, CountTable
  <2>4. d.hdma = c.hdma /\ ~c.completed
    BY <1>3, <2>2 DEF Apart, HdmaActive
  <2>. HIDE DEF r
  <2>5. Reads(n, d, v + 1, 0)
    <3>. HIDE DEF c, d
    <3>. QED  BY <1>1, <2>3, <2>4, ReadsCount
  <2>6. r.ghost.moves[n] = TransferLines(n) \cap 0 .. v
    BY <1>1, <2>3 DEF Frozen
  <2>. QED  BY <1>1, <1>2, <2>4, <2>5, <2>6 DEF AtLine, r
<1>4. CASE ~HdmaActive(m, n)
  <2>1. r = m
    BY <1>4 DEF Turn
  <2>2. c.completed
    BY <1>1, <1>4 DEF HdmaActive
  <2>3. Reads(n, c, v + 1, 0)
    BY <1>1, <2>2, ReadsPast
  <2>. HIDE DEF r
  <2>. QED  BY <1>1, <1>2, <2>1, <2>3 DEF AtLine, r
<1>. QED  BY <1>3, <1>4

LoopTime(loop) == IF loop = "move" THEN MoveTime(program) ELSE CountTime(program)

\* The line a channel is at, in a loop over the channels, before its turn and after it.
LineBefore(loop, m, n, v) == AtLine(m, n, v, IF loop = "move" THEN 0 ELSE 1)
LineAfter(loop, m, n, v) ==
  IF loop = "move" THEN AtLine(m, n, v, 1) ELSE AtLine(m, n, v + 1, 0)

LEMMA TurnLine ==
  ASSUME program \in Programs, NEW loop \in {"move", "count"}, NEW m, Shape(m), PipeValid(m),
         NEW n \in Channel, DOMAIN m.ghost.moves = Channel
  PROVE  LET r == Turn(loop, m, n) IN
         /\ r.clock = m.clock /\ r.ghost.clean = m.ghost.clean
         /\ DOMAIN r.ghost.moves = Channel
         /\ \A k \in Channel \ {n} :
              r.channel[k] = m.channel[k] /\ r.ghost.moves[k] = m.ghost.moves[k]
         /\ r.dma.spent + LoopTime(loop)[n] <= m.dma.spent + LoopTime(loop)[n + 1]
         /\ \A v \in Nat : LineNow(m) = v /\ v + 1 <= Vdisp /\ n \in m.ghost.clean
                             /\ LineBefore(loop, m, n, v)
                           => LineAfter(loop, r, n, v)
<1> DEFINE r == Turn(loop, m, n)
           time == LoopTime(loop)
           units == IF loop = "move" THEN 2 * program.channel[n].length ELSE CountUnits(n)
<1>1. time[n] \in Nat /\ time[n + 1] = time[n] + units /\ units \in Nat
  <2>1. n \in 0 .. Channels
    BY CpuAssumption DEF Channel
  <2>2. program.channel[n].length \in Nat
    BY CpuAssumption
  <2>3. /\ MoveTime(program)[n] \in Nat /\ CountTime(program)[n] \in Nat
        /\ MoveTime(program)[n + 1] = MoveTime(program)[n] + 2 * program.channel[n].length
        /\ CountTime(program)[n + 1] = CountTime(program)[n] + CountUnits(n)
    BY <2>1, TimeSums DEF CountUnits
  <2>. QED  BY <2>2, <2>3 DEF LoopTime, CountUnits
<1>2. /\ r.clock = m.clock /\ r.ghost.clean = m.ghost.clean
      /\ DOMAIN r.ghost.moves = Channel
      /\ \A k \in Channel \ {n} :
           r.channel[k] = m.channel[k] /\ r.ghost.moves[k] = m.ghost.moves[k]
      /\ r.dma.spent <= m.dma.spent + units
  <2>1. CASE loop = "move" /\ HdmaActive(m, n)
    <3>1. r = Move(m, n)
      BY <2>1 DEF Turn
    <3>. HIDE DEF r
    <3>2. \A k \in Channel \ {n} : r.channel[k] = m.channel[k]
      BY <3>1, MoveSame DEF Apart
    <3>3. /\ r.clock = m.clock /\ r.ghost.clean = m.ghost.clean
          /\ DOMAIN r.ghost.moves = Channel
          /\ \A k \in Channel \ {n} : r.ghost.moves[k] = m.ghost.moves[k]
          /\ r.dma.spent <= m.dma.spent + 2 * program.channel[n].length
      <4>1. MovesOn(m, n, r)
        BY <3>1, MoveTable
      <4>. QED  BY <4>1 DEF MovesOn
    <3>. QED  BY <2>1, <3>2, <3>3
  <2>2. CASE loop = "count" /\ HdmaActive(m, n)
    <3>1. r = Count(m, n)
      BY <2>2 DEF Turn
    <3>. HIDE DEF r
    <3>2. \A k \in Channel \ {n} : r.channel[k] = m.channel[k]
      BY <3>1, CountSame DEF Apart
    <3>3. Frozen(m, r) /\ r.dma.spent <= m.dma.spent + CountUnits(n)
      BY <3>1, CountTable
    <3>. QED  BY <2>2, <3>2, <3>3 DEF Frozen
  <2>3. CASE ~HdmaActive(m, n)
    <3>1. r = m
      BY <2>3 DEF Turn
    <3>2. m.dma.spent <= m.dma.spent + units
      BY <1>1 DEF Shape
    <3>. HIDE DEF r, units
    <3>. QED  BY <3>1, <3>2
  <2>. QED  BY <2>1, <2>2, <2>3
<1>3. r.dma.spent + time[n] <= m.dma.spent + time[n + 1]
  <2>1. r.dma.spent \in Nat /\ m.dma.spent \in Nat
    <3>1. CASE HdmaActive(m, n)
      <4>1. Shape(r)
        BY <3>1, MoveSame, CountSame DEF Turn, Same
      <4>. QED  BY <4>1 DEF Shape
    <3>2. CASE ~HdmaActive(m, n)
      BY <3>2 DEF Turn, Shape
    <3>. QED  BY <3>1, <3>2
  <2>. HIDE DEF r, time, units
  <2>. QED  BY <1>1, <1>2, <2>1
<1>4. ASSUME NEW v \in Nat, LineNow(m) = v, v + 1 <= Vdisp, n \in m.ghost.clean,
             LineBefore(loop, m, n, v)
      PROVE  LineAfter(loop, r, n, v)
  BY <1>4, MoveLine, CountLine DEF LineBefore, LineAfter
<1>. QED  BY <1>2, <1>3, <1>4

LEMMA AtLineKept ==
  ASSUME NEW m, NEW r, NEW n, r.channel[n] = m.channel[n], r.ghost.moves[n] = m.ghost.moves[n],
         NEW v, NEW j, AtLine(m, n, v, j)
  PROVE  AtLine(r, n, v, j)
BY DEF AtLine

\* A loop over the channels that transfers or counts has come to r, and to channel k.
Lined(loop, m, r, k, v) ==
  /\ Progress(loop, m, r, k)
  /\ r.clock = m.clock /\ r.ghost.clean = m.ghost.clean /\ DOMAIN r.ghost.moves = Channel
  /\ r.dma.spent <= m.dma.spent + LoopTime(loop)[k]
  /\ \A n \in r.ghost.clean :
       IF n < k THEN LineAfter(loop, r, n, v) ELSE LineBefore(loop, r, n, v)

LEMMA LoopTimes ==
  ASSUME program \in Programs, NEW loop
  PROVE  /\ LoopTime(loop)[0] = 0
         /\ \A k \in 0 .. Channels : LoopTime(loop)[k] \in Nat
BY TimeSums DEF LoopTime

LEMMA TurnLined ==
  ASSUME program \in Programs, NEW loop \in {"move", "count"}, NEW m, NEW l, NEW k \in Channel,
         Shape(m), m.ghost.clean \subseteq Channel, NEW v \in Nat, LineNow(m) = v,
         v + 1 <= Vdisp, Lined(loop, m, l, k, v)
  PROVE  Lined(loop, m, Turn(loop, l, k), k + 1, v)
<1> DEFINE r == Turn(loop, l, k)
           time == LoopTime(loop)
<1>1. Shape(l) /\ PipeValid(l) /\ DOMAIN l.ghost.moves = Channel
  BY DEF Lined, Progress, Same
<1>2. Progress(loop, m, r, k + 1)
  BY TurnProgress DEF Lined
<1>3. LineNow(l) = v /\ l.ghost.clean = m.ghost.clean /\ l.clock = m.clock
  BY DEF Lined, LineNow
<1>4. /\ r.clock = l.clock /\ r.ghost.clean = l.ghost.clean /\ DOMAIN r.ghost.moves = Channel
      /\ \A n \in Channel \ {k} :
           r.channel[n] = l.channel[n] /\ r.ghost.moves[n] = l.ghost.moves[n]
      /\ r.dma.spent + time[k] <= l.dma.spent + time[k + 1]
      /\ k \in l.ghost.clean /\ LineBefore(loop, l, k, v) => LineAfter(loop, r, k, v)
  BY <1>1, <1>3, TurnLine
<1>. HIDE DEF r, time
<1>5. r.dma.spent <= m.dma.spent + time[k + 1]
  <2>1. Channels \in Nat
    BY CpuAssumption
  <2>2. k \in 0 .. Channels /\ k + 1 \in 0 .. Channels
    BY <2>1 DEF Channel
  <2>3. time[k] \in Nat /\ time[k + 1] \in Nat
    BY <2>2, LoopTimes DEF time
  <2>4. r.dma.spent \in Nat /\ l.dma.spent \in Nat /\ m.dma.spent \in Nat
    BY <1>1, <1>2 DEF Progress, Same, Shape
  <2>5. l.dma.spent <= m.dma.spent + time[k]
    BY DEF Lined, time
  <2>. QED  BY <1>4, <2>3, <2>4, <2>5
<1>6. ASSUME NEW n \in r.ghost.clean
      PROVE  IF n < k + 1 THEN LineAfter(loop, r, n, v) ELSE LineBefore(loop, r, n, v)
  <2>1. n \in l.ghost.clean /\ n \in Channel
    BY <1>3, <1>4, <1>6
  <2>2. n \in Nat /\ k \in Nat
    BY <2>1 DEF Channel
  <2>3. IF n < k THEN LineAfter(loop, l, n, v) ELSE LineBefore(loop, l, n, v)
    BY <2>1 DEF Lined
  <2>4. CASE n = k
    <3>1. ~(n < k) /\ n < k + 1
      BY <2>2, <2>4
    <3>. QED  BY <1>4, <2>1, <2>3, <2>4, <3>1
  <2>5. CASE n # k
    <3>1. n < k <=> n < k + 1
      BY <2>2, <2>5
    <3>2. r.channel[n] = l.channel[n] /\ r.ghost.moves[n] = l.ghost.moves[n]
      BY <1>4, <2>1, <2>5
    <3>3. LineAfter(loop, l, n, v) => LineAfter(loop, r, n, v)
      BY <3>2, AtLineKept DEF LineAfter
    <3>4. LineBefore(loop, l, n, v) => LineBefore(loop, r, n, v)
      BY <3>2, AtLineKept DEF LineBefore
    <3>. QED  BY <2>3, <3>1, <3>3, <3>4
  <2>. QED  BY <2>4, <2>5
<1>7. Lined(loop, m, r, k + 1, v)
  BY <1>2, <1>3, <1>4, <1>5, <1>6 DEF Lined, time
<1>. QED  BY <1>7 DEF r

LEMMA EachLined ==
  ASSUME program \in Programs, NEW loop \in {"move", "count"}, NEW m, Shape(m), PipeValid(m),
         m.ghost.clean \subseteq Channel, DOMAIN m.ghost.moves = Channel,
         NEW v \in Nat, LineNow(m) = v, v + 1 <= Vdisp,
         \A n \in m.ghost.clean : LineBefore(loop, m, n, v)
  PROVE  LET r == EachChannel(loop, m) IN
         /\ r.clock = m.clock /\ r.ghost.clean = m.ghost.clean /\ DOMAIN r.ghost.moves = Channel
         /\ r.dma.spent <= m.dma.spent + LoopTime(loop)[Channels]
         /\ \A n \in r.ghost.clean : LineAfter(loop, r, n, v)
<1> DEFINE f == Turned(loop, m)
           S == {k \in Nat : k <= Channels => Lined(loop, m, f[k], k, v)}
<1>0. /\ EachChannel(loop, m) = f[Channels] /\ f[0] = m
      /\ \A k \in 1 .. Channels : f[k] = Turn(loop, f[k - 1], k - 1)
  BY TurnedExists
<1>. HIDE DEF f
<1>1. 0 \in S
  <2>1. \A n \in Channel : ~(n < 0)
    BY DEF Channel
  <2>2. Progress(loop, m, m, 0)
    BY <2>1, SameReflexive DEF Progress
  <2>3. m.dma.spent <= m.dma.spent + LoopTime(loop)[0]
    BY LoopTimes DEF Shape
  <2>4. Lined(loop, m, m, 0, v)
    BY <2>1, <2>2, <2>3 DEF Lined
  <2>. QED  BY <1>0, <2>4
<1>2. ASSUME NEW k \in S PROVE k + 1 \in S
  <2>1. SUFFICES ASSUME k + 1 <= Channels PROVE Lined(loop, m, f[k + 1], k + 1, v)
    OBVIOUS
  <2>2. Channels \in Nat
    BY CpuAssumption
  <2>3. Lined(loop, m, f[k], k, v)
    BY <2>1, <2>2
  <2>4. k + 1 \in 1 .. Channels /\ k + 1 - 1 = k /\ k \in Channel
    BY <2>1, <2>2 DEF Channel
  <2>5. f[k + 1] = Turn(loop, f[k], k)
    BY <2>4, <1>0
  <2>. QED  BY <2>3, <2>4, <2>5, TurnLined
<1>3. Channels \in S
  BY <1>1, <1>2, CpuAssumption, SetInduction
<1>4. Lined(loop, m, f[Channels], Channels, v)
  BY <1>3, CpuAssumption
<1>5. \A n \in Channel : n < Channels
  BY CpuAssumption DEF Channel
<1>. QED  BY <1>0, <1>4, <1>5 DEF Lined

\* A loop over the channels that begins their tables has come to r, and to channel k.
Begun(m, r, k) ==
  /\ Progress("begin", m, r, k) /\ r.clock = m.clock /\ r.ghost.moves = NoneMoved
  /\ r.ghost.clean \subseteq {n \in Channel : n < k}
  /\ r.dma.spent <= m.dma.spent + CountTime(program)[k]
  /\ \A n \in r.ghost.clean : AtLine(r, n, 0, 0)

LEMMA TurnBegun ==
  ASSUME program \in Programs, NEW m, NEW l, NEW k \in Channel, Shape(m), Begun(m, l, k)
  PROVE  Begun(m, Turn("begin", l, k), k + 1)
<1> DEFINE r == Turn("begin", l, k)
           time == CountTime(program)
<1>1. Shape(l) /\ PipeValid(l) /\ l.clock = m.clock /\ l.ghost.moves = NoneMoved
  BY DEF Begun, Progress, Same
<1>2. Progress("begin", m, r, k + 1)
  BY TurnProgress DEF Begun
<1>3. \A n \in Channel : n \in Nat
  BY DEF Channel
<1>4. /\ time[k] \in Nat /\ time[k + 1] = time[k] + CountUnits(k) /\ CountUnits(k) \in Nat
      /\ l.dma.spent \in Nat /\ m.dma.spent \in Nat /\ l.dma.spent <= m.dma.spent + time[k]
  <2>1. k \in 0 .. Channels
    BY CpuAssumption DEF Channel
  <2>2. CountTime(program)[k] \in Nat
        /\ CountTime(program)[k + 1] = CountTime(program)[k] + CountUnits(k)
    BY <2>1, TimeSums DEF CountUnits
  <2>3. l.dma.spent \in Nat /\ m.dma.spent \in Nat /\ l.dma.spent <= m.dma.spent + time[k]
    BY <1>1 DEF Begun, Shape
  <2>. QED  BY <2>2, <2>3 DEF CountUnits
<1>5. CASE l.channel[k].hdma
  <2>1. r = Begin(l, k)
    BY <1>5 DEF Turn
  <2> DEFINE s == Begin(l, k)
  <2>2. Apart(l, s, k, {"hdma"}) /\ Shape(s)
    BY <1>1, BeginSame DEF Same
  <2>3. /\ s.clock = l.clock /\ s.dma.spent <= l.dma.spent + CountUnits(k)
        /\ s.ghost.moves = l.ghost.moves
        /\ s.ghost.clean = IF l.channel[k].source = 0 THEN l.ghost.clean \cup {k}
                           ELSE l.ghost.clean
        /\ l.channel[k].source = 0 => Loaded(k, 0, s.channel[k])
    BY <1>1, BeginTable
  <2>. HIDE DEF s, r, time
  <2>4. s.dma.spent <= m.dma.spent + time[k + 1]
    <3>1. s.dma.spent \in Nat
      BY <2>2 DEF Shape
    <3>. QED  BY <1>4, <2>3, <3>1
  <2>5. s.ghost.clean \subseteq {n \in Channel : n < k + 1}
    <3>1. \A n \in Channel : n < k => n < k + 1
      BY <1>3
    <3>2. k < k + 1
      BY <1>3
    <3>. QED  BY <2>3, <3>1, <3>2 DEF Begun
  <2>6. ASSUME NEW n \in s.ghost.clean PROVE AtLine(s, n, 0, 0)
    <3>1. CASE n \in l.ghost.clean
      <4>1. n \in Channel \ {k}
        BY <1>3, <3>1 DEF Begun
      <4>2. AtLine(l, n, 0, 0)
        BY <3>1 DEF Begun
      <4>. QED  BY <2>2, <2>3, <4>1, <4>2, AtLineKept DEF Apart
    <3>2. CASE n \notin l.ghost.clean
      <4>1. n = k /\ l.channel[k].source = 0
        BY <2>3, <2>6, <3>2
      <4>2. Reads(k, s.channel[k], 0, 0)
        BY <2>3, <4>1, AllTabled, ReadsBegin
      <4>3. s.channel[k].hdma
        BY <1>5, <2>2 DEF Apart
      <4>4. s.ghost.moves[k] = {} /\ 0 .. 0 + 0 - 1 = {}
        BY <1>1, <2>3 DEF NoneMoved
      <4>. QED  BY <4>1, <4>2, <4>3, <4>4 DEF AtLine
    <3>. QED  BY <3>1, <3>2
  <2>7. Begun(m, r, k + 1)
    BY <1>1, <1>2, <2>1, <2>3, <2>4, <2>5, <2>6 DEF Begun, s, time
  <2>. QED  BY <2>7 DEF r
<1>6. CASE ~l.channel[k].hdma
  <2>1. r = l
    BY <1>6 DEF Turn
  <2>. HIDE DEF r, time
  <2>2. l.dma.spent <= m.dma.spent + time[k + 1]
    BY <1>4
  <2>3. l.ghost.clean \subseteq {n \in Channel : n < k + 1}
    <3>1. \A n \in Channel : n < k => n < k + 1
      BY <1>3
    <3>. QED  BY <3>1 DEF Begun
  <2>4. Begun(m, r, k + 1)
    BY <1>2, <2>1, <2>2, <2>3 DEF Begun, time
  <2>. QED  BY <2>4 DEF r
<1>. QED  BY <1>5, <1>6

LEMMA EachBegun ==
  ASSUME program \in Programs, NEW m, Shape(m), PipeValid(m), m.ghost.clean = {},
         m.ghost.moves = NoneMoved
  PROVE  Begun(m, EachChannel("begin", m), Channels)
<1> DEFINE loop == "begin"
           f == Turned(loop, m)
           S == {k \in Nat : k <= Channels => Begun(m, f[k], k)}
<1>0. /\ EachChannel(loop, m) = f[Channels] /\ f[0] = m
      /\ \A k \in 1 .. Channels : f[k] = Turn(loop, f[k - 1], k - 1)
  BY TurnedExists
<1>. HIDE DEF f
<1>1. 0 \in S
  <2>1. Progress("begin", m, m, 0)
    BY SameReflexive DEF Progress
  <2>2. m.dma.spent <= m.dma.spent + CountTime(program)[0]
    BY TimeSums DEF Shape
  <2>3. Begun(m, m, 0)
    BY <2>1, <2>2 DEF Begun
  <2>. QED  BY <1>0, <2>3
<1>2. ASSUME NEW k \in S PROVE k + 1 \in S
  <2>1. SUFFICES ASSUME k + 1 <= Channels PROVE Begun(m, f[k + 1], k + 1)
    OBVIOUS
  <2>2. Channels \in Nat
    BY CpuAssumption
  <2>3. Begun(m, f[k], k)
    BY <2>1, <2>2
  <2>4. k + 1 \in 1 .. Channels /\ k + 1 - 1 = k /\ k \in Channel
    BY <2>1, <2>2 DEF Channel
  <2>5. f[k + 1] = Turn("begin", f[k], k)
    BY <2>4, <1>0
  <2>. QED  BY <2>3, <2>4, <2>5, TurnBegun
<1>3. Channels \in S
  BY <1>1, <1>2, CpuAssumption, SetInduction
<1>. QED  BY <1>0, <1>3, CpuAssumption

-----------------------------------------------------------------------------
(* What dmaEdge() does for H-DMA *)

\* A line is long enough for what is done in it.
LEMMA Slack ==
  ASSUME program \in Programs
  PROVE  LET move  == MoveTime(program)[Channels]
             count == CountTime(program)[Channels]
         IN  /\ move \in Nat /\ count \in Nat /\ Access \in 1 .. 3 /\ Delay = Access + 8
             /\ InitPosition + Delay <= HdmaPosition /\ HdmaPosition + Delay <= Line
             /\ InitPosition + Delay + 2 + count + Delay <= Line
             /\ 2 + move + count + Delay <= Line
<1>1. Channels \in 0 .. Channels
  BY CpuAssumption
<1>2. MoveTime(program)[Channels] \in Nat /\ CountTime(program)[Channels] \in Nat
  BY <1>1, TimeSums
<1>3. Access \in 1 .. 3
  BY Sizes, HdmaAssumption
<1>. QED  BY <1>2, <1>3, HdmaAssumption DEF Delay

\* Nothing changes that H-DMA depends on.
LEMMA UnservedOK ==
  ASSUME NEW m, NEW r, NEW q, NEW p, HdmaOK(m, q, p), r.clock = m.clock, Unserved(m, r)
  PROVE  HdmaOK(r, q, p)
<1>1. InFrame(r) /\ OnTime(r, q, p)
  BY DEF HdmaOK, InFrame, OnTime, Unserved, LineNow, Dot
<1>2. Counted(r) = Counted(m)
  BY DEF Counted, LineNow, Unserved
<1>3. OnTable(r)
  BY <1>2, InTableKept DEF HdmaOK, OnTable, Unserved, TablesKept
<1>. QED  BY <1>1, <1>3 DEF HdmaOK

\* Less may pass than may.
LEMMA OKWeaker ==
  ASSUME NEW m, NEW q \in Int, NEW p \in Int, NEW s \in Int, NEW t \in Int, HdmaOK(m, q, p),
         ~m.dma.hdmaPending => s <= q, m.dma.hdmaPending => t <= p
  PROVE  HdmaOK(m, s, t)
<1>1. Dot(m) \in Int /\ Late \in Int /\ Line \in Int
  BY Places, Sizes, HdmaAssumption DEF HdmaOK, Late, Delay
<1>. QED  BY <1>1 DEF HdmaOK, OnTime

LEMMA SpendingStarts ==
  ASSUME NEW m, Shape(m)
  PROVE  LET r == Spending(m) IN Later(m, r) /\ Frozen(m, r) /\ r.dma.spent = 2
<1> DEFINE x == "spent"
           r == [m EXCEPT !.dma[x] = 2]
<1>1. Later(m, r) /\ r.clock = m.clock
  BY CountersLater
<1>2. r.ghost = m.ghost /\ r.dma.spent = 2
  BY DEF Shape, Fields, DmaFields
<1>. HIDE DEF r
<1>3. Spending(m) = r
  BY DEF Spending, r
<1>. QED  BY <1>1, <1>2, <1>3 DEF Frozen

LEMMA LockUnserved ==
  ASSUME NEW m, Shape(m), NEW b
  PROVE  LET r == [m EXCEPT !.irq.lock = b] IN r.clock = m.clock /\ Unserved(m, r)
BY DEF Shape, Fields, Unserved, TablesKept

\* An H-DMA transfers for a line of its tables, and counts it.
LEMMA HdmaRunOK ==
  ASSUME program \in Programs, NEW m, Shape(m), PipeValid(m), InFrame(m),
         m.clock.init, m.clock.run, ~m.dma.hdmaPending, LineNow(m) < Vdisp,
         m.ghost.clean \subseteq Channel, DOMAIN m.ghost.moves = Channel, InTable(m, LineNow(m))
  PROVE  HdmaOK(HdmaRun(m), Delay, 8) /\ ~HdmaRun(m).dma.hdmaPending
<1> DEFINE v == LineNow(m)
           f == DmaFlush(m)
           g == Spending(f)
           moved == EachChannel("move", g)
           counted == EachChannel("count", moved)
           spent == Spend(counted)
           locked == TRUE
           r == [spent EXCEPT !.irq.lock = locked]
           move == MoveTime(program)[Channels]
           count == CountTime(program)[Channels]
<1>1. HdmaRun(m) = r
  BY DEF HdmaRun
<1>0. /\ move \in Nat /\ count \in Nat /\ Delay \in Nat /\ InitPosition + Delay <= HdmaPosition
      /\ 2 + move + count + Delay <= Line /\ Line \in Nat /\ Vdisp \in Nat /\ Vdisp < Lines
      /\ Lines \in Nat
  BY Slack, Sizes
<1>2. v \in Nat /\ v + 1 <= Vdisp
  BY <1>0, Places
<1>3. Same(m, f) /\ f.channel = m.channel /\ Frozen(m, f)
  BY DmaFlushSame, DmaWriteFrozen DEF DmaFlush
<1>. HIDE DEF f
<1>4. Later(f, g) /\ Frozen(f, g) /\ g.dma.spent = 2
  BY <1>3, SpendingStarts DEF Same
<1>5. ~f.pipe.valid
  BY DmaFlushSame DEF f
<1>. HIDE DEF g
<1>6. Shape(g) /\ PipeValid(g) /\ g.clock = m.clock /\ g.ghost = m.ghost /\ g.channel = m.channel
  BY <1>3, <1>4, <1>5 DEF Later, Same, PipeValid, Frozen
<1>7. LineNow(g) = v
  BY <1>6 DEF LineNow
<1>. HIDE DEF v, move, count
<1>8. \A n \in g.ghost.clean : LineBefore("move", g, n, v)
  <2>1. InTable(g, v)
    BY <1>6 DEF InTable, v
  <2>. QED  BY <1>2, <2>1, InTableLines DEF LineBefore
<1>9. /\ moved.clock = g.clock /\ moved.ghost.clean = g.ghost.clean
      /\ DOMAIN moved.ghost.moves = Channel /\ moved.dma.spent <= g.dma.spent + move
      /\ \A n \in moved.ghost.clean : LineAfter("move", moved, n, v)
  BY <1>2, <1>6, <1>7, <1>8, EachLined DEF LoopTime, move
<1>10. Progress("move", g, moved, Channels)
  BY <1>6, EachChannelProgress
<1>. HIDE DEF moved
<1>11. Shape(moved) /\ PipeValid(moved) /\ LineNow(moved) = v
  BY <1>7, <1>9, <1>10 DEF Progress, Same, LineNow
<1>12. \A n \in moved.ghost.clean : LineBefore("count", moved, n, v)
  BY <1>9 DEF LineBefore, LineAfter
<1>13. /\ counted.clock = moved.clock /\ counted.ghost.clean = moved.ghost.clean
       /\ DOMAIN counted.ghost.moves = Channel /\ counted.dma.spent <= moved.dma.spent + count
       /\ \A n \in counted.ghost.clean : LineAfter("count", counted, n, v)
  BY <1>2, <1>6, <1>9, <1>11, <1>12, EachLined DEF LoopTime, count
<1>14. Progress("count", moved, counted, Channels)
  BY <1>11, EachChannelProgress
<1>. HIDE DEF counted
<1>15. Shape(counted) /\ Transfers(counted) = Transfers(m)
  BY <1>3, <1>4, <1>10, <1>14 DEF Later, Progress, Same
<1>16. counted.dma.spent \in Nat /\ counted.dma.spent + Delay <= Line
  <2>1. moved.dma.spent \in Nat /\ counted.dma.spent \in Nat
    BY <1>11, <1>15 DEF Shape
  <2>. QED  BY <1>0, <1>4, <1>9, <1>13, <2>1
<1>17. /\ counted.clock = m.clock /\ LineNow(counted) = v /\ ~counted.dma.hdmaPending
  BY <1>6, <1>9, <1>11, <1>13, <1>15 DEF Transfers, LineNow
<1>18. HdmaOK(counted, Line, 0)
  <2>1. InFrame(counted) /\ counted.clock.init /\ counted.clock.run
    BY <1>17 DEF InFrame
  <2>2. v < Vdisp /\ ~(v >= Vdisp)
    BY <1>0, <1>2
  <2>3. OnTime(counted, Line, 0)
    BY <1>17, <2>1, <2>2 DEF OnTime
  <2>4. Counted(counted) = v + 1
    BY <1>17, <2>1, <2>2 DEF Counted
  <2>5. InTable(counted, v + 1)
    <3>1. \A n \in counted.ghost.clean : AtLine(counted, n, v + 1, 0)
      BY <1>13 DEF LineAfter
    <3>2. v + 1 \in Nat
      BY <1>2
    <3>. QED  BY <3>1, <3>2, InTableLines
  <2>6. OnTable(counted)
    BY <1>6, <1>9, <1>13, <1>17, <2>1, <2>4, <2>5 DEF OnTable
  <2>. QED  BY <2>1, <2>3, <2>6 DEF HdmaOK
<1>19. Passed(counted, spent, counted.dma.spent)
  <2>1. InFrame(counted) /\ counted.dma.spent <= Line
    BY <1>0, <1>16, <1>18 DEF HdmaOK
  <2>. QED  BY <1>15, <2>1, SpendPassed
<1>20. Later(counted, spent)
  BY <1>15, SpendLater
<1>. HIDE DEF spent
<1>21. HdmaOK(spent, Delay, 8) /\ ~spent.dma.hdmaPending
  <2>1. LineNow(counted) # Lines - 1
    BY <1>0, <1>2, <1>17
  <2>2. counted.dma.spent <= Line /\ Line \in Int /\ 0 \in Int /\ 8 \in Nat
    BY <1>0, <1>16
  <2>3. HdmaOK(spent, Delay, 8)
    <3> DEFINE u == counted.dma.spent
    <3>1. u \in Nat /\ u + Delay <= Line /\ Passed(counted, spent, u) /\ u <= Line
      BY <1>16, <1>19, <2>2
    <3>. HIDE DEF u
    <3>. QED  BY <1>0, <1>17, <1>18, <2>1, <2>2, <3>1, PassedOK
  <2>4. spent.dma.hdmaPending = counted.dma.hdmaPending
    BY <1>19 DEF Passed, Unserved
  <2>. QED  BY <1>17, <2>3, <2>4
<1>22. r.clock = spent.clock /\ Unserved(spent, r)
  BY <1>20, LockUnserved DEF Later, Same
<1>. HIDE DEF r
<1>23. HdmaOK(r, Delay, 8) /\ ~r.dma.hdmaPending
  BY <1>21, <1>22, UnservedOK DEF Unserved
<1>. QED  BY <1>1, <1>23

\* An H-DMA begins its tables.
LEMMA HdmaInitOK ==
  ASSUME program \in Programs, NEW m, Shape(m), PipeValid(m), InFrame(m),
         m.clock.init, ~m.clock.run, ~m.dma.hdmaPending, LineNow(m) = 0,
         Dot(m) + 2 + CountTime(program)[Channels] + Delay < Line,
         m.ghost.clean = {}, m.ghost.moves = NoneMoved
  PROVE  HdmaOK(HdmaInit(m), Delay, 8) /\ ~HdmaInit(m).dma.hdmaPending
<1> DEFINE c == [n \in Channel |-> [m.channel[n] EXCEPT !.transfer = TRUE]]
           set == [m EXCEPT !.channel = c]
           f == DmaFlush(set)
           g == Spending(f)
           begun == EachChannel("begin", g)
           spent == Spend(begun)
           locked == TRUE
           r == [spent EXCEPT !.irq.lock = locked]
           count == CountTime(program)[Channels]
           q == 2 + count + Delay
<1>1. HdmaInit(m) = r
  BY DEF HdmaInit
<1>0. /\ count \in Nat /\ Delay \in Nat /\ InitPosition + Delay <= HdmaPosition
      /\ q \in Int /\ q <= Line /\ Line \in Nat /\ Vdisp \in Nat \ {0} /\ Vdisp < Lines
      /\ Lines \in Nat /\ InitPosition \in Nat
  BY Slack, Sizes
<1>2. DOMAIN c = Channel /\ \A n \in Channel : DOMAIN c[n] = ChannelFields
  BY DEF Shape
<1>. HIDE DEF c
<1>3. Same(m, set) /\ set.channel = c /\ set.pipe = m.pipe
  BY <1>2, SetChannels
<1>4. set.clock = m.clock /\ set.ghost = m.ghost
  BY DEF Shape, Fields
<1>. HIDE DEF set
<1>5. Shape(set) /\ PipeValid(set)
  BY <1>3 DEF Same, PipeValid
<1>6. Same(set, f) /\ Frozen(set, f) /\ ~f.pipe.valid
  BY <1>5, DmaFlushSame, DmaWriteFrozen DEF DmaFlush
<1>. HIDE DEF f
<1>7. Later(f, g) /\ Frozen(f, g) /\ g.dma.spent = 2
  BY <1>6, SpendingStarts DEF Same
<1>. HIDE DEF g
<1>8. /\ Shape(g) /\ PipeValid(g) /\ g.clock = m.clock /\ g.ghost = m.ghost
      /\ Transfers(g) = Transfers(m)
  BY <1>3, <1>4, <1>6, <1>7 DEF Later, Same, PipeValid, Frozen
<1>9. Begun(g, begun, Channels)
  BY <1>8, EachBegun
<1>. HIDE DEF begun
<1>10. /\ Shape(begun) /\ begun.clock = m.clock /\ begun.ghost.clean \subseteq Channel
       /\ begun.ghost.moves = NoneMoved /\ begun.dma.spent <= 2 + count
       /\ \A n \in begun.ghost.clean : AtLine(begun, n, 0, 0)
       /\ Transfers(begun) = Transfers(m)
  BY <1>7, <1>8, <1>9 DEF Begun, Progress, Same
<1>. HIDE DEF count
<1>11. LineNow(begun) = 0 /\ Dot(begun) = Dot(m) /\ ~begun.dma.hdmaPending
  BY <1>10 DEF LineNow, Dot, Transfers
<1>12. HdmaOK(begun, q, 0)
  <2>1. InFrame(begun) /\ begun.clock.init /\ ~begun.clock.run
    BY <1>10 DEF InFrame
  <2>2. ~(0 >= Vdisp) /\ ~(0 > 0)
    BY <1>0
  <2>3. Dot(begun) + q < Line
    <3>1. Dot(m) \in Int
      BY Places
    <3>. QED  BY <1>0, <1>11, <3>1 DEF count
  <2>4. OnTime(begun, q, 0)
    BY <1>11, <2>1, <2>2, <2>3 DEF OnTime
  <2>5. Counted(begun) = 0
    BY <1>11, <2>1, <2>2 DEF Counted
  <2>6. InTable(begun, 0)
    BY <1>10, InTableLines
  <2>7. OnTable(begun)
    BY <1>10, <1>11, <2>5, <2>6 DEF OnTable, NoneMoved
  <2>. QED  BY <2>1, <2>4, <2>7 DEF HdmaOK
<1> DEFINE u == begun.dma.spent
<1>13. u \in Nat /\ u + Delay <= q /\ u <= Line
  <2>1. u \in Nat
    BY <1>10 DEF Shape
  <2>. QED  BY <1>0, <1>10, <2>1
<1>14. Passed(begun, spent, u)
  BY <1>10, <1>12, <1>13, SpendPassed DEF HdmaOK
<1>15. Later(begun, spent)
  BY <1>10, SpendLater
<1>. HIDE DEF spent, u, q
<1>16. HdmaOK(spent, Delay, 8) /\ ~spent.dma.hdmaPending
  <2>1. LineNow(begun) # Lines - 1
    BY <1>0, <1>11
  <2>2. 0 \in Int /\ 8 \in Nat
    OBVIOUS
  <2>3. HdmaOK(spent, Delay, 8)
    BY <1>0, <1>11, <1>12, <1>13, <1>14, <2>1, <2>2, PassedOK
  <2>4. spent.dma.hdmaPending = begun.dma.hdmaPending
    BY <1>14 DEF Passed, Unserved
  <2>. QED  BY <1>11, <2>3, <2>4
<1>17. r.clock = spent.clock /\ Unserved(spent, r)
  BY <1>15, LockUnserved DEF Later, Same
<1>. HIDE DEF r
<1>18. HdmaOK(r, Delay, 8) /\ ~r.dma.hdmaPending
  BY <1>16, <1>17, UnservedOK DEF Unserved
<1>. QED  BY <1>1, <1>18

LEMMA InactiveOK ==
  ASSUME program \in Programs, NEW m, Shape(m), ~m.dma.hdmaPending, NEW s \in Nat, NEW p \in Int,
         NEW q \in Int, Access + s <= q, q <= Delay, HdmaOK(m, q, p)
  PROVE  HdmaOK(Inactive(m), s, 8) /\ ~Inactive(m).dma.hdmaPending
<1>1. PICK u \in 0 .. Access : Passed(m, Inactive(m), u)
  BY InactivePassed DEF HdmaOK
<1>2. /\ Access \in Nat /\ Delay \in Nat /\ InitPosition + Delay <= HdmaPosition
      /\ Access <= Line /\ Line \in Nat /\ Delay <= Line
  BY Slack, Sizes
<1>3. u \in Nat /\ u + s <= q /\ u <= Line /\ q <= Line
  BY <1>1, <1>2
<1> DEFINE r == Inactive(m)
<1>. HIDE DEF r
<1>4. 8 \in Nat
  OBVIOUS
<1>5. Passed(m, r, u)
  BY <1>1 DEF r
<1>6. HdmaOK(r, s, 8)
  BY <1>2, <1>3, <1>4, <1>5, PassedOK
<1>7. ~r.dma.hdmaPending
  BY <1>5 DEF Passed, Unserved
<1>. QED  BY <1>6, <1>7 DEF r

\* An H-DMA that is pending is done.
LEMMA HdmaPartOK ==
  ASSUME program \in Programs, NEW m, Shape(m), PipeValid(m), HdmaOK(m, 8, 2),
         m.dma.hdmaPending => m.dma.active
  PROVE  HdmaOK(HdmaPart(m), 8, 8) /\ ~HdmaPart(m).dma.hdmaPending
<1> DEFINE d == [m.dma EXCEPT !.hdmaPending = FALSE]
           p == [m EXCEPT !.dma = d]
           a == IF DmaEnabled(p) = {} THEN Align(p) ELSE p
           q == IF p.dma.hdmaMode = "init" THEN HdmaInit(a) ELSE HdmaRun(a)
           r == HdmaPart(m)
           count == CountTime(program)[Channels]
<1>1. r = IF ~m.dma.active \/ ~m.dma.hdmaPending THEN m
          ELSE IF HdmaEnabled(p) = {} THEN p
          ELSE IF DmaEnabled(q) = {} THEN Inactive(q) ELSE q
  BY DEF HdmaPart
<1>. HIDE DEF r
<1>0. /\ count \in Nat /\ Delay \in Nat /\ Delay = Access + 8 /\ Access \in Nat
      /\ InitPosition + Delay <= HdmaPosition /\ HdmaPosition + Delay <= Line
      /\ InitPosition + Delay + 2 + count + Delay <= Line /\ Line \in Nat /\ Line >= 2
      /\ Vdisp \in Nat \ {0} /\ InitPosition \in Nat \ {0} /\ HdmaPosition \in Nat
      /\ Dot(m) \in Nat /\ LineNow(m) \in Nat
  BY Slack, Sizes, Places DEF HdmaOK
<1>. HIDE DEF count
<1>2. InFrame(m) /\ OnTime(m, 8, 2) /\ OnTable(m)
  BY DEF HdmaOK
<1>3. CASE ~m.dma.hdmaPending
  <2>1. r = m
    BY <1>1, <1>3
  <2>2. 8 \in Int /\ 2 \in Int /\ 8 <= 8
    OBVIOUS
  <2>3. HdmaOK(m, 8, 8)
    BY <1>3, <2>2, OKWeaker
  <2>. QED  BY <1>3, <2>1, <2>3 DEF r
<1>4. CASE m.dma.hdmaPending
  <2>1. /\ DOMAIN d = DmaFields /\ d.hdmaPending = FALSE
        /\ \A x \in DmaFields \ {"hdmaPending"} : d[x] = m.dma[x]
    BY DEF Shape, DmaFields
  <2>. HIDE DEF d
  <2>2. d.clocks \in 0 .. Access - 1 /\ d.spent \in Nat
    BY <2>1 DEF Shape, DmaFields
  <2>3. /\ Shape(p) /\ p.dma = d /\ p.channel = m.channel /\ p.pipe = m.pipe
        /\ p.ghost = m.ghost /\ p.clock = m.clock
    BY <2>1, <2>2, SetDma
  <2>. HIDE DEF p
  <2>4. ~p.dma.hdmaPending /\ p.dma.hdmaMode = m.dma.hdmaMode
    BY <2>1, <2>3 DEF DmaFields
  <2>5. TablesKept(m, p) /\ InFrame(p) /\ PipeValid(p) /\ Dot(p) = Dot(m) /\ LineNow(p) = LineNow(m)
    BY <1>2, <2>3 DEF TablesKept, InFrame, PipeValid, Dot, LineNow
  <2>6. /\ LineNow(m) < Vdisp /\ m.clock.init /\ Dot(m) + 2 < Line
        /\ m.clock.run => m.dma.hdmaMode = "run"
        /\ ~m.clock.run => /\ m.dma.hdmaMode = "init" /\ LineNow(m) = 0 /\ Dot(m) + 2 <= Late
                           /\ m.ghost.clean = {} /\ m.ghost.moves = NoneMoved
    <3>1. ~(LineNow(m) >= Vdisp) /\ m.clock.init
      BY <1>2, <1>4 DEF OnTime
    <3>2. m.clock.run => m.dma.hdmaMode = "run" /\ Dot(m) + 2 < Line
      BY <1>2, <1>4 DEF OnTime
    <3>3. ~m.clock.run => /\ m.dma.hdmaMode = "init" /\ LineNow(m) = 0 /\ Dot(m) + 2 <= Late
                          /\ m.ghost.clean = {} /\ m.ghost.moves = NoneMoved
      BY <1>2, <1>4, <3>1 DEF OnTime, OnTable
    <3>4. Late < Line /\ Late \in Int
      BY <1>0 DEF Late
    <3>. QED  BY <1>0, <3>1, <3>2, <3>3, <3>4
  <2>7. Counted(m) = LineNow(m) /\ InTable(m, LineNow(m))
    <3>1. ~(LineNow(m) >= Vdisp)
      BY <1>0, <2>6
    <3>2. Counted(m) = LineNow(m)
      BY <1>4, <3>1 DEF Counted
    <3>. QED  BY <1>2, <2>6, <3>2 DEF OnTable
  <2>8. m.ghost.clean \subseteq Channel /\ DOMAIN m.ghost.moves = Channel
    BY <1>2 DEF OnTable
  <2>9. CASE HdmaEnabled(p) = {}
    <3>1. r = p
      BY <1>1, <1>4, <2>9
    <3>2. p.ghost.clean = {}
      BY <2>3, <2>7, <2>8, <2>9 DEF InTable, HdmaEnabled
    <3>3. OnTable(p)
      BY <2>3, <2>4, <2>8, <3>2 DEF OnTable, InTable
    <3>4. OnTime(p, 8, 8)
      <4>1. ~(LineNow(p) >= Vdisp) /\ p.clock.init
        BY <1>0, <2>3, <2>5, <2>6
      <4>2. ~p.clock.run => Dot(p) + 8 < Line
        BY <1>0, <2>3, <2>5, <2>6 DEF Late
      <4>. QED  BY <2>4, <4>1, <4>2 DEF OnTime
    <3>. QED  BY <2>4, <2>5, <3>1, <3>3, <3>4 DEF HdmaOK, r
  <2>10. CASE HdmaEnabled(p) # {}
    <3>1. PICK u \in 0 .. 2 : Passed(p, a, u)
      <4>1. CASE DmaEnabled(p) = {}
        BY <1>0, <2>3, <2>5, <4>1, AlignPassed
      <4>2. CASE DmaEnabled(p) # {}
        <5>1. Passed(p, p, 0)
          BY <2>5, PassedStill DEF Unserved, TablesKept
        <5>. QED  BY <4>2, <5>1
      <4>. QED  BY <4>1, <4>2
    <3>2. Shape(a) /\ PipeValid(a)
      <4>1. CASE DmaEnabled(p) = {}
        <5>1. Later(p, Align(p))
          BY <2>3, AlignLater
        <5>. QED  BY <2>5, <4>1, <5>1 DEF Later, Same, PipeValid
      <4>2. CASE DmaEnabled(p) # {}
        BY <2>3, <2>5, <4>2
      <4>. QED  BY <4>1, <4>2
    <3>. HIDE DEF a
    <3>3. /\ InFrame(a) /\ LineNow(a) = LineNow(m) /\ Dot(a) = Dot(m) + u
          /\ (a.clock.init <=> m.clock.init) /\ (a.clock.run <=> m.clock.run)
      <4>1. Dot(p) + u < Line
        BY <1>0, <2>5, <2>6
      <4>. QED  BY <2>3, <2>5, <3>1, <4>1 DEF Passed, InFrame
    <3>4. ~a.dma.hdmaPending /\ TablesKept(m, a)
      BY <2>4, <2>5, <3>1 DEF Passed, Unserved, TablesKept
    <3>5. /\ a.ghost.clean = m.ghost.clean /\ a.ghost.moves = m.ghost.moves
          /\ InTable(a, LineNow(a))
      BY <2>7, <2>8, <3>3, <3>4, InTableKept DEF TablesKept
    <3>6. HdmaOK(q, Delay, 8) /\ ~q.dma.hdmaPending /\ Shape(q)
      <4>1. CASE m.clock.run
        <5>1. q = HdmaRun(a)
          BY <2>4, <2>6, <4>1
        <5>2. HdmaOK(HdmaRun(a), Delay, 8) /\ ~HdmaRun(a).dma.hdmaPending
          BY <2>6, <2>8, <3>2, <3>3, <3>4, <3>5, <4>1, HdmaRunOK
        <5>3. Shape(HdmaRun(a))
          BY <3>2, HdmaRunKept DEF Same
        <5>. QED  BY <5>1, <5>2, <5>3
      <4>2. CASE ~m.clock.run
        <5>1. q = HdmaInit(a)
          BY <2>4, <2>6, <4>2
        <5>2. Dot(a) + 2 + count + Delay < Line
          BY <1>0, <2>6, <3>3, <4>2 DEF Late
        <5>3. HdmaOK(HdmaInit(a), Delay, 8) /\ ~HdmaInit(a).dma.hdmaPending
          BY <2>6, <3>2, <3>3, <3>4, <3>5, <4>2, <5>2, HdmaInitOK DEF count
        <5>4. Shape(HdmaInit(a))
          BY <3>2, HdmaInitKept DEF Same
        <5>. QED  BY <5>1, <5>3, <5>4
      <4>. QED  BY <4>1, <4>2
    <3>. HIDE DEF q
    <3>7. CASE DmaEnabled(q) = {}
      <4>1. r = Inactive(q)
        BY <1>1, <1>4, <2>10, <3>7
      <4>2. HdmaOK(Inactive(q), 8, 8) /\ ~Inactive(q).dma.hdmaPending
        <5>1. 8 \in Nat /\ 8 \in Int /\ Delay \in Int /\ Access + 8 <= Delay /\ Delay <= Delay
          BY <1>0
        <5>. QED  BY <3>6, <5>1, InactiveOK
      <4>. QED  BY <4>1, <4>2 DEF r
    <3>8. CASE DmaEnabled(q) # {}
      <4>1. r = q
        BY <1>1, <1>4, <2>10, <3>8
      <4>2. HdmaOK(q, 8, 8)
        <5>1. Delay \in Int /\ 8 \in Int /\ 8 <= Delay /\ 8 <= 8
          BY <1>0
        <5>. QED  BY <3>6, <5>1, OKWeaker
      <4>. QED  BY <3>6, <4>1, <4>2 DEF r
    <3>. QED  BY <3>7, <3>8
  <2>. QED  BY <2>9, <2>10
<1>. QED  BY <1>3, <1>4

\* What a trigger resets, and what it requests.
LEMMA ResetTables ==
  ASSUME NEW m, Shape(m)
  PROVE  LET r == HdmaInitReset(m) IN
         /\ r.clock = m.clock /\ r.dma = m.dma
         /\ r.ghost.clean = {} /\ r.ghost.moves = NoneMoved
<1> DEFINE c    == [n \in Channel |-> [m.channel[n] EXCEPT !.completed = FALSE, !.transfer = FALSE]]
           none == {}
           no   == [n \in Channel |-> {}]
           g    == [m.ghost EXCEPT !.clean = none, !.moves = no]
           r    == HdmaInitReset(m)
<1>0. none = {} /\ no = NoneMoved
  BY DEF NoneMoved
<1>1. r = [m EXCEPT !.channel = c, !.ghost.clean = none, !.ghost.moves = no]
  BY DEF HdmaInitReset
<1>. HIDE DEF c, none, no, r
<1>2. r = [m EXCEPT !.channel = c, !.ghost = g]
  BY <1>1 DEF Shape, Fields, GhostFields
<1>3. g.clean = none /\ g.moves = no
  BY DEF Shape, GhostFields
<1>. HIDE DEF g
<1>4. r.clock = m.clock /\ r.dma = m.dma /\ r.ghost = g
  BY <1>2 DEF Shape, Fields
<1>. QED  BY <1>0, <1>3, <1>4 DEF r

LEMMA RequestedFields ==
  ASSUME NEW m, Shape(m), NEW mode
  PROVE  LET r == Requested(m, mode) IN
         /\ Frozen(m, r) /\ r.channel = m.channel
         /\ r.dma.hdmaPending /\ r.dma.hdmaMode = mode /\ r.dma.active = m.dma.active
BY DEF Requested, Frozen, Shape, Fields, DmaFields

LEMMA ActivatedFields ==
  ASSUME NEW m, Shape(m)
  PROVE  LET r == Activated(m) IN r.clock = m.clock /\ Unserved(m, r) /\ r.dma.active
BY DEF Activated, Unserved, TablesKept, Shape, Fields, DmaFields

\* The first H-DMA of a frame is triggered, or not.
LEMMA TriggerInitOK ==
  ASSUME NEW m, Shape(m), NEW q \in Nat, NEW p \in Nat, NEW s \in Nat, HdmaOK(m, q, p),
         program \in Programs,
         ~m.dma.hdmaPending => s <= q, m.dma.hdmaPending => s <= p
  PROVE  LET r == TriggerInit(m) IN
         /\ HdmaOK(r, q, s) /\ r.clock.at = m.clock.at
         /\ r.clock.init \/ Dot(m) < InitPosition
<1> DEFINE c == [m.clock EXCEPT !.init = TRUE]
           n == [m EXCEPT !.clock = c]
           z == HdmaInitReset(n)
           mode == "init"
           y == Requested(z, mode)
           r == TriggerInit(m)
           Done(l) == HdmaOK(l, q, s) /\ l.clock.at = m.clock.at
                      /\ (l.clock.init \/ Dot(m) < InitPosition)
<1>1. r = IF m.clock.init \/ Dot(m) < InitPosition THEN m
          ELSE IF HdmaEnabled(z) = {} THEN z ELSE y
  BY DEF TriggerInit, Requested, Dot
<1>. HIDE DEF r
<1>0. /\ InitPosition \in Nat /\ Line \in Nat /\ Late \in Int /\ Late < Line
      /\ Dot(m) \in Nat /\ LineNow(m) \in Nat
  BY Slack, Sizes, Places DEF HdmaOK, Late
<1>2. CASE m.clock.init \/ Dot(m) < InitPosition
  <2>1. HdmaOK(m, q, s)
    BY OKWeaker
  <2>. QED  BY <1>1, <1>2, <2>1 DEF r
<1>3. CASE ~(m.clock.init \/ Dot(m) < InitPosition)
  <2>1. InFrame(m) /\ OnTime(m, q, p)
    BY DEF HdmaOK
  <2>2. ~(LineNow(m) > 0) /\ ~m.clock.run /\ ~m.dma.hdmaPending /\ Dot(m) + q <= Late
    BY <1>3, <2>1 DEF OnTime
  <2>3. LineNow(m) = 0 /\ ~(LineNow(m) >= Vdisp)
    BY <1>0, <2>2, Sizes
  <2>4. DOMAIN c = {"at", "init", "run"} /\ c.at = m.clock.at /\ c.at \in Nat /\ c.init
        /\ c.run = m.clock.run
    BY DEF Shape
  <2>. HIDE DEF c
  <2>5. Shape(n) /\ n.clock = c /\ n.dma = m.dma
    <3>1. Shape(n)
      BY <2>4, SetClock DEF Triggered, Follows
    <3>. QED  BY <3>1 DEF Shape, Fields
  <2>. HIDE DEF n
  <2>6. /\ Shape(z) /\ z.clock = c /\ z.dma = m.dma /\ z.ghost.clean = {}
        /\ z.ghost.moves = NoneMoved
    BY <2>5, ResetTables, HdmaInitResetKept DEF Same
  <2>. HIDE DEF z
  <2>7. /\ y.clock = c /\ y.ghost.clean = {} /\ y.ghost.moves = NoneMoved
        /\ y.dma.hdmaPending /\ y.dma.hdmaMode = "init"
    BY <2>6, RequestedFields DEF Frozen
  <2>. HIDE DEF y, mode
  <2>8. ASSUME NEW l, l.clock = c, l.ghost.clean = {}, l.ghost.moves = NoneMoved,
               l.dma.hdmaPending => l.dma.hdmaMode = "init"
        PROVE  Done(l)
    <3>1. InFrame(l) /\ LineNow(l) = LineNow(m) /\ Dot(l) = Dot(m)
      BY <2>1, <2>4, <2>8 DEF InFrame, LineNow, Dot
    <3>2. Dot(m) + s <= Late /\ Dot(m) + q < Line
      BY <1>0, <2>2
    <3>3. OnTime(l, q, s)
      BY <2>2, <2>3, <2>4, <2>8, <3>1, <3>2 DEF OnTime
    <3>4. OnTable(l)
      BY <2>8 DEF OnTable, InTable, NoneMoved
    <3>. QED  BY <2>4, <2>8, <3>1, <3>3, <3>4 DEF HdmaOK
  <2>9. Done(z) /\ Done(y)
    BY <2>2, <2>6, <2>7, <2>8
  <2>. HIDE DEF Done
  <2>10. Done(r)
    BY <1>1, <1>3, <2>9
  <2>. QED  BY <2>10 DEF Done, r
<1>. QED  BY <1>2, <1>3

\* That of a line is triggered, or not.
LEMMA TriggerRunOK ==
  ASSUME NEW m, Shape(m), NEW q \in Nat, NEW s \in Nat, HdmaOK(m, q, s), program \in Programs,
         s <= q, m.clock.init \/ Dot(m) < InitPosition
  PROVE  HdmaOK(TriggerRun(m, Dot(m)), Delay, s)
<1> DEFINE c == [m.clock EXCEPT !.run = TRUE]
           n == [m EXCEPT !.clock = c]
           mode == "run"
           y == Requested(n, mode)
           r == TriggerRun(m, Dot(m))
           v == LineNow(m)
<1>1. r = IF m.clock.run \/ Dot(m) < HdmaPosition THEN m
          ELSE IF HdmaActiveChannels(m) = {} THEN n ELSE y
  BY DEF TriggerRun, Requested, Shape, Fields
<1>. HIDE DEF r
<1>0. /\ InitPosition \in Nat /\ HdmaPosition \in Nat /\ Line \in Nat /\ Late \in Int
      /\ Late < HdmaPosition /\ HdmaPosition + Delay <= Line /\ InitPosition < HdmaPosition
      /\ Late = InitPosition - 1 + Delay /\ Vdisp \in Nat /\ Delay \in Nat
      /\ Dot(m) \in Nat /\ v \in Nat
  BY Slack, Sizes, Places DEF HdmaOK, Late
<1>2. InFrame(m) /\ OnTime(m, q, s) /\ OnTable(m)
  BY DEF HdmaOK
<1>3. CASE m.clock.run \/ Dot(m) < HdmaPosition
  <2>1. r = m
    BY <1>1, <1>3
  <2>2. ~m.clock.init => Dot(m) + Delay <= Late
    BY <1>0
  <2>3. ~m.clock.run => Dot(m) + Delay < Line
    BY <1>0, <1>3
  <2>4. OnTime(m, Delay, s)
    BY <1>2, <2>2, <2>3 DEF OnTime
  <2>. QED  BY <1>2, <2>1, <2>4 DEF HdmaOK, r
<1>4. CASE ~(m.clock.run \/ Dot(m) < HdmaPosition)
  <2>1. m.clock.init /\ ~m.clock.run /\ Dot(m) >= HdmaPosition
    BY <1>0, <1>4
  <2>2. ~m.dma.hdmaPending
    <3>1. m.dma.hdmaPending => Dot(m) + s <= Late
      BY <1>2, <2>1 DEF OnTime
    <3>. QED  BY <1>0, <2>1, <3>1
  <2>3. ~(v >= Vdisp) /\ Dot(m) + q < Line
    BY <1>2, <2>1, <2>2 DEF OnTime
  <2>4. InTable(m, v) /\ m.ghost.clean \subseteq Channel /\ DOMAIN m.ghost.moves = Channel
    BY <1>2, <2>1, <2>3 DEF OnTable, Counted
  <2>5. DOMAIN c = {"at", "init", "run"} /\ c.at = m.clock.at /\ c.at \in Nat /\ c.init /\ c.run
    BY <2>1 DEF Shape
  <2>. HIDE DEF c
  <2>6. /\ Shape(n) /\ n.clock = c /\ n.dma = m.dma /\ n.ghost = m.ghost
        /\ n.channel = m.channel
    <3>1. Shape(n)
      BY <2>5, SetClock DEF Triggered, Follows
    <3>. QED  BY <3>1 DEF Shape, Fields
  <2>. HIDE DEF n
  <2>7. /\ y.clock = c /\ y.ghost = m.ghost /\ y.channel = m.channel
        /\ y.dma.hdmaPending /\ y.dma.hdmaMode = "run"
    BY <2>6, RequestedFields DEF Frozen
  <2>. HIDE DEF y, mode
  <2>8. ASSUME NEW l, l.clock = c, l.ghost = m.ghost, l.channel = m.channel,
               l.dma.hdmaPending => l.dma.hdmaMode = "run",
               ~l.dma.hdmaPending => InTable(l, v + 1)
        PROVE  HdmaOK(l, Delay, s)
    <3>1. InFrame(l) /\ LineNow(l) = v /\ Dot(l) = Dot(m)
      BY <1>2, <2>5, <2>8 DEF InFrame, LineNow, Dot
    <3>2. Dot(m) + s < Line
      BY <1>0, <2>3
    <3>3. OnTime(l, Delay, s)
      BY <2>3, <2>5, <2>8, <3>1, <3>2 DEF OnTime
    <3>4. InTable(l, Counted(l))
      <4>1. CASE l.dma.hdmaPending
        <5>1. Counted(l) = v
          BY <2>3, <3>1, <4>1 DEF Counted
        <5>. QED  BY <2>4, <2>8, <5>1 DEF InTable
      <4>2. CASE ~l.dma.hdmaPending
        <5>1. Counted(l) = v + 1
          BY <2>3, <2>5, <2>8, <3>1, <4>2 DEF Counted
        <5>. QED  BY <2>8, <4>2, <5>1
      <4>. QED  BY <4>1, <4>2
    <3>5. OnTable(l)
      BY <2>4, <2>5, <2>8, <3>4 DEF OnTable
    <3>. QED  BY <3>1, <3>3, <3>5 DEF HdmaOK
  <2>9. CASE HdmaActiveChannels(m) = {}
    <3>1. r = n
      BY <1>1, <1>4, <2>9
    <3>2. ASSUME NEW k \in n.ghost.clean
          PROVE  /\ n.channel[k].hdma /\ Reads(k, n.channel[k], v + 1, 0)
                 /\ n.ghost.moves[k] = TransferLines(k) \cap 0 .. v
      <4>1. k \in Channel /\ k \in m.ghost.clean
        BY <2>4, <2>6, <3>2
      <4>2. /\ m.channel[k].hdma /\ Reads(k, m.channel[k], v, 0)
            /\ m.ghost.moves[k] = TransferLines(k) \cap 0 .. v - 1
        BY <2>4, <4>1 DEF InTable
      <4>3. m.channel[k].completed
        BY <2>9, <4>1, <4>2 DEF HdmaActiveChannels, HdmaActive
      <4>4. v \notin TransferLines(k) /\ Reads(k, m.channel[k], v + 1, 0)
        BY <1>0, <4>1, <4>2, <4>3, AllTabled, ReadsPast
      <4>5. 0 .. v = (0 .. v - 1) \cup {v}
        BY <1>0
      <4>6. m.ghost.moves[k] = TransferLines(k) \cap 0 .. v
        BY <4>2, <4>4, <4>5
      <4>. QED  BY <2>6, <4>2, <4>4, <4>6
    <3>3. InTable(n, v + 1)
      <4> DEFINE w == v + 1
      <4>. HIDE DEF w
      <4>1. \A k \in n.ghost.clean :
              /\ n.channel[k].hdma /\ Reads(k, n.channel[k], w, 0)
              /\ n.ghost.moves[k] = TransferLines(k) \cap 0 .. w - 1
        <5>1. w - 1 = v
          BY <1>0 DEF w
        <5>. QED  BY <3>2, <5>1 DEF w
      <4>2. InTable(n, w)
        BY <4>1 DEF InTable
      <4>. QED  BY <4>2 DEF w
    <3>4. HdmaOK(n, Delay, s)
      BY <2>2, <2>6, <2>8, <3>3
    <3>. QED  BY <3>1, <3>4 DEF r
  <2>10. CASE HdmaActiveChannels(m) # {}
    <3>1. r = y
      BY <1>1, <1>4, <2>10
    <3>2. HdmaOK(y, Delay, s)
      BY <2>7, <2>8
    <3>. QED  BY <3>1, <3>2 DEF r
  <2>. QED  BY <2>9, <2>10
<1>. QED  BY <1>3, <1>4

LEMMA TriggersOK ==
  ASSUME program \in Programs, NEW m, Shape(m), NEW q \in Nat, NEW p \in Nat, NEW s \in Nat,
         HdmaOK(m, q, p), s <= q, m.dma.hdmaPending => s <= p
  PROVE  LET r == Triggers(m) IN
         HdmaOK(r, Delay, s) /\ (r.dma.hdmaPending => r.dma.active)
<1> DEFINE i == TriggerInit(m)
           r == TriggerRun(i, Dot(m))
           t == Triggers(m)
<1>1. t = IF r.dma.active \/ ~(r.dma.pending \/ r.dma.hdmaPending) THEN r ELSE Activated(r)
  BY DEF Triggers, TriggerInit, TriggerRun, Activated, Dot
<1>. HIDE DEF t
<1>2. Shape(i) /\ HdmaOK(i, q, s) /\ Dot(i) = Dot(m) /\ (i.clock.init \/ Dot(i) < InitPosition)
  <2>1. Shape(i)
    BY TriggerInitTriggered DEF Triggered, Follows
  <2>2. /\ HdmaOK(i, q, s) /\ i.clock.at = m.clock.at
        /\ i.clock.init \/ Dot(m) < InitPosition
    BY TriggerInitOK
  <2>. HIDE DEF i
  <2>. QED  BY <2>1, <2>2 DEF Dot
<1>. HIDE DEF i
<1>3. Shape(r) /\ HdmaOK(r, Delay, s)
  <2>1. Shape(r)
    BY <1>2, TriggerRunTriggered DEF Triggered, Follows
  <2>2. HdmaOK(TriggerRun(i, Dot(i)), Delay, s)
    BY <1>2, TriggerRunOK
  <2>. QED  BY <1>2, <2>1, <2>2
<1>. HIDE DEF r
<1>4. HdmaOK(Activated(r), Delay, s) /\ Activated(r).dma.active
  BY <1>3, ActivatedFields, UnservedOK
<1>5. HdmaOK(t, Delay, s) /\ (t.dma.hdmaPending => t.dma.active)
  <2>1. CASE r.dma.active \/ ~(r.dma.pending \/ r.dma.hdmaPending)
    BY <1>1, <1>3, <2>1
  <2>2. CASE ~(r.dma.active \/ ~(r.dma.pending \/ r.dma.hdmaPending))
    BY <1>1, <1>4, <2>2
  <2>. QED  BY <2>1, <2>2
<1>. QED  BY <1>5 DEF t

-----------------------------------------------------------------------------
(* H-DMA, from step to step *)

\* A DMA has bytes to move, or a channel to close.
Left(m) == m.dma.stage # "next" \/ \E n \in Channel : n >= m.dma.at /\ m.channel[n].dma

\* The units until an H-DMA that is not pending is next looked for, and until one that is
\* pending is next done.
ToLook(s) == IF s \in {"main", "edge"} THEN 8 ELSE Delay
ToServe(m, s) ==
  IF s \in {"main", "edge"} THEN 2
  ELSE IF s = "access" THEN Access + 2
  ELSE IF Left(m) THEN 4 ELSE 2 * Access + 2

HdmaHolds(m, s) ==
  HdmaOK(m, ToLook(s), ToServe(m, s)) /\ (m.dma.hdmaPending => m.dma.active)

\* The invariant after a step that leaves m.
LEMMA HdmaAfter ==
  ASSUME NEW m, Becomes(m), HdmaHolds(m, step'), program' = program
  PROVE  HdmaHolds(Now, step)'
<1>1. /\ Now'.clock = m.clock /\ Now'.dma = m.dma /\ Now'.channel = m.channel
      /\ Now'.ghost = m.ghost
  BY DEF Becomes, Now
<1>2. /\ \A n, d, v, j : Reads(n, d, v, j)' <=> Reads(n, d, v, j)
      /\ \A n : TransferLines(n)' = TransferLines(n)
  BY DEF Reads, AtEntry, TransferLines
<1>3. OnTime(Now, ToLook(step), ToServe(Now, step))' /\ InFrame(Now)'
  BY <1>1 DEF HdmaHolds, HdmaOK, OnTime, InFrame, ToLook, ToServe, Left, LineNow, Dot
<1>4. Counted(Now)' = Counted(m)
  BY <1>1 DEF Counted, LineNow
<1>5. OnTable(Now)'
  BY <1>1, <1>2, <1>4 DEF HdmaHolds, HdmaOK, OnTable, InTable
<1>. QED  BY <1>1, <1>3, <1>5 DEF HdmaHolds, HdmaOK

LEMMA InitHdma == Init => HdmaHolds(Now, step)
<1>. SUFFICES ASSUME Init PROVE HdmaHolds(Now, step)
  OBVIOUS
<1>1. /\ program \in Programs /\ step = "main" /\ clock.at = 0 /\ ~clock.init /\ ~clock.run
      /\ ~dma.hdmaPending /\ ghost.clean = {} /\ ghost.moves = NoneMoved
  BY DEF Init, NoneMoved
<1>2. /\ Line \in Nat \ {0} /\ Vdisp \in Nat \ {0} /\ InitPosition \in Nat \ {0} /\ Delay \in Nat
      /\ Delay >= 9 /\ Frame \in Nat \ {0}
  <2>1. Frame \in Nat \ {0}
    BY FrameBounds
  <2>. QED  BY <1>1, <2>1, Slack, Sizes
<1>3. Dot(Now) = 0 /\ LineNow(Now) = 0
  <2>1. 0 \in Int /\ 0 \in 0 .. Line - 1 /\ 0 = Line * 0 + 0
    BY <1>2
  <2>2. PICK q \in Int :
          \E s \in 0 .. Line - 1 : q = 0 \div Line /\ s = 0 % Line /\ 0 = Line * q + s
    BY <1>2, <2>1, Division
  <2>3. PICK s \in 0 .. Line - 1 : s = 0 % Line /\ 0 = Line * q + s
    BY <2>2
  <2>4. Line * q + s = Line * 0 + 0
    BY <2>1, <2>3
  <2>5. s = 0 /\ q = 0
    BY <1>2, <2>1, <2>4, Remainder
  <2>. QED  BY <1>1, <2>2, <2>3, <2>5, NowFields DEF Dot, LineNow, LineOf
<1>4. InFrame(Now)
  BY <1>1, <1>2, NowFields DEF InFrame
<1>5. OnTime(Now, 8, 2)
  BY <1>1, <1>2, <1>3, NowFields DEF OnTime, Late
<1>6. OnTable(Now)
  BY <1>1, NowFields DEF OnTable, NoneMoved
<1>. QED  BY <1>1, <1>4, <1>5, <1>6, NowFields DEF HdmaHolds, HdmaOK, ToLook, ToServe

\* Nothing changes that H-DMA depends on, between two accesses.
LEMMA HoldsKept ==
  ASSUME NEW m, NEW r, NEW s \in {"main", "edge", "access"}, HdmaHolds(m, s),
         r.clock = m.clock, Unserved(m, r), r.dma.active = m.dma.active
  PROVE  HdmaHolds(r, s)
<1>1. ToServe(r, s) = ToServe(m, s)
  BY DEF ToServe
<1>2. HdmaOK(r, ToLook(s), ToServe(m, s))
  BY UnservedOK DEF HdmaHolds
<1>. QED  BY <1>1, <1>2 DEF HdmaHolds, Unserved

\* The time of an access passes.
LEMMA AccessHolds ==
  ASSUME program \in Programs, NEW m, NEW r, NEW s \in {"main", "edge"}, HdmaHolds(m, "access"),
         Passed(m, r, Access), r.dma.active = m.dma.active
  PROVE  HdmaHolds(r, s)
<1>1. /\ Delay \in Nat /\ Delay = Access + 8 /\ Access \in Nat /\ Line \in Nat /\ Access <= Line
      /\ Delay <= Line /\ InitPosition + Delay <= HdmaPosition
  BY Slack, Sizes
<1>2. HdmaOK(m, Delay, Access + 2) /\ (m.dma.hdmaPending => m.dma.active)
  BY DEF HdmaHolds, ToLook, ToServe
<1>3. 8 \in Nat /\ 2 \in Nat /\ Access + 2 \in Int /\ Access + 8 <= Delay
      /\ Access + 2 <= Access + 2 /\ Delay \in Int /\ Delay <= Delay
  BY <1>1
<1>4. HdmaOK(r, 8, 2)
  BY <1>1, <1>2, <1>3, PassedOK
<1>5. r.dma.hdmaPending = m.dma.hdmaPending
  BY DEF Passed, Unserved
<1>. QED  BY <1>2, <1>4, <1>5 DEF HdmaHolds, ToLook, ToServe

LEMMA MainHdma ==
  ASSUME CpuInv, HdmaHolds(Now, step), Main
  PROVE  HdmaHolds(Now, step)'
<1> DEFINE m == [Now EXCEPT !.irq = irq', !.ghost = ghost']
<1>0. Shape(Now) /\ program' = program
  BY DEF CpuInv, Main
<1>1. /\ m.clock = clock /\ m.dma = dma /\ m.channel = channel /\ m.irq = irq'
      /\ m.ghost = ghost' /\ m.pipe = pipe /\ m.alu = alu
  BY DEF Now
<1>2. Becomes(m) /\ step' = "edge" /\ step = "main"
  BY <1>1 DEF Main, Becomes
<1>. HIDE DEF m
<1>3. ghost'.clean = ghost.clean /\ ghost'.moves = ghost.moves
  <2>1. DOMAIN ghost = GhostFields
    BY <1>0, NowFields DEF Shape
  <2>. QED  BY <2>1 DEF Main, GhostFields
<1>4. m.clock = Now.clock /\ Unserved(Now, m) /\ m.dma.active = Now.dma.active
  BY <1>1, <1>3, NowFields DEF Unserved, TablesKept
<1>5. HdmaHolds(m, "main")
  BY <1>2, <1>4, HoldsKept
<1>6. HdmaHolds(m, step')
  BY <1>2, <1>5 DEF HdmaHolds, ToLook, ToServe
<1>. QED  BY <1>0, <1>2, <1>6, HdmaAfter

\* Neither the ALU nor the interrupts are what H-DMA depends on.
LEMMA AluUnserved ==
  ASSUME NEW m, Goes(m)
  PROVE  LET r == AluEdge(m) IN r.clock = m.clock /\ Unserved(m, r) /\ r.dma = m.dma
<1> DEFINE r == AluEdge(m)
<1>1. r.clock = m.clock /\ r.dma = m.dma /\ r.channel = m.channel /\ r.ghost = m.ghost
  BY AluEdgeFields DEF Goes, AluOK, AluHolds
<1>. HIDE DEF r
<1>. QED  BY <1>1 DEF Unserved, TablesKept, r

LEMMA IrqUnserved ==
  ASSUME NEW m, Shape(m), NEW i
  PROVE  LET r == WithIrq(m, i) IN r.clock = m.clock /\ Unserved(m, r) /\ r.dma = m.dma
BY DEF WithIrq, Shape, Fields, Unserved, TablesKept

\* An access passes, and its ALU's step.
LEMMA AccessPasses ==
  ASSUME NEW m, Goes(m), InFrame(m), NEW units \in 0 .. Access
  PROVE  LET s == Step(m, units)
             r == AluEdge(s)
         IN  /\ Passed(m, s, units) /\ s.dma.active = m.dma.active /\ Goes(s)
             /\ Passed(m, r, units) /\ r.dma.active = m.dma.active /\ Goes(r)
<1> DEFINE s == Step(m, units)
           r == AluEdge(s)
<1>1. Shape(m) /\ units \in Nat /\ units <= Line
  BY Sizes DEF Goes
<1>2. Passed(m, s, units)
  BY <1>1, StepPassed
<1>3. Later(m, s)
  BY <1>1, StepLater
<1>. HIDE DEF s
<1>4. Goes(s) /\ s.dma.active = m.dma.active
  BY <1>3, LaterGoes DEF Later, Same, Transfers
<1>5. r.clock = s.clock /\ Unserved(s, r) /\ r.dma = s.dma /\ Goes(r)
  BY <1>4, AluUnserved, AluEdgeGoes
<1>. HIDE DEF r
<1>6. Passed(m, r, units)
  BY <1>2, <1>5, PassedBefore
<1>. QED  BY <1>2, <1>4, <1>5, <1>6 DEF s, r

LEMMA PlainHdma ==
  ASSUME CpuInv, HdmaHolds(Now, step), Plain
  PROVE  HdmaHolds(Now, step)'
<1> DEFINE m == AluEdge(Step(Now, Access))
<1>0. /\ program \in Programs /\ Goes(Now) /\ program' = program /\ step = "access"
      /\ step' \in {"main", "edge"}
  <2>1. step = "access" /\ NextCycle /\ program' = program
    BY DEF Plain
  <2>. QED  BY <2>1, AccessStart, NextCycleHeld, NowFields DEF Goes
<1>1. PICK k : Becomes([m EXCEPT !.irq.masked = k])
  BY DEF Plain
<1>2. Passed(Now, m, Access) /\ m.dma.active = Now.dma.active /\ Goes(m)
  <2>1. Access \in 0 .. Access /\ InFrame(Now)
    BY Sizes DEF HdmaHolds, HdmaOK
  <2>. QED  BY <1>0, <2>1, AccessPasses
<1>. HIDE DEF m
<1> DEFINE i == [m.irq EXCEPT !.masked = k]
           r == WithIrq(m, i)
<1>3. Becomes(r)
  BY <1>1 DEF WithIrq
<1>. HIDE DEF i
<1>4. r.clock = m.clock /\ Unserved(m, r) /\ r.dma = m.dma
  BY <1>2, IrqUnserved DEF Goes
<1>. HIDE DEF r
<1>5. HdmaHolds(m, step')
  BY <1>0, <1>2, AccessHolds
<1>6. HdmaHolds(r, step')
  BY <1>0, <1>4, <1>5, HoldsKept
<1>. QED  BY <1>0, <1>3, <1>6, HdmaAfter

LEMMA WaitHdma ==
  ASSUME CpuInv, HdmaHolds(Now, step), Wait
  PROVE  HdmaHolds(Now, step)'
<1> DEFINE m == AluEdge(Step(Now, Access))
           i == [m.irq EXCEPT !.wai = TRUE]
           r == WithIrq(m, i)
<1>0. /\ program \in Programs /\ Goes(Now) /\ program' = program /\ step = "access"
      /\ step' = "edge"
  BY AccessStart DEF Wait
<1>1. Becomes(r)
  BY DEF Wait, WithIrq
<1>2. Passed(Now, m, Access) /\ m.dma.active = Now.dma.active /\ Goes(m)
  <2>1. Access \in 0 .. Access /\ InFrame(Now)
    BY Sizes DEF HdmaHolds, HdmaOK
  <2>. QED  BY <1>0, <2>1, AccessPasses
<1>. HIDE DEF m, i
<1>3. r.clock = m.clock /\ Unserved(m, r) /\ r.dma = m.dma
  BY <1>2, IrqUnserved DEF Goes
<1>. HIDE DEF r
<1>4. HdmaHolds(m, step')
  BY <1>0, <1>2, AccessHolds
<1>5. HdmaHolds(r, step')
  BY <1>0, <1>3, <1>4, HoldsKept
<1>. QED  BY <1>0, <1>1, <1>5, HdmaAfter

LEMMA ReadCPUHdma ==
  ASSUME CpuInv, HdmaHolds(Now, step), NEW reg, ReadCPU(reg)
  PROVE  HdmaHolds(Now, step)'
<1> DEFINE s == Step(Now, Access - 1)
           i == Acknowledged(reg, s.irq)
           a == WithIrq(s, i)
           o == Step(a, 1)
           r == AluEdge(o)
<1>0. /\ program \in Programs /\ Goes(Now) /\ program' = program /\ step = "access"
      /\ step' \in {"main", "edge"} /\ InFrame(Now)
  <2>1. step = "access" /\ NextCycle /\ program' = program
    BY DEF ReadCPU, Accesses
  <2>. QED  BY <2>1, AccessStart, NextCycleHeld, NowFields DEF Goes, HdmaHolds, HdmaOK
<1>1. Becomes(r)
  BY DEF ReadCPU, WithIrq
<1>2. /\ Access \in Nat \ {0} /\ Access - 1 \in Nat /\ Access - 1 \in 0 .. Access
      /\ 1 \in 0 .. Access /\ Access - 1 + 1 = Access /\ Access < Line /\ Line \in Nat
  BY Sizes
<1>3. Passed(Now, s, Access - 1) /\ s.dma.active = Now.dma.active /\ Goes(s)
  BY <1>0, <1>2, AccessPasses
<1>. HIDE DEF s, i
<1>4. a.clock = s.clock /\ Unserved(s, a) /\ a.dma = s.dma
  BY <1>3, IrqUnserved DEF Goes
<1>5. Goes(a)
  <2>1. /\ DOMAIN i = IrqFields
        /\ \A x \in IrqFields \ {"nmiLine", "irqLine", "irqTransition"} : i[x] = s.irq[x]
    BY <1>3, AcknowledgedFields DEF Goes, Shape, i
  <2>2. Shape(a) /\ Resting(a) /\ AluOK(a) /\ a.irq = i /\ a.ghost = s.ghost
    BY <1>3, <2>1, SetIrq DEF Goes
  <2>. HIDE DEF a
  <2>. QED  BY <1>3, <2>1, <2>2 DEF Goes, Accounted, IrqHeld, IrqFields
<1>. HIDE DEF a
<1>6. Passed(Now, a, Access - 1) /\ InFrame(a)
  <2>1. Passed(Now, a, Access - 1)
    BY <1>3, <1>4, PassedBefore
  <2>. QED  BY <2>1 DEF Passed, InFrame
<1>7. Passed(a, r, 1) /\ r.dma.active = a.dma.active
  BY <1>2, <1>5, <1>6, AccessPasses
<1>. HIDE DEF r
<1>8. Passed(Now, r, Access)
  <2>1. Dot(Now) + (Access - 1) + 1 < 2 * Line
    <3>1. Dot(Now) \in 0 .. Line - 1
      BY <1>0, Places
    <3>. QED  BY <1>2, <3>1
  <2> DEFINE u == Access - 1
  <2>2. u \in Nat /\ 1 \in Nat /\ u + 1 = Access /\ Dot(Now) + u + 1 < 2 * Line
        /\ Passed(Now, a, u)
    BY <1>2, <1>6, <2>1
  <2>. HIDE DEF u
  <2>3. Passed(Now, r, u + 1)
    BY <1>0, <1>6, <1>7, <2>2, PassedTransitive
  <2>. QED  BY <2>2, <2>3
<1>9. HdmaHolds(r, step')
  <2>1. r.dma.active = Now.dma.active
    BY <1>3, <1>4, <1>7
  <2>. QED  BY <1>0, <1>8, <2>1, AccessHolds
<1>. QED  BY <1>0, <1>1, <1>9, HdmaAfter

\* Fewer channels are as they were.
LEMMA FewerOK ==
  ASSUME NEW m, NEW r, NEW q, NEW p, HdmaOK(m, q, p), r.clock = m.clock, r.dma = m.dma,
         r.ghost.clean \subseteq m.ghost.clean, r.ghost.moves = m.ghost.moves,
         \A n \in r.ghost.clean :
           /\ m.channel[n].hdma => r.channel[n].hdma
           /\ \A x \in TableFields \ {"hdma"} : r.channel[n][x] = m.channel[n][x]
  PROVE  HdmaOK(r, q, p)
<1>1. InFrame(r) /\ OnTime(r, q, p)
  BY DEF HdmaOK, InFrame, OnTime, LineNow, Dot
<1>2. Counted(r) = Counted(m)
  BY DEF Counted, LineNow
<1>3. ASSUME NEW v, InTable(m, v) PROVE InTable(r, v)
  <2>. SUFFICES ASSUME NEW n \in r.ghost.clean
                PROVE  /\ r.channel[n].hdma /\ Reads(n, r.channel[n], v, 0)
                       /\ r.ghost.moves[n] = TransferLines(n) \cap 0 .. v - 1
    BY DEF InTable
  <2>1. /\ m.channel[n].hdma /\ Reads(n, m.channel[n], v, 0)
        /\ m.ghost.moves[n] = TransferLines(n) \cap 0 .. v - 1
    BY <1>3 DEF InTable
  <2>2. /\ m.channel[n].hdma => r.channel[n].hdma
        /\ r.channel[n].line = m.channel[n].line
        /\ r.channel[n].completed = m.channel[n].completed
        /\ r.channel[n].transfer = m.channel[n].transfer
        /\ r.channel[n].address = m.channel[n].address
    BY DEF TableFields
  <2>3. Reads(n, r.channel[n], v, 0)
    BY <2>1, <2>2 DEF Reads, AtEntry
  <2>. QED  BY <2>1, <2>2, <2>3
<1>4. OnTable(r)
  BY <1>2, <1>3 DEF HdmaOK, OnTable
<1>. QED  BY <1>1, <1>4 DEF HdmaOK

LEMMA DmaEnableUnserved ==
  ASSUME NEW m, Shape(m), NEW on
  PROVE  LET r == WriteDmaEnable(m, on) IN
         r.clock = m.clock /\ Unserved(m, r) /\ r.dma.active = m.dma.active
<1> DEFINE r == WriteDmaEnable(m, on)
           c == [n \in Channel |-> [m.channel[n] EXCEPT !.dma = n \in on]]
           p == m.dma.pending \/ on # {}
           w == m.ghost.withdrawn \/ (m.dma.pending /\ on = {})
<1>1. r = [m EXCEPT !.channel = c, !.dma.pending = p, !.ghost.withdrawn = w]
  BY DEF WriteDmaEnable
<1>2. \A n \in Channel : \A x \in TableFields : c[n][x] = m.channel[n][x]
  BY DEF Shape, ChannelFields, TableFields
<1>. HIDE DEF c, p, w, r
<1>3. /\ r.clock = m.clock /\ r.channel = c /\ r.dma = [m.dma EXCEPT !.pending = p]
      /\ r.ghost = [m.ghost EXCEPT !.withdrawn = w]
  BY <1>1 DEF Shape, Fields
<1>4. /\ r.dma.hdmaPending = m.dma.hdmaPending /\ r.dma.hdmaMode = m.dma.hdmaMode
      /\ r.dma.active = m.dma.active
  BY <1>3 DEF Shape, DmaFields
<1>5. r.ghost.clean = m.ghost.clean /\ r.ghost.moves = m.ghost.moves
  BY <1>3 DEF Shape, GhostFields
<1>. QED  BY <1>2, <1>3, <1>4, <1>5 DEF Unserved, TablesKept, r

LEMMA HdmaEnableFewer ==
  ASSUME NEW m, Shape(m), m.ghost.clean \subseteq Channel, NEW on
  PROVE  LET r == WriteHdmaEnable(m, on) IN
         /\ r.clock = m.clock /\ r.dma = m.dma /\ r.ghost.moves = m.ghost.moves
         /\ r.ghost.clean \subseteq m.ghost.clean
         /\ \A n \in r.ghost.clean :
              /\ m.channel[n].hdma => r.channel[n].hdma
              /\ \A x \in TableFields \ {"hdma"} : r.channel[n][x] = m.channel[n][x]
<1> DEFINE r == WriteHdmaEnable(m, on)
           c == [n \in Channel |-> [m.channel[n] EXCEPT !.hdma = n \in on]]
           w == m.ghost.withdrawn \/ (m.dma.hdmaPending /\ on = {})
           k == m.ghost.clean \cap {n \in Channel : m.channel[n].hdma <=> n \in on}
<1>1. r = [m EXCEPT !.channel = c, !.ghost.withdrawn = w, !.ghost.clean = k]
  BY DEF WriteHdmaEnable
<1>2. /\ \A n \in Channel : \A x \in TableFields \ {"hdma"} : c[n][x] = m.channel[n][x]
      /\ \A n \in Channel : c[n].hdma = (n \in on)
  BY DEF Shape, ChannelFields, TableFields
<1>3. k \subseteq m.ghost.clean /\ k \subseteq Channel
  OBVIOUS
<1>4. \A n \in k : m.channel[n].hdma <=> n \in on
  OBVIOUS
<1>. HIDE DEF c, w, k, r
<1>5. /\ r.clock = m.clock /\ r.channel = c /\ r.dma = m.dma
      /\ r.ghost = [m.ghost EXCEPT !.withdrawn = w, !.clean = k]
  BY <1>1 DEF Shape, Fields
<1>6. r.ghost.clean = k /\ r.ghost.moves = m.ghost.moves
  BY <1>5 DEF Shape, GhostFields
<1>7. ASSUME NEW n \in k
      PROVE  /\ m.channel[n].hdma => c[n].hdma
             /\ \A x \in TableFields \ {"hdma"} : c[n][x] = m.channel[n][x]
  BY <1>2, <1>3, <1>4
<1>. QED  BY <1>3, <1>5, <1>6, <1>7 DEF r

LEMMA WriteCPUHdma ==
  ASSUME CpuInv, HdmaHolds(Now, step), NEW reg \in Registers, WriteCPU(reg)
  PROVE  HdmaHolds(Now, step)'
<1> DEFINE a == AluEdge(Now)
           m == Step(a, Access)
<1>0. /\ program \in Programs /\ Goes(Now) /\ program' = program /\ step = "access"
      /\ step' \in {"main", "edge"} /\ InFrame(Now) /\ reg \in DOMAIN program.writes
  <2>1. step = "access" /\ NextCycle /\ program' = program /\ reg \in DOMAIN program.writes
    BY DEF WriteCPU, Accesses
  <2>. QED  BY <2>1, AccessStart, NextCycleHeld, NowFields DEF Goes, HdmaHolds, HdmaOK
<1>1. PICK v \in program.writes[reg] : Becomes(Written(reg, m, v))
  BY DEF WriteCPU
<1>2. a.clock = clock /\ Unserved(Now, a) /\ a.dma = dma /\ Goes(a)
  BY <1>0, AluUnserved, AluEdgeGoes, NowFields
<1>. HIDE DEF a
<1>3. Passed(a, m, Access) /\ m.dma.active = dma.active /\ Goes(m)
  <2>1. Access \in 0 .. Access /\ InFrame(a)
    BY <1>0, <1>2, Sizes, NowFields DEF InFrame
  <2>. QED  BY <1>2, <2>1, AccessPasses
<1>. HIDE DEF m
<1>4. HdmaHolds(m, step')
  <2>1. HdmaHolds(a, "access")
    BY <1>0, <1>2, HoldsKept, NowFields
  <2>. QED  BY <1>0, <1>2, <1>3, <2>1, AccessHolds
<1>5. Shape(m) /\ m.alu \in AluRegisters /\ m.ghost.clean \subseteq Channel
  BY <1>3, <1>4 DEF Goes, AluOK, AluHolds, HdmaHolds, HdmaOK, OnTable
<1> DEFINE r == Written(reg, m, v)
<1>6. CASE reg = "420c"
  <2>1. r = WriteHdmaEnable(m, v)
    BY <1>6 DEF Written
  <2>. HIDE DEF r
  <2>2. /\ r.clock = m.clock /\ r.dma = m.dma /\ r.ghost.moves = m.ghost.moves
        /\ r.ghost.clean \subseteq m.ghost.clean
        /\ \A n \in r.ghost.clean :
             /\ m.channel[n].hdma => r.channel[n].hdma
             /\ \A x \in TableFields \ {"hdma"} : r.channel[n][x] = m.channel[n][x]
    BY <1>5, <2>1, HdmaEnableFewer
  <2>3. HdmaOK(r, ToLook(step'), ToServe(m, step'))
    BY <1>4, <2>2, FewerOK DEF HdmaHolds
  <2>4. ToServe(r, step') = ToServe(m, step')
    BY <1>0 DEF ToServe
  <2>5. HdmaHolds(r, step')
    BY <1>4, <2>2, <2>3, <2>4 DEF HdmaHolds
  <2>. QED  BY <1>0, <1>1, <2>5, HdmaAfter DEF r
<1>7. CASE reg # "420c"
  <2>1. r.clock = m.clock /\ Unserved(m, r) /\ r.dma.active = m.dma.active
    <3>1. CASE reg = "420b"
      <4>1. r = WriteDmaEnable(m, v)
        BY <3>1 DEF Written
      <4>. HIDE DEF r
      <4>. QED  BY <1>5, <4>1, DmaEnableUnserved
    <3>2. ASSUME Kept(m, r) PROVE r.clock = m.clock /\ Unserved(m, r) /\ r.dma.active = m.dma.active
      <4>. HIDE DEF r
      <4>. QED  BY <3>2 DEF Kept, Unserved
    <3>3. CASE reg = "4200"
      <4>1. Kept(m, r)
        BY <1>5, <3>3, NmitimenKeeps
      <4>. QED  BY <3>2, <4>1
    <3>4. CASE reg = "size"
      <4> DEFINE x == "size"
                 n == v.n
                 k == v.size
      <4>1. n \in Channel
        BY <1>0, <1>1, <3>4, CpuAssumption
      <4>2. r = [m EXCEPT !.channel[n][x] = k]
        BY <3>4 DEF Written
      <4>. HIDE DEF n, k, r
      <4>3. Kept(m, r)
        BY <1>5, <4>1, <4>2, ChannelKeeps
      <4>. QED  BY <3>2, <4>3
    <3>5. CASE reg = "source"
      <4> DEFINE x == "source"
      <4>1. v \in Channel
        BY <1>0, <1>1, <3>5, CpuAssumption
      <4>2. r = [m EXCEPT !.channel[v][x] = 0]
        BY <3>5 DEF Written
      <4>. HIDE DEF r
      <4>3. Kept(m, r)
        BY <1>5, <4>1, <4>2, ChannelKeeps
      <4>. QED  BY <3>2, <4>3
    <3>6. CASE reg \in {"mpy", "div"}
      <4>1. Kept(m, r)
        BY <1>5, <3>6, FactorKeeps, DivisorKeeps DEF Written
      <4>. QED  BY <3>2, <4>1
    <3>. QED  BY <1>7, <3>1, <3>3, <3>4, <3>5, <3>6 DEF Registers
  <2>. HIDE DEF r
  <2>2. HdmaHolds(r, step')
    BY <1>0, <1>4, <2>1, HoldsKept
  <2>. QED  BY <1>0, <1>1, <2>2, HdmaAfter DEF r
<1>. QED  BY <1>6, <1>7

\* Nor are where a DMA is, whether one is pending, and what it writes.
LEMMA EdgeStartUnserved ==
  ASSUME CpuInv
  PROVE  LET t == EdgeStart IN t.clock = clock /\ Unserved(Now, t) /\ t.dma = dma
<1> DEFINE t == EdgeStart
           tested == cycle \in {"last", "wait"}
           i == IF tested THEN LastCycle(irq) ELSE irq
           seen == IF tested THEN irq.masked ELSE ghost.seen
           g == [ghost EXCEPT !.seen = seen]
<1>0. Shape(Now)
  BY DEF CpuInv
<1>1. g.clean = ghost.clean /\ g.moves = ghost.moves
  <2>1. DOMAIN ghost = GhostFields
    BY <1>0, NowFields DEF Shape
  <2>. HIDE DEF seen
  <2>. QED  BY <2>1 DEF GhostFields
<1>2. t = [Now EXCEPT !.irq = i, !.ghost = g]
  BY NowFields DEF EdgeStart, Now
<1>. HIDE DEF i, g, t
<1>3. t.clock = clock /\ t.dma = dma /\ t.channel = channel /\ t.ghost = g
  BY <1>0, <1>2, NowFields DEF Shape, Fields
<1>. QED  BY <1>1, <1>3, NowFields DEF Unserved, TablesKept, t

LEMMA FlushUnserved ==
  ASSUME NEW m, Shape(m), PipeValid(m)
  PROVE  LET r == DmaFlush(m) IN
         /\ r.clock = m.clock /\ Unserved(m, r) /\ r.dma = m.dma /\ r.channel = m.channel
         /\ Shape(r) /\ ~r.pipe.valid
<1> DEFINE r == DmaFlush(m)
<1>1. Frozen(m, r) /\ r.dma = m.dma
  BY DmaWriteFrozen DEF DmaFlush
<1>2. Same(m, r) /\ r.channel = m.channel /\ ~r.pipe.valid
  BY DmaFlushSame
<1>. HIDE DEF r
<1>. QED  BY <1>1, <1>2 DEF Frozen, Same, Unserved, TablesKept, r

LEMMA TransferUnserved ==
  ASSUME NEW m, Shape(m), PipeValid(m), NEW n
  PROVE  LET r == DmaTransfer(m, n) IN
         /\ r.clock = m.clock /\ Unserved(m, r) /\ r.dma = m.dma /\ r.channel = m.channel
         /\ Shape(r) /\ PipeValid(r)
<1> DEFINE r == DmaTransfer(m, n)
<1>1. Frozen(m, r) /\ r.dma = m.dma
  BY DmaWriteFrozen DEF DmaTransfer
<1>2. Same(m, r) /\ r.channel = m.channel /\ PipeValid(r)
  BY DmaTransferSame
<1>. HIDE DEF r
<1>. QED  BY <1>1, <1>2 DEF Frozen, Same, Unserved, TablesKept, r

LEMMA AtUnserved ==
  ASSUME NEW m, Shape(m), NEW k, NEW stage
  PROVE  LET r == At(m, k, stage) IN
         /\ r.clock = m.clock /\ Unserved(m, r) /\ r.dma.active = m.dma.active
         /\ r.channel = m.channel /\ r.dma.at = k /\ r.dma.stage = stage
BY DEF At, Shape, Fields, DmaFields, Unserved, TablesKept

LEMMA PendingUnserved ==
  ASSUME NEW m, Shape(m)
  PROVE  LET r == [m EXCEPT !.dma.pending = FALSE] IN
         r.clock = m.clock /\ Unserved(m, r) /\ r.dma.active = m.dma.active
BY DEF Shape, Fields, DmaFields, Unserved, TablesKept

\* A dmaEdge() within dmaRun() comes in time.
LEMMA NestedOK ==
  ASSUME program \in Programs, NEW m, Shape(m), PipeValid(m), NEW q \in Nat, NEW s \in Nat,
         s <= q, s <= 8, HdmaOK(m, q, 2), m.dma.hdmaPending => m.dma.active
  PROVE  LET r == NestedEdge(m) IN
         HdmaOK(r, Delay, s) /\ (r.dma.hdmaPending => r.dma.active)
<1> DEFINE h == HdmaPart(m)
<1>1. NestedEdge(m) = Triggers(h)
  BY DEF NestedEdge
<1>2. Shape(h)
  BY HdmaPartFollows DEF Follows
<1>3. 8 \in Nat /\ 2 \in Nat
  OBVIOUS
<1>4. CASE m.dma.hdmaPending
  <2>1. HdmaOK(m, 8, 2)
    <3>1. q \in Int /\ 8 \in Int /\ 2 \in Int /\ 2 <= 2
      OBVIOUS
    <3>. QED  BY <1>4, <3>1, OKWeaker
  <2>2. HdmaOK(h, 8, 8) /\ ~h.dma.hdmaPending
    BY <2>1, HdmaPartOK
  <2>. HIDE DEF h
  <2>. QED  BY <1>1, <1>2, <1>3, <2>2, TriggersOK
<1>5. CASE ~m.dma.hdmaPending
  <2>1. h = m
    BY <1>5, HdmaPartFollows
  <2>. HIDE DEF h
  <2>. QED  BY <1>1, <1>3, <1>5, <2>1, TriggersOK
<1>. QED  BY <1>4, <1>5

LEMMA EdgeHdma ==
  ASSUME CpuInv, HdmaHolds(Now, step), Edge
  PROVE  HdmaHolds(Now, step)'
<1> DEFINE t == EdgeStart
           h == HdmaPart(t)
           p == [h EXCEPT !.dma.pending = FALSE]
           g == Align(p)
           q == At(g, 0, "next")
           s == DmaStep(q, 2)
           f == DmaFlush(s)
           n == NestedEdge(f)
           x == IF dma.active THEN p ELSE h
           m == Triggers(x)
           runs == dma.active /\ h.dma.pending /\ DmaEnabled(h) # {}
<1>1. /\ step = "edge" /\ program' = program /\ program \in Programs
      /\ IF runs THEN step' = "dma" /\ Becomes(n) ELSE step' = "access" /\ Becomes(m)
  BY DEF Edge, EdgeStart, At, CpuInv
<1>0. /\ Access \in 1 .. 3 /\ Line \in Nat /\ Delay = Access + 8 /\ Delay <= Line
      /\ InitPosition + Delay <= HdmaPosition /\ Delay \in Nat
  BY <1>1, Slack, Sizes
<1>2. Shape(t) /\ PipeValid(t) /\ HdmaOK(t, 8, 2) /\ (t.dma.hdmaPending => t.dma.active)
  <2>1. Shape(t) /\ Resting(t)
    BY <1>1, EdgeStartFacts
  <2>2. t.clock = clock /\ Unserved(Now, t) /\ t.dma = dma
    BY EdgeStartUnserved
  <2>. HIDE DEF t
  <2>3. HdmaHolds(t, "edge")
    BY <1>1, <2>2, HoldsKept, NowFields
  <2>. QED  BY <2>1, <2>3 DEF Resting, PipeValid, HdmaHolds, ToLook, ToServe
<1>. HIDE DEF t
<1>3. HdmaOK(h, 8, 8) /\ ~h.dma.hdmaPending
  BY <1>1, <1>2, HdmaPartOK
<1>4. Shape(h) /\ PipeValid(h)
  BY <1>1, <1>2, HdmaPartFollows DEF Follows
<1>. HIDE DEF h
<1>5. /\ Shape(p) /\ p.channel = h.channel /\ p.pipe = h.pipe
      /\ p.clock = h.clock /\ Unserved(h, p) /\ p.dma.active = h.dma.active
  BY <1>4, ClearPending, PendingUnserved
<1>. HIDE DEF p
<1>6. HdmaOK(p, 8, 8) /\ ~p.dma.hdmaPending
  BY <1>3, <1>5, UnservedOK DEF Unserved
<1>7. CASE ~runs
  <2>1. Shape(x) /\ HdmaOK(x, 8, 8) /\ ~x.dma.hdmaPending
    BY <1>3, <1>4, <1>5, <1>6
  <2>. HIDE DEF x
  <2> DEFINE u == Access + 2
  <2>2. u \in Nat /\ 8 \in Nat /\ u <= 8
    BY <1>0
  <2>3. HdmaOK(m, Delay, u) /\ (m.dma.hdmaPending => m.dma.active)
    <3>. HIDE DEF u
    <3>. QED  BY <1>1, <2>1, <2>2, TriggersOK
  <2>. HIDE DEF m
  <2>4. step' = "access" /\ Becomes(m)
    BY <1>1, <1>7
  <2>5. HdmaHolds(m, step')
    BY <2>3, <2>4 DEF HdmaHolds, ToLook, ToServe
  <2>. QED  BY <1>1, <2>4, <2>5, HdmaAfter
<1>8. CASE runs
  <2>1. PICK u \in 1 .. 2 : Passed(p, g, u)
    BY <1>0, <1>5, <1>6, AlignPassed DEF HdmaOK
  <2>2. Later(p, g)
    BY <1>5, AlignLater
  <2>. HIDE DEF g
  <2>3. Shape(g) /\ g.channel = p.channel /\ g.pipe = p.pipe /\ InFrame(g)
    BY <2>1, <2>2 DEF Later, Same, Passed, InFrame
  <2>4. /\ q.clock = g.clock /\ Unserved(g, q) /\ q.channel = g.channel /\ Shape(q)
        /\ q.pipe = g.pipe /\ q.dma.at = 0 /\ InFrame(q)
    <3>1. q.clock = g.clock /\ Unserved(g, q) /\ q.channel = g.channel /\ q.dma.at = 0
      BY <2>3, AtUnserved
    <3>2. Shape(q) /\ q.pipe = g.pipe
      BY <2>3, SetAt
    <3>. HIDE DEF q
    <3>. QED  BY <2>3, <3>1, <3>2 DEF InFrame
  <2>. HIDE DEF q
  <2>5. Passed(q, s, 2)
    <3>1. 2 \in Nat /\ 2 <= Line
      BY <1>0
    <3>. QED  BY <2>4, <3>1, DmaStepPassed
  <2>6. Later(q, s)
    BY <2>4, DmaStepLater
  <2>. HIDE DEF s
  <2>7. Shape(s) /\ s.channel = h.channel /\ s.pipe = h.pipe /\ s.dma.at = 0
    BY <1>5, <2>3, <2>4, <2>6 DEF Later, Same, Transfers
  <2>8. HdmaOK(s, 4, 4) /\ ~s.dma.hdmaPending
    <3>0. 8 \in Int /\ 6 \in Nat /\ 4 \in Nat /\ 6 \in Int /\ 2 \in Nat
      OBVIOUS
    <3>1. HdmaOK(g, 6, 6)
      <4>1. u \in Nat /\ u + 6 <= 8 /\ u <= Line /\ 8 <= Line /\ 8 <= Delay
        BY <1>0, <2>1
      <4>. QED  BY <1>0, <1>6, <2>1, <3>0, <4>1, PassedOK
    <3>2. ~g.dma.hdmaPending
      BY <1>6, <2>1 DEF Passed, Unserved
    <3>3. HdmaOK(q, 6, 6) /\ ~q.dma.hdmaPending
      BY <2>4, <3>1, <3>2, UnservedOK DEF Unserved
    <3>4. 2 + 4 <= 6 /\ 2 <= Line /\ 6 <= Line /\ 6 <= Delay
      BY <1>0
    <3>5. HdmaOK(s, 4, 4)
      BY <1>0, <2>5, <3>0, <3>3, <3>4, PassedOK
    <3>. QED  BY <2>5, <3>3, <3>5 DEF Passed, Unserved
  <2>9. PipeValid(s)
    BY <1>4, <2>7 DEF PipeValid
  <2>10. /\ f.clock = s.clock /\ Unserved(s, f) /\ f.dma = s.dma /\ f.channel = s.channel
         /\ Shape(f) /\ ~f.pipe.valid
    BY <2>7, <2>9, FlushUnserved
  <2>. HIDE DEF f
  <2>11. HdmaOK(f, 4, 2) /\ ~f.dma.hdmaPending /\ PipeValid(f)
    <3>1. HdmaOK(f, 4, 4) /\ ~f.dma.hdmaPending
      BY <2>8, <2>10, UnservedOK DEF Unserved
    <3>2. 4 \in Int /\ 2 \in Int /\ 4 <= 4
      OBVIOUS
    <3>. QED  BY <2>10, <3>1, <3>2, OKWeaker DEF PipeValid
  <2>12. HdmaOK(n, Delay, 4) /\ (n.dma.hdmaPending => n.dma.active)
    <3>1. 4 \in Nat /\ 4 <= 4 /\ 4 <= 8
      OBVIOUS
    <3>. QED  BY <1>1, <2>10, <2>11, <3>1, NestedOK
  <2>13. DmaEnabled(n) = DmaEnabled(f) /\ n.dma.at = f.dma.at
    <3>1. n = Triggers(f)
      BY <1>1, <2>10, <2>11, HdmaPartFollows DEF NestedEdge
    <3>. HIDE DEF n
    <3>2. Follows(f, n) /\ FlagsKept(n, f)
      BY <2>10, <3>1, TriggersFollow
    <3>. QED  BY <3>2, EnabledKept DEF Follows
  <2>. HIDE DEF n
  <2>14. Left(n)
    <3>1. DmaEnabled(n) # {} /\ n.dma.at = 0
      BY <1>8, <2>7, <2>10, <2>13 DEF DmaEnabled
    <3>2. \A k \in Channel : k >= 0
      BY DEF Channel
    <3>. QED  BY <3>1, <3>2 DEF DmaEnabled, Left
  <2>15. step' = "dma" /\ Becomes(n)
    BY <1>1, <1>8
  <2>16. HdmaHolds(n, step')
    BY <2>12, <2>14, <2>15 DEF HdmaHolds, ToLook, ToServe
  <2>. QED  BY <1>1, <2>15, <2>16, HdmaAfter
<1>. QED  BY <1>7, <1>8

\* A channel changes, but not its table.
LEMMA ChannelUnserved ==
  ASSUME NEW m, Shape(m), NEW n \in Channel, NEW c, DOMAIN c = ChannelFields,
         \A x \in TableFields : c[x] = m.channel[n][x]
  PROVE  LET r == [m EXCEPT !.channel[n] = c] IN
         /\ r.clock = m.clock /\ Unserved(m, r) /\ r.dma = m.dma
         /\ Shape(r) /\ r.pipe = m.pipe
<1> DEFINE r == [m EXCEPT !.channel[n] = c]
<1>1. /\ Same(m, r) /\ r.pipe = m.pipe /\ r.clock = m.clock /\ r.dma = m.dma
      /\ r.channel[n] = c /\ \A k \in Channel \ {n} : r.channel[k] = m.channel[k]
  BY SetChannel
<1>2. r.ghost = m.ghost
  BY DEF Shape, Fields
<1>. HIDE DEF r
<1>3. TablesKept(m, r)
  BY <1>1, <1>2 DEF TablesKept
<1>. QED  BY <1>1, <1>3 DEF Same, Unserved, r

\* A step of dmaRun(), and the dmaEdge() that follows it.
LEMMA RunStepOK ==
  ASSUME program \in Programs, NEW a, Shape(a), PipeValid(a), NEW p \in Int, 4 <= p,
         HdmaOK(a, Delay, p), a.dma.hdmaPending => a.dma.active
  PROVE  LET s == DmaStep(a, 2) IN
         /\ Shape(s) /\ PipeValid(s) /\ HdmaOK(s, Delay - 2, 2)
         /\ s.dma.hdmaPending => s.dma.active
<1> DEFINE s == DmaStep(a, 2)
           q == Delay - 2
<1>0. /\ Access \in 1 .. 3 /\ Line \in Nat /\ Delay = Access + 8 /\ Delay <= Line
      /\ InitPosition + Delay <= HdmaPosition /\ Delay \in Nat
  BY Slack, Sizes
<1>1. 2 \in Nat /\ 2 <= Line /\ q \in Nat /\ 2 + q <= Delay /\ 2 + 2 <= p /\ Delay <= Delay
      /\ Delay \in Int
  BY <1>0
<1>2. Passed(a, s, 2)
  BY <1>1, DmaStepPassed DEF HdmaOK
<1>3. Later(a, s)
  BY DmaStepLater
<1>. HIDE DEF s, q
<1>4. HdmaOK(s, q, 2)
  BY <1>0, <1>1, <1>2, PassedOK
<1>5. Shape(s) /\ PipeValid(s) /\ (s.dma.hdmaPending => s.dma.active)
  BY <1>3 DEF Later, Same, Transfers, PipeValid
<1>. QED  BY <1>4, <1>5 DEF s, q

LEMMA DmaByteHdma ==
  ASSUME CpuInv, HdmaHolds(Now, step), NEW n \in Channel, DmaByte(n)
  PROVE  HdmaHolds(Now, step)'
<1> DEFINE c == DmaAddress(channel[n], n)
           a == [Now EXCEPT !.channel[n] = c]
           s == DmaStep(a, 2)
           moved == DmaTransfer(s, n)
           m == NestedEdge(moved)
           left == (m.channel[n].size + SizeWidth - 1) % SizeWidth
           stage == IF left = 0 THEN "close" ELSE "bytes"
           e == [m.channel[n] EXCEPT !.size = left]
           k == [m EXCEPT !.channel[n] = e]
<1>0. /\ program \in Programs /\ Shape(Now) /\ PipeValid(Now) /\ step = "dma"
      /\ step' = "dma" /\ program' = program
  BY NowFollows DEF DmaByte
<1>1. IF m.channel[n].dma
        THEN Becomes([m EXCEPT !.channel[n].size = left, !.dma.at = n,
                               !.dma.stage = IF left = 0 THEN "close" ELSE "bytes"])
        ELSE Becomes([m EXCEPT !.dma.at = n, !.dma.stage = "close"])
  BY NowFields DEF DmaByte
<1>2. DOMAIN c = ChannelFields /\ \A x \in TableFields : c[x] = channel[n][x]
  <2>1. DOMAIN channel[n] = ChannelFields
    BY <1>0, NowFields DEF Shape
  <2>2. "source" \notin TableFields
    BY DEF TableFields
  <2>. QED  BY <2>1, <2>2 DEF DmaAddress, ChannelFields, TableFields
<1>3. HdmaOK(Now, Delay, 4) /\ (dma.hdmaPending => dma.active)
  <2>1. Left(Now)
    <3>1. CASE dma.stage = "bytes"
      BY <3>1, NowFields DEF Left
    <3>2. CASE dma.stage = "next" /\ n >= dma.at /\ channel[n].dma
      BY <3>2, NowFields DEF Left
    <3>. QED  BY <3>1, <3>2 DEF DmaByte
  <2>. QED  BY <1>0, <2>1, NowFields DEF HdmaHolds, ToLook, ToServe
<1>. HIDE DEF c
<1>4. /\ a.clock = clock /\ Unserved(Now, a) /\ a.dma = dma /\ Shape(a) /\ a.pipe = pipe
  BY <1>0, <1>2, ChannelUnserved, NowFields
<1>. HIDE DEF a
<1>5. HdmaOK(a, Delay, 4) /\ (a.dma.hdmaPending => a.dma.active) /\ PipeValid(a)
  BY <1>0, <1>3, <1>4, UnservedOK, NowFields DEF PipeValid
<1>6. /\ Shape(s) /\ PipeValid(s) /\ HdmaOK(s, Delay - 2, 2)
      /\ s.dma.hdmaPending => s.dma.active
  <2>1. 4 \in Int /\ 4 <= 4
    OBVIOUS
  <2>. QED  BY <1>0, <1>4, <1>5, <2>1, RunStepOK
<1>. HIDE DEF s
<1>7. /\ moved.clock = s.clock /\ Unserved(s, moved) /\ moved.dma = s.dma
      /\ Shape(moved) /\ PipeValid(moved)
  BY <1>6, TransferUnserved
<1>. HIDE DEF moved
<1>8. HdmaOK(m, Delay, 4) /\ (m.dma.hdmaPending => m.dma.active) /\ Shape(m)
  <2> DEFINE q == Delay - 2
  <2>1. q \in Nat /\ 4 \in Nat /\ 4 <= q /\ 4 <= 8
    BY <1>0, Slack
  <2>2. HdmaOK(moved, q, 2) /\ (moved.dma.hdmaPending => moved.dma.active)
    BY <1>6, <1>7, UnservedOK
  <2>. HIDE DEF q
  <2>3. HdmaOK(m, Delay, 4) /\ (m.dma.hdmaPending => m.dma.active)
    BY <1>0, <1>7, <2>1, <2>2, NestedOK
  <2>4. Shape(m)
    <3>1. Shape(HdmaPart(moved))
      BY <1>0, <1>7, HdmaPartFollows DEF Follows
    <3>. QED  BY <3>1, TriggersFollow DEF NestedEdge, Follows
  <2>. QED  BY <2>3, <2>4
<1>. HIDE DEF m
<1>9. PICK r : /\ Becomes(r) /\ r.clock = m.clock /\ Unserved(m, r) /\ r.dma.active = m.dma.active
               /\ r.dma.stage # "next"
  <2>1. CASE m.channel[n].dma
    <3>1. At(k, n, stage) = [m EXCEPT !.channel[n].size = left, !.dma.at = n, !.dma.stage = stage]
      <4>. HIDE DEF left, stage
      <4>. QED  BY <1>8 DEF At, Shape, Fields, ChannelFields
    <3>2. Becomes(At(k, n, stage))
      BY <1>1, <2>1, <3>1
    <3>3. DOMAIN e = ChannelFields /\ \A x \in TableFields : e[x] = m.channel[n][x]
      <4>. HIDE DEF left
      <4>. QED  BY <1>8 DEF Shape, ChannelFields, TableFields
    <3>. HIDE DEF e
    <3>4. k.clock = m.clock /\ Unserved(m, k) /\ k.dma = m.dma /\ Shape(k)
      BY <1>8, <3>3, ChannelUnserved
    <3>. HIDE DEF k
    <3>5. stage # "next"
      OBVIOUS
    <3>. HIDE DEF stage
    <3> DEFINE r == At(k, n, stage)
    <3>6. /\ r.clock = k.clock /\ Unserved(k, r) /\ r.dma.active = k.dma.active
          /\ r.dma.stage = stage
      BY <3>4, AtUnserved
    <3>. HIDE DEF r
    <3>7. Unserved(m, r)
      BY <3>4, <3>6, UnservedTransitive
    <3>8. Becomes(r)
      BY <3>2 DEF r
    <3>. QED  BY <3>4, <3>5, <3>6, <3>7, <3>8
  <2>2. CASE ~m.channel[n].dma
    <3> DEFINE r == At(m, n, "close")
    <3>1. Becomes(r)
      BY <1>1, <2>2 DEF At
    <3>2. /\ r.clock = m.clock /\ Unserved(m, r) /\ r.dma.active = m.dma.active
          /\ r.dma.stage = "close"
      BY <1>8, AtUnserved
    <3>. HIDE DEF r
    <3>. QED  BY <3>1, <3>2
  <2>. QED  BY <2>1, <2>2
<1>10. HdmaOK(r, Delay, 4) /\ (r.dma.hdmaPending => r.dma.active)
  BY <1>8, <1>9, UnservedOK DEF Unserved
<1>11. HdmaHolds(r, step')
  BY <1>0, <1>9, <1>10 DEF HdmaHolds, ToLook, ToServe, Left
<1>. QED  BY <1>0, <1>9, <1>11, HdmaAfter

LEMMA DmaCloseHdma ==
  ASSUME CpuInv, HdmaHolds(Now, step), DmaClose
  PROVE  HdmaHolds(Now, step)'
<1> DEFINE n == dma.at
           s == DmaStep(Now, 2)
           f == DmaFlush(s)
           m == NestedEdge(f)
           e == [m.channel[n] EXCEPT !.dma = FALSE]
           k == [m EXCEPT !.channel[n] = e]
           r == At(k, n + 1, "next")
           p == 2 * Access + 2
<1>0. /\ program \in Programs /\ Shape(Now) /\ PipeValid(Now) /\ step = "dma" /\ n \in Channel
      /\ step' = "dma" /\ program' = program /\ dma.stage = "close"
  <2>1. step = "dma" /\ dma.stage = "close" /\ step' = "dma" /\ program' = program
    BY DEF DmaClose
  <2>. QED  BY <2>1, NowFollows, NowFields DEF Running
<1>1. Becomes([m EXCEPT !.channel[n].dma = FALSE, !.dma.at = @ + 1, !.dma.stage = "next"])
  BY DEF DmaClose
<1>2. HdmaOK(Now, Delay, 4) /\ (dma.hdmaPending => dma.active)
  <2>1. Left(Now)
    BY <1>0, NowFields DEF Left
  <2>. QED  BY <1>0, <2>1, NowFields DEF HdmaHolds, ToLook, ToServe
<1>3. /\ Shape(s) /\ PipeValid(s) /\ HdmaOK(s, Delay - 2, 2)
      /\ s.dma.hdmaPending => s.dma.active
  <2>1. 4 \in Int /\ 4 <= 4
    OBVIOUS
  <2>. QED  BY <1>0, <1>2, <2>1, RunStepOK, NowFields
<1>4. s.dma.at = n
  BY <1>0, DmaStepLater, NowFields DEF Later, Same, Transfers
<1>. HIDE DEF s
<1>5. /\ f.clock = s.clock /\ Unserved(s, f) /\ f.dma = s.dma /\ Shape(f) /\ ~f.pipe.valid
  BY <1>3, FlushUnserved
<1>. HIDE DEF f
<1>6. HdmaOK(m, Delay, p) /\ (m.dma.hdmaPending => m.dma.active)
  <2> DEFINE q == Delay - 2
  <2>1. q \in Nat /\ p \in Nat /\ p <= q /\ p <= 8
    BY <1>0, Slack
  <2>2. HdmaOK(f, q, 2) /\ (f.dma.hdmaPending => f.dma.active) /\ PipeValid(f)
    BY <1>3, <1>5, UnservedOK DEF Unserved, PipeValid
  <2>. HIDE DEF q, p
  <2>. QED  BY <1>0, <1>5, <2>1, <2>2, NestedOK
<1>7. Shape(m) /\ m.dma.at = n
  <2>1. Follows(f, HdmaPart(f))
    BY <1>0, <1>5, HdmaPartFollows DEF PipeValid
  <2>2. Follows(HdmaPart(f), m)
    BY <2>1, TriggersFollow DEF NestedEdge, Follows
  <2>. HIDE DEF m
  <2>. QED  BY <1>4, <1>5, <2>1, <2>2 DEF Follows
<1>. HIDE DEF m
<1>8. Becomes(r)
  <2>1. r = [m EXCEPT !.channel[n].dma = FALSE, !.dma.at = @ + 1, !.dma.stage = "next"]
    BY <1>0, <1>7 DEF At, Shape, Fields, ChannelFields
  <2>. HIDE DEF r
  <2>. QED  BY <1>1, <2>1
<1>9. DOMAIN e = ChannelFields /\ \A x \in TableFields : e[x] = m.channel[n][x]
  BY <1>0, <1>7 DEF Shape, ChannelFields, TableFields
<1>. HIDE DEF e
<1>10. k.clock = m.clock /\ Unserved(m, k) /\ k.dma = m.dma /\ Shape(k)
  BY <1>0, <1>7, <1>9, ChannelUnserved
<1>. HIDE DEF k
<1>11. r.clock = k.clock /\ Unserved(k, r) /\ r.dma.active = k.dma.active
  BY <1>10, AtUnserved
<1>. HIDE DEF r
<1>12. HdmaOK(r, Delay, p) /\ (r.dma.hdmaPending => r.dma.active)
  BY <1>6, <1>10, <1>11, UnservedOK, UnservedTransitive DEF Unserved
<1>13. HdmaOK(r, Delay, 4)
  <2>1. Delay \in Int /\ p \in Int /\ 4 \in Int /\ Delay <= Delay /\ 4 <= p
    BY <1>0, Slack
  <2>. HIDE DEF p
  <2>. QED  BY <1>12, <2>1, OKWeaker
<1>14. HdmaHolds(r, step')
  BY <1>0, <1>12, <1>13 DEF HdmaHolds, ToLook, ToServe
<1>. QED  BY <1>0, <1>8, <1>14, HdmaAfter

LEMMA DmaReturnHdma ==
  ASSUME CpuInv, HdmaHolds(Now, step), DmaReturn
  PROVE  HdmaHolds(Now, step)'
<1> DEFINE i == Inactive(Now)
           r == Triggers(i)
           p == 2 * Access + 2
           u == Access + 2
<1>0. /\ program \in Programs /\ Shape(Now) /\ step = "dma" /\ step' = "access"
      /\ program' = program /\ Becomes(r)
  BY NowFollows DEF DmaReturn
<1>1. HdmaOK(Now, Delay, p)
  <2>1. ~Left(Now)
    BY NowFields DEF DmaReturn, Left
  <2>. QED  BY <1>0, <2>1 DEF HdmaHolds, ToLook, ToServe
<1>2. /\ Access \in 1 .. 3 /\ Line \in Nat /\ Delay = Access + 8 /\ Delay <= Line
      /\ InitPosition + Delay <= HdmaPosition /\ Delay \in Nat
  BY <1>0, Slack, Sizes
<1>3. PICK w \in 0 .. Access : Passed(Now, i, w)
  BY <1>0, <1>1, InactivePassed DEF HdmaOK
<1>4. Shape(i)
  BY <1>0, InactiveFollows DEF Follows
<1>. HIDE DEF i
<1>5. HdmaOK(i, 8, u)
  <2>1. /\ w \in Nat /\ w <= Line /\ w + 8 <= Delay /\ w + u <= p /\ u \in Nat /\ 8 \in Nat
        /\ p \in Int /\ Delay \in Int /\ Delay <= Delay
    BY <1>2, <1>3
  <2>. HIDE DEF u, p
  <2>. QED  BY <1>1, <1>2, <1>3, <2>1, PassedOK
<1>6. HdmaOK(r, Delay, u) /\ (r.dma.hdmaPending => r.dma.active)
  <2>1. u \in Nat /\ 8 \in Nat /\ u <= 8 /\ u <= u
    BY <1>2
  <2>. HIDE DEF u
  <2>. QED  BY <1>0, <1>4, <1>5, <2>1, TriggersOK
<1>. HIDE DEF r
<1>7. HdmaHolds(r, step')
  BY <1>0, <1>6 DEF HdmaHolds, ToLook, ToServe
<1>. QED  BY <1>0, <1>7, HdmaAfter

LEMMA NextHdma ==
  CpuInv /\ HdmaHolds(Now, step) /\ [Next]_vars => HdmaHolds(Now, step)'
<1>. SUFFICES ASSUME CpuInv, HdmaHolds(Now, step), [Next]_vars PROVE HdmaHolds(Now, step)'
  OBVIOUS
<1>1. CASE Main
  BY <1>1, MainHdma
<1>2. CASE Edge
  BY <1>2, EdgeHdma
<1>3. CASE \E n \in Channel : DmaByte(n)
  BY <1>3, DmaByteHdma
<1>4. CASE DmaClose
  BY <1>4, DmaCloseHdma
<1>5. CASE DmaReturn
  BY <1>5, DmaReturnHdma
<1>6. CASE Plain
  BY <1>6, PlainHdma
<1>7. CASE Wait
  BY <1>7, WaitHdma
<1>8. CASE \E reg \in {"4210", "4211"} : ReadCPU(reg)
  BY <1>8, ReadCPUHdma
<1>9. CASE \E reg \in Registers : WriteCPU(reg)
  BY <1>9, WriteCPUHdma
<1>10. CASE UNCHANGED vars
  <2>1. Becomes(Now) /\ step' = step /\ program' = program
    BY <1>10, NowFields DEF vars, Becomes
  <2>. QED  BY <2>1, HdmaAfter
<1>. QED  BY <1>1, <1>2, <1>3, <1>4, <1>5, <1>6, <1>7, <1>8, <1>9, <1>10 DEF Next

\* What H-DMA keeps says what its tables say.
LEMMA HdmaHoldsFollows == HdmaHolds(Now, step) => HdmaFollowsTable
<1>. SUFFICES ASSUME HdmaHolds(Now, step), clock.run, ~dma.hdmaPending, NEW n \in ghost.clean
              PROVE  LET v == IF LineOf(clock.at) < Vdisp THEN LineOf(clock.at) ELSE Vdisp - 1
                     IN  ghost.moves[n] = TransferLines(n) \cap 0 .. v
  BY DEF HdmaFollowsTable
<1> DEFINE l == LineOf(clock.at)
           v == IF l < Vdisp THEN l ELSE Vdisp - 1
<1>1. InFrame(Now) /\ OnTime(Now, ToLook(step), ToServe(Now, step)) /\ OnTable(Now)
  BY DEF HdmaHolds, HdmaOK
<1>2. clock.init
  BY <1>1, NowFields DEF OnTime
<1>3. LineNow(Now) = l /\ l \in Nat /\ Vdisp \in Nat
  BY <1>1, Places, Sizes, NowFields DEF LineNow
<1>. HIDE DEF l
<1>4. Counted(Now) = v + 1
  BY <1>3, NowFields DEF Counted
<1>5. ghost.moves[n] = TransferLines(n) \cap 0 .. (v + 1) - 1
  BY <1>1, <1>2, <1>4, NowFields DEF OnTable, InTable
<1>6. (v + 1) - 1 = v
  BY <1>3
<1>. QED  BY <1>5, <1>6 DEF l

-----------------------------------------------------------------------------
(* The theorem *)

\* For every table, whatever its entries, their repeat flags and their length, and however many
\* channels: a channel that was enabled when its frame began, and since, transfers on just the
\* lines its table says, whatever accesses, DMA and other channels H-DMA comes between.
THEOREM HdmaCorrect == Spec => []HdmaFollowsTable
<1> DEFINE Inv == CpuInv /\ HdmaHolds(Now, step)
<1>1. Init => Inv
  BY InitInv, InitHdma
<1>2. Inv /\ [Next]_vars => Inv'
  BY NextInv, NextHdma
<1>3. Inv => HdmaFollowsTable
  BY HdmaHoldsFollows
<1>. QED  BY <1>1, <1>2, <1>3, PTL DEF Spec

===============================================================================
