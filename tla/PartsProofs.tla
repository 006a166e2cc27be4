------------------------------ MODULE PartsProofs ------------------------------
(* Proofs about the small parts of a core host, whatever the constants are:*)
(* the flush of the log, the allocator, the values of the pause menu, the  *)
(* glyph cache and the screen of the JS2300 core.                          *)
EXTENDS LogFlush, NommuHeap, PauseMenu, GlyphCache, JsCore, FiniteSetTheorems, TLAPS

(* The log: what may still answer the call under way was persisted in it,  *)
(* or before it began with nothing logged in between.                      *)
FlushInv ==
  /\ LogTypeOK /\ LateAcksOnly
  /\ caller # "idle" /\ ~late /\ (logd = "persisted" \/ (logd = "ok" /\ linked) \/ done = "ok")
       => card >= asked

LEMMA FlushInit == LogInit => FlushInv
<1>. SUFFICES ASSUME LogInit PROVE FlushInv
  OBVIOUS
<1>1. request \in BOOLEAN /\ linked \in BOOLEAN /\ late \in BOOLEAN
  BY DEF LogInit
<1>. QED BY <1>1, FlushAssumption DEF LogInit, FlushInv, LogTypeOK, LateAcksOnly, Outcomes

LEMMA FlushTyped == LogTypeOK /\ [LogNext]_logVars => LogTypeOK'
<1>. SUFFICES ASSUME LogTypeOK, [LogNext]_logVars PROVE LogTypeOK'
  OBVIOUS
<1>. USE FlushAssumption
         DEF LogTypeOK, Outcomes, Returns, calling, logger, history
<1>1. CASE BeginFlush
  <2>1. late' \in BOOLEAN
    BY <1>1 DEF BeginFlush
  <2>2. linked' \in BOOLEAN
    BY <1>1 DEF BeginFlush
  <2>. QED BY <1>1, <2>1, <2>2 DEF BeginFlush, Cleared
<1>2. CASE CreateRequest
  BY <1>2 DEF CreateRequest
<1>3. CASE CannotCreate
  BY <1>3 DEF CannotCreate
<1>4. CASE WriteRequest
  BY <1>4 DEF WriteRequest
<1>5. CASE WriteFails
  BY <1>5 DEF WriteFails
<1>6. CASE PollAgain
  BY <1>6 DEF PollAgain
<1>7. CASE ReadAck
  BY <1>7 DEF ReadAck
<1>8. CASE CallerDies
  BY <1>8 DEF CallerDies
<1>9. CASE TakeRequest
  BY <1>9 DEF TakeRequest
<1>10. CASE Persist
  BY <1>10 DEF Persist
<1>11. CASE PersistFails
  BY <1>11 DEF PersistFails
<1>12. CASE CreateAck
  BY <1>12 DEF CreateAck
<1>13. CASE WriteAck
  BY <1>13 DEF WriteAck
<1>14. CASE Log
  BY <1>14 DEF Log
<1>15. CASE UNCHANGED logVars
  BY <1>15 DEF logVars
<1>. QED BY <1>1, <1>2, <1>3, <1>4, <1>5, <1>6, <1>7, <1>8, <1>9, <1>10, <1>11, <1>12,
            <1>13, <1>14, <1>15 DEF LogNext

LEMMA FlushKept == FlushInv /\ [LogNext]_logVars => FlushInv'
<1>. SUFFICES ASSUME FlushInv, [LogNext]_logVars PROVE FlushInv'
  OBVIOUS
<1>0. LogTypeOK'
  BY FlushTyped DEF FlushInv
<1>. USE <1>0 DEF FlushInv, LogTypeOK, LateAcksOnly, Outcomes, Returns, calling, logger, history
<1>1. CASE BeginFlush
  BY <1>1 DEF BeginFlush, Cleared
<1>2. CASE CreateRequest \/ CannotCreate \/ WriteRequest \/ WriteFails
  BY <1>2 DEF CreateRequest, CannotCreate, WriteRequest, WriteFails
<1>3. CASE PollAgain
  BY <1>3 DEF PollAgain
<1>4. CASE ReadAck
  BY <1>4 DEF ReadAck, Unanswered
<1>5. CASE CallerDies
  BY <1>5 DEF CallerDies
<1>6. CASE TakeRequest \/ PersistFails
  BY <1>6 DEF TakeRequest, PersistFails
<1>7. CASE Persist
  BY <1>7 DEF Persist
<1>8. CASE CreateAck
  BY <1>8 DEF CreateAck
<1>9. CASE WriteAck
  BY <1>9 DEF WriteAck
<1>10. CASE Log
  BY <1>10 DEF Log
<1>11. CASE UNCHANGED logVars
  BY <1>11 DEF logVars
<1>. QED BY <1>1, <1>2, <1>3, <1>4, <1>5, <1>6, <1>7, <1>8, <1>9, <1>10, <1>11 DEF LogNext

(* sf2000_log_flush() answers 0 only for what is on the card, unless the   *)
(* logger had persisted for an earlier request and was about to say so.    *)
THEOREM AcksAreHonest == LogSpec => []LateAcksOnly
<1>1. FlushInv => LateAcksOnly
  BY DEF FlushInv
<1>. QED BY <1>1, FlushInit, FlushKept, PTL DEF LogSpec
-----------------------------------------------------------------------------
(* The allocator.  A whole number of pages, and the page a number lies in. *)
LEMMA Quotient ==
  ASSUME NEW n \in Nat, NEW size \in Nat \ {0}
  PROVE  /\ n \div size \in Nat /\ n % size \in Nat /\ n % size < size
         /\ (n \div size) * size \in Nat /\ n = (n \div size) * size + (n % size)
OBVIOUS

LEMMA WholePages ==
  ASSUME NEW n \in Nat
  PROVE  /\ n \div Page \in Nat /\ (n \div Page) * Page \in Nat
         /\ (n \div Page) * Page <= n /\ n < (n \div Page) * Page + Page
         /\ ((n \div Page) * Page) % Page = 0
<1>. DEFINE q == n \div Page
<1>1. q \in Nat /\ n % Page \in Nat /\ n % Page < Page /\ n = q * Page + (n % Page)
  BY Quotient, HeapAssumption
<1>2. q * Page \in Nat
  BY <1>1, HeapAssumption
<1>3. (q * Page) % Page = 0
  <2>. DEFINE k == (q * Page) \div Page
              r == (q * Page) % Page
  <2>1. k \in Nat /\ r \in Nat /\ r < Page /\ q * Page = k * Page + r
    BY <1>2, Quotient, HeapAssumption
  <2>2. CASE q > k
    <3>1. PICK d \in Nat : q = k + 1 + d
      <4>1. q - k - 1 \in Nat /\ q = k + 1 + (q - k - 1)
        BY <1>1, <2>1, <2>2
      <4>. QED BY <4>1
    <3>2. q * Page = k * Page + Page + d * Page /\ d * Page \in Nat /\ k * Page \in Nat
      BY <2>1, <3>1, HeapAssumption
    <3>. QED BY <2>1, <3>2, HeapAssumption
  <2>3. CASE q < k
    <3>1. PICK d \in Nat : k = q + 1 + d
      <4>1. k - q - 1 \in Nat /\ k = q + 1 + (k - q - 1)
        BY <1>1, <2>1, <2>3
      <4>. QED BY <4>1
    <3>2. k * Page = q * Page + Page + d * Page /\ d * Page \in Nat
      BY <1>1, <3>1, HeapAssumption
    <3>. QED BY <1>2, <2>1, <3>2, HeapAssumption
  <2>4. CASE q = k
    BY <1>2, <2>1, <2>4
  <2>. QED BY <1>1, <2>1, <2>2, <2>3, <2>4
<1>. QED BY <1>1, <1>2, <1>3, HeapAssumption

LEMMA NoWrap ==
  ASSUME NEW n \in Nat, n < 2 * Word
  PROVE  n % Word = IF n < Word THEN n ELSE n - Word
BY HeapAssumption

(* mapping_allocate() never maps less than it was asked for.               *)
LEMMA MappingCorrect ==
  ASSUME NEW bytes \in 0 .. Word - 1, Mappable(bytes)
  PROVE  /\ MappingBytes(bytes) \in Nat /\ MappingBytes(bytes) < Word
         /\ MappingBytes(bytes) % Page = 0 /\ Header + bytes <= MappingBytes(bytes)
<1>. USE HeapAssumption
<1>. DEFINE sum == bytes + Header
            padded == sum + (Page - 1)
<1>1. bytes \in Nat /\ sum \in Nat /\ padded \in Nat /\ sum < 2 * Word
  OBVIOUS
<1>2. Total(bytes) = IF sum < Word THEN sum ELSE sum - Word
  BY <1>1, NoWrap DEF Total
<1>3. MappingBytes(bytes) = Rounded(Total(bytes)) /\ ~(Total(bytes) < bytes)
  BY <1>1, <1>2 DEF MappingBytes, Mappable
<1>4. sum < Word /\ Total(bytes) = sum
  BY <1>1, <1>2, <1>3
<1>5. padded % Word = IF padded < Word THEN padded ELSE padded - Word
  BY <1>1, <1>4, NoWrap
<1>6. CASE padded < Word
  <2>1. MappingBytes(bytes) = (padded \div Page) * Page
    BY <1>3, <1>4, <1>5, <1>6 DEF Rounded
  <2>. QED BY <1>1, <1>6, <2>1, WholePages
<1>7. CASE ~(padded < Word)
  <2>. DEFINE low == padded - Word
  <2>1. low \in Nat /\ low < Page
    BY <1>1, <1>4, <1>7
  <2>2. low \div Page = 0
    BY <2>1
  <2>3. MappingBytes(bytes) = 0
    BY <1>3, <1>4, <1>5, <1>7, <2>2 DEF Rounded
  <2>. QED BY <2>3 DEF Mappable
<1>. QED BY <1>6, <1>7

(* calloc() multiplies only what fits in a word.                           *)
LEMMA ProductFits ==
  ASSUME NEW count \in 0 .. Word - 1, NEW bytes \in 0 .. Word - 1, ~Overflows(count, bytes)
  PROVE  count * bytes \in 0 .. Word - 1 /\ (count * bytes) % Word = count * bytes
<1>. USE HeapAssumption
<1>1. CASE bytes = 0
  BY <1>1, NoWrap
<1>2. CASE bytes # 0
  <2>. DEFINE q == (Word - 1) \div bytes
  <2>1. q \in Nat /\ q * bytes \in Nat /\ q * bytes <= Word - 1
    <3>1. bytes \in Nat \ {0} /\ Word - 1 \in Nat
      BY <1>2
    <3>. QED BY <3>1, Quotient
  <2>2. count \in Nat /\ count <= q
    BY <1>2, <2>1 DEF Overflows
  <2>3. PICK d \in Nat : q = count + d
    <3>1. q - count \in Nat /\ q = count + (q - count)
      BY <2>1, <2>2
    <3>. QED BY <3>1
  <2>4. q * bytes = count * bytes + d * bytes /\ d * bytes \in Nat /\ count * bytes \in Nat
    BY <2>2, <2>3
  <2>. HIDE DEF q
  <2>5. count * bytes \in 0 .. Word - 1
    BY <2>1, <2>4
  <2>. QED BY <2>5, NoWrap
<1>. QED BY <1>1, <1>2
-----------------------------------------------------------------------------
Block == [mapping_bytes : 0 .. Word - 1, requested_bytes : 0 .. Word - 1, kept : 0 .. Word - 1]

BlockFits(b) ==
  b.mapping_bytes # 0 =>
    /\ b.mapping_bytes % Page = 0 /\ b.mapping_bytes < Word
    /\ Header + b.requested_bytes <= b.mapping_bytes
    /\ b.kept <= b.requested_bytes

HeapInv == block \in [Pointers -> Block] /\ \A p \in Pointers : BlockFits(block[p])

LEMMA FreeFits == Free \in Block /\ BlockFits(Free)
BY HeapAssumption DEF Free, Block, BlockFits

LEMMA MappedFits ==
  ASSUME NEW bytes \in 0 .. Word - 1, NEW kept \in 0 .. bytes, Mappable(bytes)
  PROVE  Mapped(bytes, kept) \in Block /\ BlockFits(Mapped(bytes, kept))
<1>1. MappingBytes(bytes) \in 0 .. Word - 1 /\ kept \in 0 .. Word - 1
  BY MappingCorrect, HeapAssumption
<1>. QED BY <1>1, MappingCorrect, HeapAssumption DEF Mapped, Block, BlockFits

LEMMA LeastOf ==
  ASSUME NEW a \in Nat, NEW b \in Nat
  PROVE  Least(a, b) \in Nat /\ Least(a, b) <= a /\ Least(a, b) <= b
BY DEF Least

LEMMA HeapKept == HeapInv /\ [HeapNext]_block => HeapInv'
<1>. SUFFICES ASSUME HeapInv, [HeapNext]_block PROVE HeapInv'
  OBVIOUS
<1>. USE DEF HeapInv
<1>0. \A bytes \in Sizes \union {1} : bytes \in 0 .. Word - 1
  BY HeapAssumption
<1>1. CASE Allocate
  <2>1. PICK p \in Pointers \ Live, bytes \in Sizes \union {1} :
          Mappable(bytes) /\ block' = [block EXCEPT ![p] = Mapped(bytes, 0)]
    BY <1>1 DEF Allocate
  <2>2. bytes \in 0 .. Word - 1 /\ 0 \in 0 .. bytes
    BY <1>0
  <2>. QED BY <2>1, <2>2, MappedFits
<1>2. CASE AllocateZeroed
  <2>1. PICK p \in Pointers \ Live, count \in Sizes, bytes \in Sizes :
          /\ ~Overflows(count, bytes) /\ Mappable((count * bytes) % Word)
          /\ block' = [block EXCEPT ![p] = Mapped((count * bytes) % Word, count * bytes)]
    BY <1>2 DEF AllocateZeroed
  <2>2. count * bytes \in 0 .. Word - 1 /\ (count * bytes) % Word = count * bytes
    BY <1>0, <2>1, ProductFits
  <2>3. count * bytes \in 0 .. count * bytes
    BY <2>2
  <2>. QED BY <2>1, <2>2, <2>3, MappedFits
<1>3. CASE Fill
  <2>1. PICK p \in Live : block' = [block EXCEPT ![p].kept = block[p].requested_bytes]
    BY <1>3 DEF Fill
  <2>2. p \in Pointers /\ block[p] \in Block /\ BlockFits(block[p])
    BY DEF Live
  <2>3. block'[p] \in Block /\ BlockFits(block'[p])
    BY <2>1, <2>2 DEF Block, BlockFits
  <2>. QED BY <2>1, <2>3
<1>4. CASE Release
  BY <1>4, FreeFits DEF Release, Live
<1>5. CASE ReallocInPlace
  <2>1. PICK p \in Live, bytes \in Sizes \ {0} :
          /\ Fits(p, bytes)
          /\ block' = [block EXCEPT ![p].requested_bytes = bytes,
                                    ![p].kept = Least(block[p].kept, bytes)]
    BY <1>5 DEF ReallocInPlace
  <2>2. p \in Pointers /\ block[p] \in Block /\ BlockFits(block[p]) /\ bytes \in 0 .. Word - 1
    BY <1>0 DEF Live
  <2>3. Least(block[p].kept, bytes) \in 0 .. bytes
    BY <2>2, LeastOf, HeapAssumption DEF Block
  <2>4. /\ block'[p].mapping_bytes = block[p].mapping_bytes
        /\ block'[p].requested_bytes = bytes
        /\ block'[p].kept = Least(block[p].kept, bytes)
        /\ block'[p] = [mapping_bytes |-> block[p].mapping_bytes, requested_bytes |-> bytes,
                        kept |-> Least(block[p].kept, bytes)]
    BY <2>1, <2>2 DEF Block
  <2>5. block'[p] \in Block /\ BlockFits(block'[p])
    BY <2>1, <2>2, <2>3, <2>4, HeapAssumption DEF Block, BlockFits, Fits
  <2>. QED BY <2>1, <2>2, <2>5
<1>6. CASE ReallocMoves
  <2>1. PICK p \in Live, q \in Pointers \ Live, bytes \in Sizes \ {0} :
          /\ Mappable(bytes)
          /\ block' = [block EXCEPT ![p] = Free,
                         ![q] = Mapped(bytes, Least(block[p].kept, Copied(p, bytes)))]
    BY <1>6 DEF ReallocMoves
  <2>2. p \in Pointers /\ block[p] \in Block /\ bytes \in 0 .. Word - 1
    BY <1>0 DEF Live
  <2>3. Copied(p, bytes) \in 0 .. bytes
    BY <2>2, LeastOf, HeapAssumption DEF Copied, Block
  <2>4. Least(block[p].kept, Copied(p, bytes)) \in 0 .. bytes
    BY <2>2, <2>3, LeastOf, HeapAssumption DEF Block
  <2>. QED BY <2>1, <2>2, <2>4, MappedFits, FreeFits
<1>7. CASE UNCHANGED block
  BY <1>7
<1>. QED BY <1>1, <1>2, <1>3, <1>4, <1>5, <1>6, <1>7 DEF HeapNext

(* Whatever sizes malloc(), calloc() and realloc() are asked for, a block  *)
(* lies in its pages, behind its header: no sum or product wraps to a      *)
(* mapping that is too short.                                              *)
THEOREM BlocksAlwaysFit == HeapSpec => []BlocksFit
<1>1. HeapInit => HeapInv
  BY FreeFits DEF HeapInit, HeapInv
<1>2. HeapInv => BlocksFit
  BY DEF HeapInv, BlocksFit, BlockFits, Live
<1>. QED BY <1>1, <1>2, HeapKept, PTL DEF HeapSpec
-----------------------------------------------------------------------------
(* The values of the pause menu.                                           *)
LEMMA OptionsKept == OptionsReachCore /\ [MenuNext]_menuVars => OptionsReachCore'
<1>. SUFFICES ASSUME OptionsReachCore, [MenuNext]_menuVars PROVE OptionsReachCore'
  OBVIOUS
<1>. USE DEF OptionsReachCore, Selected, options
<1>1. CASE SetVariables
  BY <1>1 DEF SetVariables
<1>2. CASE GetVariables
  BY <1>2 DEF GetVariables
<1>3. CASE GetVariableUpdate
  BY <1>3 DEF GetVariableUpdate
<1>4. CASE OpenPauseMenu \/ MoveCursor \/ ChangeRate \/ ChangeFrameskip \/ ChangeSlot
  BY <1>4 DEF OpenPauseMenu, MoveCursor, ChangeRate, ChangeFrameskip, ChangeSlot
<1>5. CASE ChangeOption
  BY <1>5 DEF ChangeOption, Announced
<1>6. CASE ResumeGame \/ UNCHANGED menuVars
  BY <1>6 DEF ResumeGame, menuVars
<1>. QED BY <1>1, <1>2, <1>3, <1>4, <1>5, <1>6 DEF MenuNext

(* Whatever a core declares and whatever is changed in the menu, the core  *)
(* is told before it runs on with other values than the menu shows.        *)
THEOREM ChangesReachCore == MenuSpec => []OptionsReachCore
<1>1. MenuInit => OptionsReachCore
  BY DEF MenuInit, OptionsReachCore, Selected
<1>. QED BY <1>1, OptionsKept, PTL DEF MenuSpec

PaceInv ==
  /\ fast_forward_rate \in {0, 1, 2, 3, 4} /\ pace \in Nat
  /\ PaceAsShown

LEMMA RateFits ==
  ASSUME NEW rate \in {1, 2, 3, 4}
  PROVE  /\ Effective(rate) \in Nat
         /\ rate * Effective(rate) <= CoreFrame /\ CoreFrame < rate * (Effective(rate) + 1)
<1>1. CoreFrame \in Nat
  BY MenuConstants
<1>2. CASE rate = 1
  BY <1>1, <1>2 DEF Effective
<1>3. CASE rate = 2
  BY <1>1, <1>3 DEF Effective
<1>4. CASE rate = 3
  BY <1>1, <1>4 DEF Effective
<1>5. CASE rate = 4
  BY <1>1, <1>5 DEF Effective
<1>. QED BY <1>2, <1>3, <1>4, <1>5

LEMMA PaceKept == PaceInv /\ [MenuNext]_menuVars => PaceInv'
<1>. SUFFICES ASSUME PaceInv, [MenuNext]_menuVars PROVE PaceInv'
  OBVIOUS
<1>. USE DEF PaceInv, PaceAsShown, speed, cursor
<1>0. ASSUME UNCHANGED <<fast_forward_rate, uncapped_mode, benchmark, pace>>,
             ~menu' => ~menu
      PROVE  PaceInv'
  BY <1>0
<1>1. CASE SetVariables \/ GetVariables \/ GetVariableUpdate \/ MoveCursor
  BY <1>0, <1>1 DEF SetVariables, GetVariables, GetVariableUpdate, MoveCursor
<1>2. CASE OpenPauseMenu \/ ChangeFrameskip \/ ChangeSlot \/ ChangeOption
  BY <1>0, <1>2 DEF OpenPauseMenu, ChangeFrameskip, ChangeSlot, ChangeOption
<1>3. CASE ChangeRate
  <2>1. fast_forward_rate' \in {0, 1, 2, 3, 4}
    <3>1. PICK index \in 1 .. 5 :
            \E next \in Beside(index - 1, 5) : fast_forward_rate' = Rates[next + 1]
      BY <1>3 DEF ChangeRate, Rates
    <3>2. PICK next \in 0 .. 4 : fast_forward_rate' = Rates[next + 1]
      BY <3>1 DEF Beside
    <3>. QED BY <3>2 DEF Rates
  <2>2. uncapped_mode' = (fast_forward_rate' = 0 \/ benchmark')
    BY <1>3 DEF ChangeRate, Uncapped
  <2>. QED BY <1>3, <2>1, <2>2 DEF ChangeRate
<1>4. CASE ResumeGame
  <2>1. fast_forward_rate' = fast_forward_rate /\ pace' = Effective(fast_forward_rate)
    BY <1>4 DEF ResumeGame
  <2>2. Effective(0) \in Nat
    BY MenuConstants DEF Effective
  <2>. QED BY <1>4, <2>1, <2>2, RateFits DEF ResumeGame
<1>5. CASE UNCHANGED menuVars
  BY <1>0, <1>5 DEF menuVars
<1>. QED BY <1>1, <1>2, <1>3, <1>4, <1>5 DEF MenuNext

(* Leaving the menu always brings the pacer and the suppression of sleep   *)
(* and audio to the speed that the menu shows, for every core's frame.     *)
THEOREM PacesAsShown == MenuSpec => []PaceAsShown
<1>1. MenuInit => PaceInv
  BY MenuConstants DEF MenuInit, PaceInv, PaceAsShown
<1>2. PaceInv => PaceAsShown
  BY DEF PaceInv
<1>. QED BY <1>1, <1>2, PaceKept, PTL DEF MenuSpec

(* The options kept are counted in the order they were declared in.        *)
LEMMA NthIsOne ==
  ASSUME NEW m \in Nat, NEW kept \in SUBSET (1 .. m)
  PROVE  /\ Cardinality(kept) \in Nat
         /\ \A n \in 1 .. Cardinality(kept) : NthOf(kept, n) \in kept
<1>. DEFINE before(i) == {j \in kept : j < i}
            size == Cardinality(kept)
            f == [i \in kept |-> Cardinality(before(i)) + 1]
<1>1. IsFiniteSet(kept) /\ size \in Nat
  <2>1. IsFiniteSet(1 .. m)
    BY FS_Interval
  <2>. QED BY <2>1, FS_Subset, FS_CardinalityType
<1>2. ASSUME NEW i \in kept
      PROVE  IsFiniteSet(before(i)) /\ Cardinality(before(i)) \in Nat /\ Cardinality(before(i)) < size
  <2>. DEFINE B == before(i)
  <2>1. B \in SUBSET kept /\ B # kept
    <3>1. i \notin B
      OBVIOUS
    <3>. QED BY <3>1
  <2>. HIDE DEF B
  <2>2. IsFiniteSet(B) /\ Cardinality(B) <= size /\ Cardinality(B) # size
    BY <1>1, <2>1, FS_Subset
  <2>3. Cardinality(B) \in Nat
    BY <2>2, FS_CardinalityType
  <2>. HIDE DEF size
  <2>4. Cardinality(B) < size
    BY <1>1, <2>2, <2>3
  <2>. QED BY <2>2, <2>3, <2>4 DEF B
<1>3. ASSUME NEW i \in kept, NEW j \in kept, i < j
      PROVE  Cardinality(before(i)) < Cardinality(before(j))
  <2>. DEFINE A == before(i)  B == before(j)
  <2>1. A \in SUBSET B /\ i \in B /\ i \notin A
    <3>1. \A k \in kept : k \in Nat
      OBVIOUS
    <3>2. ASSUME NEW k \in kept, k < i PROVE k < j
      BY <1>3, <3>1, <3>2
    <3>3. ~(i < i)
      BY <3>1
    <3>. QED BY <1>3, <3>2, <3>3
  <2>2. IsFiniteSet(B) /\ Cardinality(A) \in Nat /\ Cardinality(B) \in Nat
    BY <1>2
  <2>. HIDE DEF A, B
  <2>3. Cardinality(A) <= Cardinality(B) /\ Cardinality(A) # Cardinality(B)
    BY <2>1, <2>2, FS_Subset
  <2>4. Cardinality(A) < Cardinality(B)
    BY <2>2, <2>3
  <2>. QED BY <2>4 DEF A, B
<1>4. f \in Injection(kept, 1 .. size)
  <2>1. \A i \in kept : f[i] \in 1 .. size
    <3>. HIDE DEF before, size
    <3>. QED BY <1>1, <1>2
  <2>2. ASSUME NEW i \in kept, NEW j \in kept, f[i] = f[j] PROVE i = j
    <3>1. Cardinality(before(i)) = Cardinality(before(j))
      <4>. HIDE DEF before
      <4>. QED BY <1>2, <2>2
    <3>2. ~(i < j) /\ ~(j < i)
      <4>. HIDE DEF before
      <4>. QED BY <1>2, <1>3, <3>1
    <3>. QED BY <3>2
  <2>3. f \in [kept -> 1 .. size]
    <3>. HIDE DEF size, before
    <3>. QED BY <2>1
  <2>. HIDE DEF f
  <2>. QED BY <2>2, <2>3 DEF Injection, IsInjective
<1>5. f \in Surjection(kept, 1 .. size)
  <2>1. IsFiniteSet(1 .. size) /\ Cardinality(1 .. size) = size
    <3>. HIDE DEF size
    <3>. QED BY <1>1, FS_Interval
  <2>. HIDE DEF f
  <2>. QED BY <1>4, <2>1, FS_Injection
<1>6. ASSUME NEW n \in 1 .. size PROVE NthOf(kept, n) \in kept
  <2>1. PICK i \in kept : f[i] = n
    BY <1>5 DEF Surjection
  <2>2. Cardinality(before(i)) = n - 1
    <3>1. Cardinality(before(i)) \in Nat /\ f[i] = Cardinality(before(i)) + 1 /\ size \in Nat
      BY <1>1, <1>2
    <3>. HIDE DEF f, before, size
    <3>. QED BY <2>1, <3>1
  <2>. QED BY <2>2 DEF NthOf
<1>. QED BY <1>1, <1>6

Option == [value_count : Nat, selected : Nat]

(* What every step of the menu and of a core that registers options keeps. *)
MenuInv ==
  /\ menu \in BOOLEAN /\ total \in Nat /\ selected_item \in Nat /\ selected_item < total
  /\ menu => total = 7 + Len(core_options)
  /\ core_options \in Seq(Option) /\ Len(core_options) <= CORE_OPTIONS_MAX
  /\ \A i \in 1 .. Len(core_options) :
       /\ core_options[i].selected < core_options[i].value_count
       /\ core_options[i].value_count <= CORE_OPTION_VALUES_MAX
  /\ frameskip \in 0 .. FRAMESKIPS - 1 /\ state_slot \in 0 .. SAVE_STATE_SLOTS - 1
  /\ fast_forward_rate \in {0, 1, 2, 3, 4}

OptionFits(option) ==
  /\ option \in Option
  /\ option.selected < option.value_count /\ option.value_count <= CORE_OPTION_VALUES_MAX

LEMMA RegisteredFit ==
  ASSUME NEW variables \in Declarations
  PROVE  /\ Registered(variables) \in Seq(Option)
         /\ Len(Registered(variables)) <= CORE_OPTIONS_MAX
         /\ \A i \in 1 .. Len(Registered(variables)) : OptionFits(Registered(variables)[i])
<1>. DEFINE kept == Kept(variables)
            length == AtMost(Cardinality(kept), CORE_OPTIONS_MAX)
            count(d) == AtMost(d.count, CORE_OPTION_VALUES_MAX)
            option(d) == [value_count |-> count(d),
                          selected |-> IF d.preferred < count(d) THEN d.preferred ELSE 0]
<1>1. variables \in Seq([count : Nat, preferred : Nat])
  BY MenuConstants
<1>2. kept \in SUBSET (1 .. Len(variables)) /\ Len(variables) \in Nat
  BY <1>1 DEF Kept
<1>3. Cardinality(kept) \in Nat /\ \A n \in 1 .. Cardinality(kept) : NthOf(kept, n) \in kept
  <2>. HIDE DEF kept
  <2>. QED BY <1>2, NthIsOne
<1>4. length \in Nat /\ length <= CORE_OPTIONS_MAX /\ length <= Cardinality(kept)
  <2>. HIDE DEF kept
  <2>. QED BY <1>3, MenuConstants DEF AtMost
<1>5. ASSUME NEW d \in [count : Nat, preferred : Nat], d.count > 0 PROVE OptionFits(option(d))
  <2>1. count(d) \in Nat /\ count(d) > 0 /\ count(d) <= CORE_OPTION_VALUES_MAX
    BY <1>5, MenuConstants DEF AtMost
  <2>. HIDE DEF count
  <2>. QED BY <2>1 DEF OptionFits, Option
<1>6. ASSUME NEW n \in 1 .. length PROVE OptionFits(option(variables[NthOf(kept, n)]))
  <2>1. NthOf(kept, n) \in kept
    <3>. HIDE DEF kept, length
    <3>. QED BY <1>3, <1>4
  <2>2. /\ variables[NthOf(kept, n)] \in [count : Nat, preferred : Nat]
        /\ variables[NthOf(kept, n)].count > 0
    <3>1. \A i \in kept : /\ variables[i] \in [count : Nat, preferred : Nat]
                         /\ variables[i].count > 0
      <4>1. \A i \in kept : i \in DOMAIN variables /\ HasValues(variables[i])
        BY DEF Kept
      <4>. HIDE DEF kept
      <4>2. \A i \in DOMAIN variables : variables[i] \in [count : Nat, preferred : Nat]
        <5>1. ASSUME NEW S, NEW q \in Seq(S) PROVE \A i \in DOMAIN q : q[i] \in S
          OBVIOUS
        <5>. QED BY <1>1, <5>1
      <4>. QED BY <4>1, <4>2 DEF HasValues
    <3>. HIDE DEF kept
    <3>. QED BY <2>1, <3>1
  <2>. HIDE DEF option
  <2>. QED BY <1>5, <2>2
<1>7. Registered(variables) = [n \in 1 .. length |-> option(variables[NthOf(kept, n)])]
  BY DEF Registered
<1>. HIDE DEF length, option, kept
<1>8. \A n \in 1 .. length : option(variables[NthOf(kept, n)]) \in Option
  BY <1>6 DEF OptionFits
<1>9. Registered(variables) \in Seq(Option) /\ Len(Registered(variables)) = length
  BY <1>4, <1>7, <1>8
<1>. QED BY <1>4, <1>6, <1>7, <1>9

LEMMA BesideIn ==
  ASSUME NEW n \in Nat \ {0}, NEW v \in 0 .. n - 1
  PROVE  Beside(v, n) \subseteq 0 .. n - 1
<1>1. ASSUME NEW a \in Nat PROVE a % n \in 0 .. n - 1
  BY <1>1
<1>2. v + 1 \in Nat /\ v + n - 1 \in Nat
  OBVIOUS
<1>3. (v + 1) % n \in 0 .. n - 1 /\ (v + n - 1) % n \in 0 .. n - 1
  BY <1>1, <1>2
<1>. QED BY <1>3 DEF Beside

LEMMA MenuKept == MenuInv /\ [MenuNext]_menuVars => MenuInv'
<1>. SUFFICES ASSUME MenuInv, [MenuNext]_menuVars PROVE MenuInv'
  OBVIOUS
<1>1. CASE SetVariables
  <2>1. PICK variables \in Declarations : core_options' = Registered(variables)
    BY <1>1 DEF SetVariables
  <2>2. /\ ~menu'
        /\ UNCHANGED <<menu, selected_item, total, state_slot, frameskip, fast_forward_rate>>
    BY <1>1 DEF SetVariables, cursor, speed
  <2>3. /\ core_options' \in Seq(Option) /\ Len(core_options') <= CORE_OPTIONS_MAX
        /\ \A i \in 1 .. Len(core_options') : OptionFits(core_options'[i])
    BY <2>1, RegisteredFit
  <2>. QED BY <2>2, <2>3 DEF MenuInv, OptionFits, Option
<1>2. CASE GetVariables \/ GetVariableUpdate \/ UNCHANGED menuVars
  <2>1. UNCHANGED <<menu, selected_item, total, state_slot, frameskip, fast_forward_rate,
                    core_options>>
    BY <1>2 DEF GetVariables, GetVariableUpdate, menuVars, cursor, speed, options
  <2>. QED BY <2>1 DEF MenuInv, Option
<1>3. CASE OpenPauseMenu
  <2>1. /\ menu' = TRUE /\ selected_item' = 0 /\ total' = 7 + Len(core_options)
        /\ UNCHANGED <<state_slot, frameskip, fast_forward_rate, core_options>>
    BY <1>3 DEF OpenPauseMenu, Opened, speed, options
  <2>2. Len(core_options) \in Nat
    BY DEF MenuInv
  <2>. QED BY <2>1, <2>2 DEF MenuInv, Option
<1>4. CASE MoveCursor
  <2>1. /\ selected_item' \in Beside(selected_item, total)
        /\ UNCHANGED <<menu, total, state_slot, frameskip, fast_forward_rate, core_options>>
    BY <1>4 DEF MoveCursor, Beside, speed, options
  <2>2. total \in Nat \ {0} /\ selected_item \in 0 .. total - 1
    BY DEF MenuInv
  <2>3. selected_item' \in Nat /\ selected_item' < total
    BY <2>1, <2>2, BesideIn
  <2>. QED BY <2>1, <2>3 DEF MenuInv, Option
<1>5. CASE ChangeRate
  <2>1. fast_forward_rate' \in {0, 1, 2, 3, 4}
    <3>1. PICK index \in 1 .. 5 :
            \E next \in Beside(index - 1, 5) : fast_forward_rate' = Rates[next + 1]
      BY <1>5 DEF ChangeRate, Rates
    <3>2. PICK next \in 0 .. 4 : fast_forward_rate' = Rates[next + 1]
      BY <3>1 DEF Beside
    <3>. QED BY <3>2 DEF Rates
  <2>2. UNCHANGED <<menu, selected_item, total, state_slot, frameskip, core_options>>
    BY <1>5 DEF ChangeRate, cursor, options
  <2>. QED BY <2>1, <2>2 DEF MenuInv, Option
<1>6. CASE ChangeFrameskip
  <2>1. /\ frameskip' \in Beside(frameskip, FRAMESKIPS)
        /\ UNCHANGED <<menu, selected_item, total, state_slot, fast_forward_rate, core_options>>
    BY <1>6 DEF ChangeFrameskip, cursor, speed, options
  <2>2. frameskip' \in 0 .. FRAMESKIPS - 1
    BY <2>1, BesideIn, MenuConstants DEF MenuInv
  <2>. QED BY <2>1, <2>2 DEF MenuInv, Option
<1>7. CASE ChangeSlot
  <2>1. /\ state_slot' \in Beside(state_slot, SAVE_STATE_SLOTS)
        /\ UNCHANGED <<menu, selected_item, total, frameskip, fast_forward_rate, core_options>>
    BY <1>7 DEF ChangeSlot, cursor, speed, options
  <2>2. state_slot' \in 0 .. SAVE_STATE_SLOTS - 1
    BY <2>1, BesideIn, MenuConstants DEF MenuInv
  <2>. QED BY <2>1, <2>2 DEF MenuInv, Option
<1>8. CASE ChangeOption
  <2>. DEFINE k == OptionAt(selected_item)
  <2>1. UNCHANGED <<menu, selected_item, total, state_slot, frameskip, fast_forward_rate>>
    BY <1>8 DEF ChangeOption, cursor, speed
  <2>2. k \in 1 .. Len(core_options)
    BY <1>8 DEF ChangeOption, OptionAt, MenuInv
  <2>3. PICK next \in Beside(core_options[k].selected, core_options[k].value_count) :
          core_options' = [core_options EXCEPT ![k].selected = next]
    BY <1>8 DEF ChangeOption
  <2>. HIDE DEF k
  <2>4. core_options[k] \in Option /\ core_options[k].selected < core_options[k].value_count
    BY <2>2 DEF MenuInv
  <2>5. next \in Nat /\ next < core_options[k].value_count
    <3>1. /\ core_options[k].value_count \in Nat \ {0}
          /\ core_options[k].selected \in 0 .. core_options[k].value_count - 1
      BY <2>4 DEF Option
    <3>. QED BY <2>3, <3>1, BesideIn
  <2>6. /\ core_options' \in Seq(Option) /\ Len(core_options') = Len(core_options)
        /\ \A i \in 1 .. Len(core_options) :
             /\ i # k => core_options'[i] = core_options[i]
             /\ i = k => core_options'[i] = [core_options[k] EXCEPT !.selected = next]
    <3>1. core_options \in Seq(Option)
      BY DEF MenuInv
    <3>2. [core_options[k] EXCEPT !.selected = next] \in Option
      BY <2>4, <2>5 DEF Option
    <3>. QED BY <2>2, <2>3, <3>1, <3>2
  <2>7. ASSUME NEW i \in 1 .. Len(core_options)
        PROVE  /\ core_options'[i].selected < core_options'[i].value_count
               /\ core_options'[i].value_count <= CORE_OPTION_VALUES_MAX
    <3>1. CASE i # k
      BY <2>6, <3>1 DEF MenuInv
    <3>2. CASE i = k
      BY <2>4, <2>5, <2>6, <3>2 DEF MenuInv, Option
    <3>. QED BY <3>1, <3>2
  <2>. QED BY <2>1, <2>6, <2>7 DEF MenuInv, Option
<1>9. CASE ResumeGame
  <2>1. /\ menu' = FALSE
        /\ UNCHANGED <<selected_item, total, state_slot, frameskip, fast_forward_rate, core_options>>
    BY <1>9 DEF ResumeGame, speed, options
  <2>. QED BY <2>1 DEF MenuInv, Option
<1>. QED BY <1>1, <1>2, <1>3, <1>4, <1>5, <1>6, <1>7, <1>8, <1>9 DEF MenuNext

(* For every set of options a core may declare, at any time before the     *)
(* menu opens: each row of the menu does what it says (render_pause_menu,  *)
(* run_pause_menu), and what it changes stays a value there is.            *)
THEOREM MenuStaysSound == MenuSpec => []MenuSound
<1>1. MenuInit => MenuInv
  <2>. SUFFICES ASSUME MenuInit PROVE MenuInv
    OBVIOUS
  <2>1. /\ menu = FALSE /\ selected_item = 0 /\ total = 7 /\ state_slot = 0 /\ frameskip = 0
        /\ fast_forward_rate = 1 /\ core_options = <<>>
    BY DEF MenuInit
  <2>2. menu \in BOOLEAN
    BY <2>1
  <2>. QED BY <2>1, <2>2, MenuConstants DEF MenuInv
<1>2. MenuInv => MenuSound
  <2>. SUFFICES ASSUME MenuInv PROVE MenuSound
    OBVIOUS
  <2>1. ASSUME menu PROVE Label(selected_item) = PressA(selected_item)
    <3>1. /\ total = 7 + Len(core_options) /\ Len(core_options) \in Nat
          /\ selected_item \in Nat /\ selected_item < total
      BY <2>1 DEF MenuInv
    <3>2. CASE selected_item = 0
      BY <3>1, <3>2 DEF Label, PressA
    <3>3. CASE selected_item \in 1 .. 5
      BY <3>1, <3>3 DEF Label, PressA
    <3>4. CASE 6 <= selected_item /\ selected_item < 6 + Len(core_options)
      BY <3>1, <3>4 DEF Label, PressA
    <3>5. CASE selected_item = total - 1
      BY <3>1, <3>5 DEF Label, PressA
    <3>. QED BY <3>1, <3>2, <3>3, <3>4, <3>5
  <2>2. \E i \in 1 .. Len(Rates) : Rates[i] = fast_forward_rate
    <3>1. fast_forward_rate \in {0, 1, 2, 3, 4}
      BY DEF MenuInv
    <3>2. /\ Rates[5] = 0 /\ Rates[1] = 1 /\ Rates[2] = 2 /\ Rates[3] = 3 /\ Rates[4] = 4
          /\ Len(Rates) = 5
      BY DEF Rates
    <3>. QED BY <3>1, <3>2
  <2>. QED BY <2>1, <2>2, MenuConstants DEF MenuInv, MenuSound
<1>. QED BY <1>1, <1>2, MenuKept, PTL DEF MenuSpec
-----------------------------------------------------------------------------
(* The screen of the JS2300 core.                                          *)
LEMMA SideClipped ==
  ASSUME NEW at \in Int, NEW length \in Int, NEW limit \in Nat \ {0}, NEW place \in Int
  PROVE  LET side == Clip(at, length, limit) IN
         /\ side.length > 0 /\ side.at <= place /\ place < side.at + side.length
           <=> at <= place /\ place < at + length /\ place \in 0 .. limit - 1
<1>1. CASE at < 0
  BY <1>1 DEF Clip
<1>2. CASE ~(at < 0)
  BY <1>2 DEF Clip
<1>. QED BY <1>1, <1>2

(* core_video_rects() paints what a rectangle covers of the screen, and    *)
(* writes nowhere else, wherever the script puts it.                       *)
THEOREM RectanglesClipped == ClippedExactly
<1>. SUFFICES ASSUME NEW rect \in Rect, NEW column \in Int, NEW row \in Int
              PROVE  Painted(rect, column, row) <=>
                       Within(rect, column, row) /\ column \in Columns /\ row \in Rows
  BY DEF ClippedExactly
<1>1. rect.x \in Int /\ rect.y \in Int /\ rect.w \in Int /\ rect.h \in Int
  BY ScreenAssumption DEF Rect
<1>2. LET x == Clip(rect.x, rect.w, JS2300_CORE_WIDTH) IN
      /\ x.length > 0 /\ x.at <= column /\ column < x.at + x.length
        <=> rect.x <= column /\ column < rect.x + rect.w /\ column \in Columns
  BY <1>1, SideClipped, ScreenAssumption DEF Columns
<1>3. LET y == Clip(rect.y, rect.h, JS2300_CORE_HEIGHT) IN
      /\ y.length > 0 /\ y.at <= row /\ row < y.at + y.length
        <=> rect.y <= row /\ row < rect.y + rect.h /\ row \in Rows
  BY <1>1, SideClipped, ScreenAssumption DEF Rows
<1>. QED BY <1>2, <1>3 DEF Painted, Within

ScreenInv ==
  /\ ScreenAsDrawn /\ started \in BOOLEAN /\ runtime \in BOOLEAN
  /\ core \in {"loaded", "script"} /\ ~started => scripts = 0
  /\ core = "script" => started
  /\ core = "ready" => scripts = 0 /\ ~started
  /\ scripts \in Nat

LEMMA ScreenKept == ScreenInv /\ [JsNext]_jsVars => ScreenInv'
<1>. SUFFICES ASSUME ScreenInv, [JsNext]_jsVars PROVE ScreenInv'
  OBVIOUS
<1>. USE DEF ScreenInv, ScreenAsDrawn
<1>1. CASE RetroInit
  <2>1. started' \in BOOLEAN /\ runtime' \in BOOLEAN /\ ~started'
    BY <1>1 DEF RetroInit
  <2>2. core' = "ready" /\ scripts' = 0 /\ pixels' = drawn'
    BY <1>1 DEF RetroInit
  <2>3. ScreenAsDrawn'
    BY <2>1, <2>2
  <2>. QED BY <2>1, <2>2, <2>3
<1>2. CASE LoadGame
  BY <1>2 DEF LoadGame
<1>3. CASE RetroRun
  BY <1>3 DEF RetroRun, StartsScript
<1>4. CASE ScriptEnds
  BY <1>4 DEF ScriptEnds
<1>5. CASE VideoClear
  BY <1>5 DEF VideoClear
<1>6. CASE VideoRect
  <2>1. PICK rect \in Rect :
          /\ pixels' = [cell \in Columns \X Rows |->
                          IF Painted(rect, cell[1], cell[2]) THEN rect.color ELSE pixels[cell]]
          /\ drawn' = [cell \in Columns \X Rows |->
                         IF Within(rect, cell[1], cell[2]) THEN rect.color ELSE drawn[cell]]
    BY <1>6 DEF VideoRect
  <2>2. ASSUME NEW cell \in Columns \X Rows
        PROVE  Painted(rect, cell[1], cell[2]) <=> Within(rect, cell[1], cell[2])
    <3>1. /\ cell[1] \in Columns /\ cell[2] \in Rows
          /\ cell[1] \in Int /\ cell[2] \in Int
      BY ScreenAssumption DEF Columns, Rows
    <3>. QED BY <3>1, RectanglesClipped DEF ClippedExactly
  <2>3. pixels' = drawn'
    BY <2>1, <2>2
  <2>. QED BY <1>6, <2>3 DEF VideoRect
<1>7. CASE RetroUnloadGame
  BY <1>7 DEF RetroUnloadGame
<1>8. CASE RetroDeinit
  BY <1>8 DEF RetroDeinit
<1>9. CASE UNCHANGED jsVars
  BY <1>9 DEF jsVars
<1>. QED BY <1>1, <1>2, <1>3, <1>4, <1>5, <1>6, <1>7, <1>8, <1>9 DEF JsNext

(* What is presented is what the script of the game drew, and it drew once.*)
THEOREM ScreenIsDrawn == JsSpec => []ScreenAsDrawn
<1>1. ASSUME JsInit PROVE ScreenInv
  <2>1. started \in BOOLEAN /\ runtime \in BOOLEAN /\ ~started
    BY <1>1 DEF JsInit
  <2>2. core = "down" /\ scripts = 0 /\ pixels = drawn
    BY <1>1 DEF JsInit
  <2>3. ScreenAsDrawn
    BY <2>1, <2>2 DEF ScreenAsDrawn
  <2>. QED BY <2>1, <2>2, <2>3 DEF ScreenInv
<1>2. ScreenInv => ScreenAsDrawn
  BY DEF ScreenInv
<1>. QED BY <1>1, <1>2, ScreenKept, PTL DEF JsSpec

(* The glyph cache: the slots are filled from the first one on, each with  *)
(* a code point of its own; until the age wraps, the ages order the        *)
(* requests, and what is no longer there was asked for before all that is. *)
GlyphTyped ==
  /\ font \in BOOLEAN /\ wrapped \in BOOLEAN
  /\ age \in 0 .. AgeSpan - 1
  /\ wanted \in [Codepoints -> 0 .. AgeSpan - 1]
  /\ glyphs \in [Slots -> [valid : BOOLEAN, codepoint : Codepoints \union {NoBitmap},
                           bitmap : Codepoints \union {NoBitmap}, age : 0 .. AgeSpan - 1]]
  /\ \A i \in Valid : glyphs[i].codepoint \in Codepoints

Holds(c) == \E i \in Valid : glyphs[i].codepoint = c

AgesOrder ==
  ~wrapped =>
    /\ \A c \in Codepoints : wanted[c] <= age
    /\ \A c, d \in Codepoints : wanted[c] = wanted[d] /\ wanted[c] > 0 => c = d
    /\ \A i \in Valid : glyphs[i].age = wanted[glyphs[i].codepoint] /\ glyphs[i].age > 0
    /\ \A c \in Codepoints : wanted[c] > 0 /\ ~Holds(c) =>
         Valid = Slots /\ \A i \in Slots : wanted[c] < glyphs[i].age

GlyphInv == GlyphTyped /\ SlotsOwned /\ AgesOrder

LEMMA LeastElement ==
  ASSUME NEW T \in SUBSET Nat, T # {}
  PROVE  \E n \in T : \A m \in T : n <= m
<1>. DEFINE R == {ss \in Nat \X Nat : ss[1] < ss[2]}
<1>1. IsWellFoundedOn(R, Nat)
  BY NatLessThanWellFounded DEF OpToRel
<1>. HIDE DEF R
<1>2. PICK n \in T : \A m \in T : ~(<<m, n>> \in R)
  BY <1>1, WFMin
<1>3. \A m \in T : ~(m < n)
  BY <1>2 DEF R
<1>. QED BY <1>3

LEMMA GlyphsBegin == GlyphInit => GlyphInv
<1>. SUFFICES ASSUME GlyphInit PROVE GlyphInv
  OBVIOUS
<1>1. \A i \in Slots : glyphs[i] = EmptySlot
  BY DEF GlyphInit
<1>2. Valid = {} /\ Rendered = {}
  BY <1>1 DEF Valid, Rendered, EmptySlot
<1>3. 0 \in 0 .. AgeSpan - 1
  BY GlyphAssumption
<1>4. GlyphTyped
  BY <1>2, <1>3 DEF GlyphInit, GlyphTyped, EmptySlot
<1>5. SlotsOwned
  BY <1>1, <1>2, FS_EmptySet DEF GlyphInit, SlotsOwned, EmptySlot
<1>6. \A c \in Codepoints : wanted[c] = 0
  BY DEF GlyphInit
<1>7. age = 0
  BY DEF GlyphInit
<1>8. AgesOrder
  BY <1>2, <1>6, <1>7 DEF AgesOrder
<1>. QED BY <1>4, <1>5, <1>8 DEF GlyphInv

(* A scan that finds nothing saw every slot in use.                        *)
LEMMA NotCached ==
  ASSUME GlyphInv, NEW c \in Codepoints, \A i \in Scanned(c) : ~Hit(i, c)
  PROVE  ~Holds(c)
<1>. SUFFICES ASSUME NEW i \in Valid, glyphs[i].codepoint = c PROVE FALSE
  BY DEF Holds
<1>1. i \in Slots /\ Hit(i, c)
  BY DEF Valid, Hit
<1>2. ASSUME NEW j \in 1 .. i - 1 PROVE glyphs[j].valid /\ ~Hit(j, c)
  <2>1. j \in 1 .. i /\ j # i
    BY <1>1 DEF Slots
  <2>2. j \in Valid
    BY <2>1 DEF GlyphInv, SlotsOwned
  <2>3. glyphs[j].codepoint # c
    BY <2>1, <2>2 DEF GlyphInv, SlotsOwned
  <2>. QED BY <2>2, <2>3 DEF Valid, Hit
<1>3. i \in Scanned(c)
  BY <1>1, <1>2 DEF Scanned
<1>. QED BY <1>1, <1>3

LEMMA OldestIsFirst ==
  ASSUME GlyphInv, NEW c \in Codepoints, ~Holds(c)
  PROVE  /\ Oldest(c) \in Slots
         /\ 1 .. Oldest(c) - 1 \subseteq Valid
         /\ Oldest(c) \in Valid =>
              Valid = Slots /\ \A j \in Slots : glyphs[Oldest(c)].age <= glyphs[j].age
<1>. DEFINE Unused == {i \in Slots : ~glyphs[i].valid}
<1>1. \A i \in Slots : ~Hit(i, c)
  BY DEF Holds, Hit, Valid
<1>2. Slots \in SUBSET Nat /\ Slots # {} /\ \A i \in Slots : \A j \in 1 .. i - 1 : j \in Slots
  BY GlyphAssumption DEF Slots
<1>3. \A i \in Scanned(c) : i \in Slots /\ 1 .. i - 1 \subseteq Valid
  BY <1>2 DEF Scanned, Valid
<1>4. CASE \E i \in Scanned(c) : ~glyphs[i].valid
  <2>1. Oldest(c) \in Scanned(c) /\ ~glyphs[Oldest(c)].valid
    BY <1>4 DEF Oldest
  <2>. QED BY <2>1, <1>3 DEF Valid
<1>5. CASE ~ \E i \in Scanned(c) : ~glyphs[i].valid
  <2>1. Unused = {}
    <3>. SUFFICES ASSUME Unused # {} PROVE FALSE
      OBVIOUS
    <3>1. Unused \in SUBSET Nat
      BY <1>2
    <3>2. PICK i \in Unused : \A j \in Unused : i <= j
      <4>. HIDE DEF Unused
      <4>. QED BY <3>1, LeastElement
    <3>3. \A j \in 1 .. i - 1 : j \notin Unused
      BY <3>1, <3>2
    <3>4. i \in Scanned(c)
      BY <1>1, <1>2, <3>2, <3>3 DEF Scanned
    <3>. QED BY <1>5, <3>2, <3>4
  <2>2. Valid = Slots /\ Scanned(c) = Slots
    BY <2>1, <1>1, <1>2 DEF Valid, Scanned
  <2>3. \A i \in Slots : glyphs[i].age \in Nat
    BY GlyphAssumption DEF GlyphInv, GlyphTyped
  <2>. DEFINE Ages == {glyphs[i].age : i \in Slots}
  <2>4. PICK m \in Ages : \A n \in Ages : m <= n
    <3>1. Ages \in SUBSET Nat /\ Ages # {}
      BY <2>3, <1>2
    <3>. HIDE DEF Ages
    <3>. QED BY <3>1, LeastElement
  <2>. DEFINE First == {i \in Slots : glyphs[i].age = m}
  <2>5. PICK k \in First : \A j \in First : k <= j
    <3>1. First \in SUBSET Nat /\ First # {}
      BY <2>4, <1>2
    <3>. HIDE DEF First
    <3>. QED BY <3>1, LeastElement
  <2>6. \A j \in Slots : glyphs[k].age < glyphs[j].age \/ (glyphs[k].age = glyphs[j].age /\ k <= j)
    BY <2>3, <2>4, <2>5
  <2>7. \E i \in Slots : \A j \in Slots :
           glyphs[i].age < glyphs[j].age \/ (glyphs[i].age = glyphs[j].age /\ i <= j)
    BY <2>5, <2>6
  <2>8. /\ Oldest(c) \in Slots
        /\ \A j \in Slots : glyphs[Oldest(c)].age < glyphs[j].age
             \/ (glyphs[Oldest(c)].age = glyphs[j].age /\ Oldest(c) <= j)
    BY <2>2, <2>7, <1>5 DEF Oldest
  <2>9. \A j \in Slots : glyphs[Oldest(c)].age <= glyphs[j].age
    BY <2>3, <2>8
  <2>. QED BY <2>2, <2>8, <2>9, <1>2
<1>. QED BY <1>4, <1>5

LEMMA NextAgeIs ==
  ASSUME age \in 0 .. AgeSpan - 1
  PROVE  NextAge \in 0 .. AgeSpan - 1 /\ (NextAge # 0 => NextAge = age + 1)
<1>1. CASE age + 1 < AgeSpan
  <2>1. (age + 1) % AgeSpan = age + 1
    BY <1>1, GlyphAssumption
  <2>. QED BY <2>1, <1>1, GlyphAssumption DEF NextAge
<1>2. CASE age + 1 = AgeSpan
  <2>1. AgeSpan % AgeSpan = 0
    BY GlyphAssumption
  <2>. QED BY <2>1, <1>2, GlyphAssumption DEF NextAge
<1>. QED BY <1>1, <1>2, GlyphAssumption

LEMMA AskedTyped ==
  ASSUME GlyphInv, NEW c \in Codepoints, Asked(c)
  PROVE  /\ wrapped' \in BOOLEAN /\ age' \in 0 .. AgeSpan - 1
         /\ wanted' \in [Codepoints -> 0 .. AgeSpan - 1]
<1>1. age' \in 0 .. AgeSpan - 1
  BY NextAgeIs DEF GlyphInv, GlyphTyped, Asked
<1>2. wrapped' \in BOOLEAN
  BY DEF Asked, GlyphInv, GlyphTyped
<1>3. 0 \in 0 .. AgeSpan - 1
  BY GlyphAssumption
<1>4. wanted \in [Codepoints -> 0 .. AgeSpan - 1] /\ NextAge \in 0 .. AgeSpan - 1
  BY <1>1 DEF GlyphInv, GlyphTyped, Asked
<1>5. CASE wrapped'
  <2>1. wanted' = [d \in Codepoints |-> 0]
    BY <1>5, Zenon DEF Asked
  <2>. QED BY <1>1, <1>2, <1>3, <2>1
<1>6. CASE ~wrapped'
  BY <1>4, <1>6 DEF Asked
<1>. QED BY <1>1, <1>2, <1>5, <1>6

(* Until the age wraps, what is asked for becomes the latest.              *)
LEMMA AskedIsLatest ==
  ASSUME GlyphInv, NEW c \in Codepoints, Asked(c), ~wrapped'
  PROVE  /\ ~wrapped /\ age' = age + 1 /\ wanted'[c] = age'
         /\ \A d \in Codepoints : d # c => wanted'[d] = wanted[d]
         /\ \A d \in Codepoints : wanted[d] \in Nat /\ wanted[d] < age'
         /\ \A d \in Codepoints : wanted'[d] <= age'
         /\ \A d, e \in Codepoints : wanted'[d] = wanted'[e] /\ wanted'[d] > 0 => d = e
<1>1. ~wrapped /\ NextAge # 0 /\ age' = NextAge /\ wanted' = [wanted EXCEPT ![c] = NextAge]
  BY DEF Asked
<1>2. age' = age + 1 /\ age \in Nat
  BY <1>1, NextAgeIs, GlyphAssumption DEF GlyphInv, GlyphTyped
<1>3. wanted \in [Codepoints -> 0 .. AgeSpan - 1]
  BY DEF GlyphInv, GlyphTyped
<1>4. wanted'[c] = age' /\ \A d \in Codepoints : d # c => wanted'[d] = wanted[d]
  BY <1>1, <1>3
<1>5. \A d \in Codepoints : wanted[d] \in Nat /\ wanted[d] <= age
  BY <1>1, <1>3, GlyphAssumption DEF GlyphInv, AgesOrder
<1>6. \A d \in Codepoints : wanted[d] \in Nat /\ wanted[d] < age'
  BY <1>2, <1>5
<1>7. \A d \in Codepoints : wanted'[d] <= age'
  BY <1>2, <1>4, <1>6
<1>8. ASSUME NEW d \in Codepoints, NEW e \in Codepoints, wanted'[d] = wanted'[e], wanted'[d] > 0
      PROVE  d = e
  <2>1. CASE d = c
    BY <1>4, <1>6, <1>8, <2>1
  <2>2. CASE e = c
    BY <1>4, <1>6, <1>8, <2>2
  <2>3. CASE d # c /\ e # c
    BY <1>1, <1>4, <1>8, <2>3 DEF GlyphInv, AgesOrder
  <2>. QED BY <2>1, <2>2, <2>3
<1>. QED BY <1>1, <1>2, <1>4, <1>6, <1>7, <1>8

LEMMA CachedKeeps ==
  ASSUME GlyphInv, NEW c \in Codepoints, Cached(c)
  PROVE  GlyphInv'
<1>1. PICK i \in Scanned(c) : Hit(i, c) /\ glyphs' = [glyphs EXCEPT ![i].age = NextAge]
  BY DEF Cached
<1>2. Asked(c) /\ UNCHANGED <<font, bitmaps>>
  BY DEF Cached
<1>3. i \in Slots /\ i \in Valid /\ glyphs[i].codepoint = c
  BY <1>1 DEF Scanned, Hit, Valid
<1>4. GlyphTyped /\ SlotsOwned
  BY DEF GlyphInv
<1>5. age' = NextAge /\ age' \in 0 .. AgeSpan - 1
  BY <1>2, AskedTyped DEF Asked
<1>6. /\ \A j \in Slots : glyphs'[j].valid = glyphs[j].valid
      /\ \A j \in Slots : glyphs'[j].codepoint = glyphs[j].codepoint
      /\ \A j \in Slots : glyphs'[j].bitmap = glyphs[j].bitmap
      /\ \A j \in Slots : j # i => glyphs'[j].age = glyphs[j].age
      /\ glyphs'[i].age = age'
  BY <1>1, <1>3, <1>4, <1>5 DEF GlyphTyped
<1>7. Valid' = Valid /\ Rendered' = Rendered /\ Valid \subseteq Slots
  BY <1>6 DEF Valid, Rendered
<1>8. GlyphTyped'
  <2>1. glyphs' \in [Slots -> [valid : BOOLEAN, codepoint : Codepoints \union {NoBitmap},
                           bitmap : Codepoints \union {NoBitmap}, age : 0 .. AgeSpan - 1]]
    BY <1>1, <1>3, <1>4, <1>5 DEF GlyphTyped
  <2>2. \A j \in Valid' : glyphs'[j].codepoint \in Codepoints
    BY <1>4, <1>6, <1>7 DEF GlyphTyped
  <2>3. font' \in BOOLEAN
    BY <1>2, <1>4 DEF GlyphTyped
  <2>. QED BY <1>2, <2>1, <2>2, <2>3, AskedTyped DEF GlyphTyped
<1>9. SlotsOwned'
  BY <1>2, <1>4, <1>6, <1>7 DEF SlotsOwned
<1>10. AgesOrder'
  <2>. SUFFICES ASSUME ~wrapped' PROVE AgesOrder'
    BY DEF AgesOrder
  <2>1. AgesOrder /\ ~wrapped
    BY <1>2, AskedIsLatest DEF GlyphInv
  <2>2. \A d \in Codepoints : Holds(d)' <=> Holds(d)
    BY <1>6, <1>7 DEF Holds
  <2>3. ASSUME NEW j \in Valid
        PROVE  glyphs'[j].age = wanted'[glyphs'[j].codepoint] /\ glyphs'[j].age > 0
    <3>1. CASE j = i
      <4>1. age' > 0
        BY <1>2, AskedIsLatest, GlyphAssumption DEF GlyphInv, GlyphTyped
      <4>. QED BY <3>1, <4>1, <1>2, <1>3, <1>6, AskedIsLatest
    <3>2. CASE j # i
      <4>1. glyphs[j].codepoint # c /\ glyphs[j].codepoint \in Codepoints
        BY <3>2, <1>3, <1>4 DEF SlotsOwned, GlyphTyped
      <4>2. glyphs[j].age = wanted[glyphs[j].codepoint] /\ glyphs[j].age > 0
        BY <2>1 DEF AgesOrder
      <4>3. wanted'[glyphs[j].codepoint] = wanted[glyphs[j].codepoint]
        BY <4>1, <1>2, AskedIsLatest
      <4>. QED BY <3>2, <4>2, <4>3, <1>6, <1>7
    <3>. QED BY <3>1, <3>2
  <2>4. ASSUME NEW d \in Codepoints, wanted'[d] > 0, ~Holds(d)'
        PROVE  Valid' = Slots /\ \A j \in Slots : wanted'[d] < glyphs'[j].age
    <3>1. d # c
      BY <2>2, <2>4, <1>3 DEF Holds
    <3>2. wanted'[d] = wanted[d] /\ wanted[d] < age'
      BY <3>1, <1>2, AskedIsLatest
    <3>3. Valid = Slots /\ \A j \in Slots : wanted[d] < glyphs[j].age
      BY <3>2, <2>1, <2>2, <2>4 DEF AgesOrder
    <3>. QED BY <3>2, <3>3, <1>6, <1>7
  <2>5. /\ \A d \in Codepoints : wanted'[d] <= age'
        /\ \A d, e \in Codepoints : wanted'[d] = wanted'[e] /\ wanted'[d] > 0 => d = e
    BY <1>2, AskedIsLatest
  <2>. QED BY <2>3, <2>4, <2>5, <1>7 DEF AgesOrder
<1>. QED BY <1>8, <1>9, <1>10 DEF GlyphInv

(* What is given up was asked for before all that stays.                   *)
LEMMA RasterisedOrders ==
  ASSUME GlyphInv, NEW c \in Codepoints, ~Holds(c), Asked(c), ~wrapped',
         NEW o \in Slots,
         o \in Valid => Valid = Slots /\ \A j \in Slots : glyphs[o].age <= glyphs[j].age,
         Valid' = Valid \union {o},
         glyphs'[o].age = age', glyphs'[o].codepoint = c,
         \A j \in Slots : j # o => glyphs'[j] = glyphs[j]
  PROVE  AgesOrder'
<1>1. AgesOrder /\ ~wrapped /\ SlotsOwned /\ GlyphTyped
  BY AskedIsLatest DEF GlyphInv
<1>2. Valid \subseteq Slots /\ \A j \in Slots : glyphs[j].age \in Nat
  BY <1>1, GlyphAssumption DEF Valid, GlyphTyped
<1>3. age' \in Nat /\ age' > 0
  BY AskedIsLatest, GlyphAssumption DEF GlyphInv, GlyphTyped
<1>4. \A j \in Valid : glyphs[j].codepoint \in Codepoints /\ glyphs[j].codepoint # c
  BY <1>1 DEF GlyphTyped, Holds
<1>5. \A j \in Valid : glyphs[j].age = wanted[glyphs[j].codepoint] /\ glyphs[j].age > 0
  BY <1>1 DEF AgesOrder
<1>6. \A j \in Valid : glyphs[j].age < age'
  BY <1>4, <1>5, AskedIsLatest
<1>7. ASSUME NEW j \in Valid'
      PROVE  glyphs'[j].age = wanted'[glyphs'[j].codepoint] /\ glyphs'[j].age > 0
  <2>1. CASE j = o
    BY <2>1, <1>3, AskedIsLatest
  <2>2. CASE j # o
    <3>1. j \in Valid /\ j \in Slots
      BY <2>2, <1>2, <1>7
    <3>2. wanted'[glyphs[j].codepoint] = wanted[glyphs[j].codepoint]
      BY <3>1, <1>4, AskedIsLatest
    <3>. QED BY <2>2, <3>1, <3>2, <1>5
  <2>. QED BY <2>1, <2>2
<1>8. ASSUME NEW d \in Codepoints, wanted'[d] > 0, ~Holds(d)'
      PROVE  Valid' = Slots /\ \A j \in Slots : wanted'[d] < glyphs'[j].age
  <2>1. d # c
    BY <1>8 DEF Holds
  <2>2. wanted'[d] = wanted[d] /\ wanted[d] \in Nat /\ wanted[d] < age'
    BY <2>1, AskedIsLatest
  <2>3. CASE Holds(d)
    <3>1. PICK j \in Valid : glyphs[j].codepoint = d
      BY <2>3 DEF Holds
    <3>2. j = o
      BY <3>1, <1>2, <1>8 DEF Holds
    <3>3. Valid = Slots /\ \A k \in Slots : glyphs[o].age <= glyphs[k].age
      BY <3>1, <3>2
    <3>4. glyphs[o].age = wanted[d]
      BY <3>1, <3>2, <1>5
    <3>5. ASSUME NEW k \in Slots PROVE wanted'[d] < glyphs'[k].age
      <4>1. CASE k = o
        BY <4>1, <2>2
      <4>2. CASE k # o
        <5>1. glyphs[k].codepoint # d /\ glyphs[k].codepoint \in Codepoints
          BY <4>2, <3>1, <3>2, <3>3, <1>1, <1>4 DEF SlotsOwned
        <5>2. glyphs[k].age # wanted[d]
          BY <5>1, <2>2, <3>3, <1>1, <1>5, <1>8 DEF AgesOrder
        <5>. QED BY <4>2, <5>2, <2>2, <3>3, <3>4, <1>2
      <4>. QED BY <4>1, <4>2
    <3>. QED BY <3>3, <3>5
  <2>4. CASE ~Holds(d)
    <3>1. Valid = Slots /\ \A j \in Slots : wanted[d] < glyphs[j].age
      BY <2>2, <2>4, <1>1, <1>8 DEF AgesOrder
    <3>. QED BY <2>2, <3>1
  <2>. QED BY <2>3, <2>4
<1>9. /\ \A d \in Codepoints : wanted'[d] <= age'
      /\ \A d, e \in Codepoints : wanted'[d] = wanted'[e] /\ wanted'[d] > 0 => d = e
  BY AskedIsLatest
<1>. QED BY <1>7, <1>8, <1>9 DEF AgesOrder

LEMMA RasterisedKeeps ==
  ASSUME GlyphInv, NEW c \in Codepoints, Rasterised(c)
  PROVE  GlyphInv'
<1>. DEFINE o == Oldest(c)
<1>1. ~Holds(c)
  BY NotCached DEF Rasterised
<1>2. /\ o \in Slots /\ 1 .. o - 1 \subseteq Valid
      /\ o \in Valid => Valid = Slots /\ \A j \in Slots : glyphs[o].age <= glyphs[j].age
  BY <1>1, OldestIsFirst
<1>3. PICK bitmap \in {NoBitmap} \union {c} :
        /\ glyphs' = [glyphs EXCEPT ![o] =
                        [valid |-> TRUE, codepoint |-> c, bitmap |-> bitmap, age |-> NextAge]]
        /\ bitmaps' = (bitmaps - FreedBitmaps(o)) + (IF bitmap # NoBitmap THEN 1 ELSE 0)
  BY DEF Rasterised
<1>. HIDE DEF o
<1>4. Asked(c) /\ UNCHANGED font
  BY DEF Rasterised
<1>5. GlyphTyped /\ SlotsOwned
  BY DEF GlyphInv
<1>6. age' = NextAge /\ age' \in 0 .. AgeSpan - 1
  BY <1>4, AskedTyped DEF Asked
<1>7. /\ glyphs'[o] = [valid |-> TRUE, codepoint |-> c, bitmap |-> bitmap, age |-> age']
      /\ \A j \in Slots : j # o => glyphs'[j] = glyphs[j]
  BY <1>2, <1>3, <1>5, <1>6 DEF GlyphTyped
<1>8. Valid' = Valid \union {o} /\ Valid \subseteq Slots
  BY <1>2, <1>7 DEF Valid
<1>9. GlyphTyped'
  <2>1. glyphs' \in [Slots -> [valid : BOOLEAN, codepoint : Codepoints \union {NoBitmap},
                           bitmap : Codepoints \union {NoBitmap}, age : 0 .. AgeSpan - 1]]
    BY <1>2, <1>3, <1>5, <1>6 DEF GlyphTyped
  <2>2. \A j \in Valid' : glyphs'[j].codepoint \in Codepoints
    BY <1>5, <1>7, <1>8 DEF GlyphTyped
  <2>3. font' \in BOOLEAN
    BY <1>4, <1>5 DEF GlyphTyped
  <2>. QED BY <1>4, <2>1, <2>2, <2>3, AskedTyped DEF GlyphTyped
<1>10. bitmaps' = Cardinality(Rendered')
  <2>1. bitmaps = Cardinality(Rendered) /\ Rendered \subseteq Slots
    BY <1>5 DEF SlotsOwned, Rendered
  <2>2. IsFiniteSet(Rendered) /\ Cardinality(Rendered) \in Nat
    <3>1. IsFiniteSet(Slots)
      BY GlyphAssumption, FS_Interval DEF Slots
    <3>. QED BY <2>1, <3>1, FS_Subset, FS_CardinalityType
  <2>3. IsFiniteSet(Rendered \ {o})
        /\ Cardinality(Rendered \ {o}) = Cardinality(Rendered) - FreedBitmaps(o)
    BY <2>2, FS_RemoveElement DEF FreedBitmaps
  <2>4. CASE bitmap = NoBitmap
    <3>1. Rendered' = Rendered \ {o}
      BY <2>4, <1>2, <1>7 DEF Rendered
    <3>. QED BY <2>1, <2>2, <2>3, <2>4, <3>1, <1>3 DEF FreedBitmaps
  <2>5. CASE bitmap # NoBitmap
    <3>1. Rendered' = (Rendered \ {o}) \union {o}
      BY <2>5, <1>2, <1>7 DEF Rendered
    <3>2. Cardinality((Rendered \ {o}) \union {o}) = Cardinality(Rendered \ {o}) + 1
      BY <2>3, FS_AddElement
    <3>. QED BY <2>1, <2>2, <2>3, <2>5, <3>1, <3>2, <1>3 DEF FreedBitmaps
  <2>. QED BY <2>4, <2>5
<1>11. \A i, j \in Valid' : glyphs'[i].codepoint = glyphs'[j].codepoint => i = j
  <2>1. \A j \in Valid : glyphs[j].codepoint # c
    BY <1>1 DEF Holds
  <2>. QED BY <2>1, <1>5, <1>7, <1>8 DEF SlotsOwned
<1>12. \A i \in Valid' : 1 .. i \subseteq Valid'
  <2>1. 1 .. o \subseteq Valid'
    BY <1>2, <1>8, GlyphAssumption DEF Slots
  <2>. QED BY <2>1, <1>5, <1>8 DEF SlotsOwned
<1>13. \A i \in Slots : glyphs'[i].bitmap \in {NoBitmap, glyphs'[i].codepoint}
  BY <1>5, <1>7 DEF SlotsOwned
<1>14. AgesOrder'
  <2>1. CASE wrapped'
    BY <2>1 DEF AgesOrder
  <2>2. CASE ~wrapped'
    BY <2>2, <1>1, <1>2, <1>4, <1>7, <1>8, RasterisedOrders
  <2>. QED BY <2>1, <2>2
<1>15. SlotsOwned'
  BY <1>10, <1>11, <1>12, <1>13 DEF SlotsOwned
<1>. QED BY <1>9, <1>14, <1>15 DEF GlyphInv

LEMMA FontCloseKeeps == GlyphInv /\ FontClose => GlyphInv'
<1>. SUFFICES ASSUME GlyphInv, FontClose PROVE GlyphInv'
  OBVIOUS
<1>1. \A i \in Slots : glyphs'[i] = EmptySlot
  BY DEF FontClose
<1>2. Valid' = {} /\ Rendered' = {}
  BY <1>1 DEF Valid, Rendered, EmptySlot
<1>3. 0 \in 0 .. AgeSpan - 1
  BY GlyphAssumption
<1>4. GlyphTyped'
  BY <1>2, <1>3 DEF FontClose, GlyphTyped, EmptySlot
<1>5. bitmaps' = 0
  <2>1. bitmaps = Cardinality(Rendered) /\ Rendered \subseteq Slots
    BY DEF GlyphInv, SlotsOwned, Rendered
  <2>2. IsFiniteSet(Slots)
    BY GlyphAssumption, FS_Interval DEF Slots
  <2>3. Cardinality(Rendered) \in Nat
    BY <2>1, <2>2, FS_Subset, FS_CardinalityType
  <2>. QED BY <2>1, <2>3 DEF FontClose
<1>6. SlotsOwned'
  BY <1>1, <1>2, <1>5, FS_EmptySet DEF SlotsOwned, EmptySlot
<1>7. \A c \in Codepoints : wanted'[c] = 0
  BY DEF FontClose
<1>8. age' = 0
  BY DEF FontClose
<1>9. AgesOrder'
  BY <1>2, <1>7, <1>8 DEF AgesOrder
<1>. QED BY <1>4, <1>6, <1>9 DEF GlyphInv

LEMMA GlyphsKept == GlyphInv /\ [GlyphNext]_glyphVars => GlyphInv'
<1>. SUFFICES ASSUME GlyphInv, [GlyphNext]_glyphVars PROVE GlyphInv'
  OBVIOUS
<1>1. ASSUME NEW c \in Codepoints, Cached(c) PROVE GlyphInv'
  BY <1>1, CachedKeeps
<1>2. ASSUME NEW c \in Codepoints, Rasterised(c) PROVE GlyphInv'
  BY <1>2, RasterisedKeeps
<1>3. CASE FontClose
  BY <1>3, FontCloseKeeps
<1>4. CASE FontOpen
  <2>1. font' \in BOOLEAN
    BY <1>4 DEF FontOpen
  <2>. QED BY <1>4, <2>1
       DEF FontOpen, GlyphInv, GlyphTyped, SlotsOwned, AgesOrder, Holds, Valid, Rendered
<1>5. CASE UNCHANGED glyphVars
  BY <1>5 DEF glyphVars, GlyphInv, GlyphTyped, SlotsOwned, AgesOrder, Holds, Valid, Rendered
<1>. QED BY <1>1, <1>2, <1>3, <1>4, <1>5 DEF GlyphNext

(* The code points of the slots in use are those of which fewer than       *)
(* GLYPH_CACHE others were asked for later.                                *)
LEMMA InUseIsLatest == GlyphInv => LeastRecentGoes
<1>. SUFFICES ASSUME GlyphInv, ~wrapped PROVE LeastRecentGoes
  BY DEF LeastRecentGoes
<1>. DEFINE Held == {glyphs[i].codepoint : i \in Valid}
            cp == [i \in Valid |-> glyphs[i].codepoint]
<1>1. GlyphTyped /\ SlotsOwned /\ AgesOrder /\ Valid \subseteq Slots
  BY DEF GlyphInv, Valid
<1>2. Held \subseteq Codepoints /\ \A c : c \in Held <=> Holds(c)
  BY <1>1 DEF GlyphTyped, Holds
<1>3. \A c \in Codepoints : wanted[c] \in Nat
  BY <1>1, GlyphAssumption DEF GlyphTyped
<1>4. \A i \in Valid : glyphs[i].age = wanted[cp[i]] /\ glyphs[i].age > 0
  BY <1>1 DEF AgesOrder
<1>5. IsFiniteSet(Slots) /\ Cardinality(Slots) = GLYPH_CACHE
  BY GlyphAssumption, FS_Interval DEF Slots
<1>6. IsFiniteSet(Valid) /\ Cardinality(Valid) <= GLYPH_CACHE
  BY <1>1, <1>5, FS_Subset
<1>7. cp \in Surjection(Valid, Held) /\ cp \in Injection(Valid, Held)
  BY <1>1 DEF SlotsOwned, Surjection, Injection, IsInjective
<1>8. IsFiniteSet(Held) /\ Cardinality(Held) = Cardinality(Valid)
  <2>. HIDE DEF Held, cp
  <2>. QED BY <1>6, <1>7, FS_Surjection
<1>9. Cardinality(Held) \in Nat /\ Cardinality(Held) <= GLYPH_CACHE
  <2>. HIDE DEF Held
  <2>. QED BY <1>6, <1>8, FS_CardinalityType
<1>10. ASSUME NEW c \in Held
       PROVE  c \in Codepoints /\ wanted[c] > 0 /\ Cardinality(Later(c)) < GLYPH_CACHE
  <2>1. PICK i \in Valid : glyphs[i].codepoint = c
    BY <1>10
  <2>2. c \in Codepoints /\ wanted[c] = glyphs[i].age /\ wanted[c] > 0
    BY <2>1, <1>2, <1>4
  <2>3. Later(c) \subseteq Held \ {c}
    <3>. SUFFICES ASSUME NEW d \in Codepoints, wanted[d] > wanted[c] PROVE d \in Held /\ d # c
      BY DEF Later
    <3>1. d # c /\ wanted[d] > 0
      BY <2>2, <1>3
    <3>2. Holds(d)
      <4>. SUFFICES ASSUME ~Holds(d) PROVE FALSE
        OBVIOUS
      <4>1. wanted[d] < glyphs[i].age
        BY <3>1, <2>1, <1>1 DEF AgesOrder
      <4>. QED BY <4>1, <2>2, <1>3
    <3>. QED BY <3>1, <3>2, <1>2
  <2>. HIDE DEF Held
  <2>4. IsFiniteSet(Held \ {c}) /\ Cardinality(Held \ {c}) = Cardinality(Held) - 1
    BY <1>8, <1>10, FS_RemoveElement
  <2>5. IsFiniteSet(Later(c)) /\ Cardinality(Later(c)) <= Cardinality(Held \ {c})
    BY <2>3, <2>4, FS_Subset
  <2>6. Cardinality(Later(c)) \in Nat
    BY <2>5, FS_CardinalityType
  <2>. QED BY <2>2, <2>4, <2>5, <2>6, <1>9, GlyphAssumption
<1>11. ASSUME NEW c \in Codepoints, wanted[c] > 0, c \notin Held
       PROVE  ~(Cardinality(Later(c)) < GLYPH_CACHE)
  <2>1. Valid = Slots /\ \A i \in Slots : wanted[c] < glyphs[i].age
    BY <1>1, <1>2, <1>11 DEF AgesOrder
  <2>2. Held \subseteq Later(c)
    BY <2>1, <1>2, <1>4, <1>3 DEF Later
  <2>. HIDE DEF Held
  <2>3. IsFiniteSet(Later(c))
    BY GlyphAssumption, FS_Subset DEF Later
  <2>4. Cardinality(Held) <= Cardinality(Later(c)) /\ Cardinality(Later(c)) \in Nat
    BY <2>2, <2>3, FS_Subset, FS_CardinalityType
  <2>5. Cardinality(Held) = GLYPH_CACHE
    BY <2>1, <1>5, <1>8
  <2>. QED BY <2>4, <2>5, GlyphAssumption
<1>12. Held = {c \in Codepoints : wanted[c] > 0 /\ Cardinality(Later(c)) < GLYPH_CACHE}
  <2>. HIDE DEF Held
  <2>. QED BY <1>10, <1>11
<1>. QED BY <1>12 DEF LeastRecentGoes

(* Glyphs stay sound (font_glyph(), glyph_release(), font_close()): one    *)
(* slot for a code point, every bitmap owned and freed once, and, until    *)
(* the age wraps, the slots hold what was asked for last.                  *)
THEOREM GlyphsStaySound == GlyphSpec => []GlyphsSound
<1>1. GlyphInv => GlyphsSound
  BY InUseIsLatest DEF GlyphInv, GlyphsSound
<1>. QED BY <1>1, GlyphsBegin, GlyphsKept, PTL DEF GlyphSpec
=============================================================================
