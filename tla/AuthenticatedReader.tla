------------------------ MODULE AuthenticatedReader ------------------------
(***************************************************************************)
(* A seekable view of an artifact that other processes may write to while  *)
(* it is hashed and parsed (AuthenticatedReader).                          *)
(*                                                                         *)
(* Byte i of the pinned file is i and a written byte is 0.  Reads of the   *)
(* source are short, and every read is a step, so that a write can fall    *)
(* between any two of them.  A digest is the bytes it was taken of.        *)
(* PinnedBytesOnlyHolds proves the property for every length, chunk and    *)
(* number of writes.                                                       *)
(***************************************************************************)
EXTENDS Integers, Sequences, FiniteSets, SequencesExt, TLAPS

CONSTANTS
    Length,     \* bytes of the pinned file
    ChunkBytes, \* CHUNK_BYTES
    MaxWrites,  \* writes of the environment
    NoChunk     \* None

ASSUME ReaderAssumption ==
    /\ Length \in Nat \ {0} /\ ChunkBytes \in Nat \ {0} /\ MaxWrites \in Nat
    /\ NoChunk \notin Nat

VARIABLES
    file,       \* the source now
    writes,
    phase,      \* hashing, ready, refilling, refused
    offset,     \* the source's position
    digest,     \* the bytes hashed by the first pass
    hashes,     \* the digests of its chunks
    filled,     \* the bytes the loop under way has read
    buffer, cachedChunk, position,
    want,       \* the bytes the read under way was asked for
    dirty,      \* ghost: a byte of the source differed while the call ran
    last        \* what the last call returned

vars == <<file, writes, phase, offset, digest, hashes, filled, buffer, cachedChunk, position,
          want, dirty, last>>

Pinned == [i \in 1..Length |-> i]
ChunkOf(k) == SubSeq(Pinned, k * ChunkBytes + 1, Min({(k + 1) * ChunkBytes, Length}))
LengthRead == Len(digest)
Quiet == [call |-> "none", at |-> 0, bytes |-> <<>>, ok |-> TRUE]

Init ==
    /\ file = Pinned /\ writes = 0
    /\ phase = "hashing" /\ offset = 0 /\ digest = <<>> /\ hashes = <<>> /\ filled = <<>>
    /\ buffer = [i \in 1..ChunkBytes |-> 0] /\ cachedChunk = NoChunk /\ position = 0
    /\ want = 0 /\ dirty = FALSE /\ last = Quiet

\* The environment changes, restores, truncates or extends the file.
Write ==
    /\ writes < MaxWrites
    /\ file' \in {[file EXCEPT ![i] = 0] : i \in DOMAIN file} \cup {Pinned}
                 \cup {SubSeq(file, 1, k) : k \in {ChunkBytes, Length - 1} \cap 0..Len(file)}
                 \cup {Append(file, 0)}
    /\ file' # file
    /\ writes' = writes + 1
    /\ dirty' = (dirty \/ file' # Pinned)
    /\ UNCHANGED <<phase, offset, digest, hashes, filled, buffer, cachedChunk, position, want, last>>

\* What the source gives for n bytes.
Given(n) == SubSeq(file, offset + 1, Min({offset + n, Len(file)}))

\* The first pass hashes what it reads, a chunk at a time, until the end of the
\* file or a chunk it could not fill.
HashRead ==
    /\ phase = "hashing" /\ Len(filled) < ChunkBytes /\ offset < Len(file)
    /\ \E n \in 1..(ChunkBytes - Len(filled)) : filled' = filled \o Given(n)
    /\ offset' = offset + Len(filled') - Len(filled)
    /\ UNCHANGED <<file, writes, phase, digest, hashes, buffer, cachedChunk, position, want, dirty, last>>

HashesDiffer(whole) == whole # Pinned

HashChunk ==
    /\ phase = "hashing" /\ (Len(filled) = ChunkBytes \/ offset >= Len(file))
    /\ digest' = digest \o filled
    /\ hashes' = IF filled = <<>> THEN hashes ELSE Append(hashes, filled)
    /\ phase' = IF Len(filled) = ChunkBytes THEN "hashing"
                ELSE IF HashesDiffer(digest') THEN "refused" ELSE "ready"
    /\ filled' = <<>>
    /\ last' = IF phase' = "refused" THEN [Quiet EXCEPT !.call = "new", !.ok = FALSE] ELSE Quiet
    /\ UNCHANGED <<file, writes, offset, buffer, cachedChunk, position, want, dirty>>

ChunkIndex == position \div ChunkBytes
CountOf(index) == Min({LengthRead - index * ChunkBytes, ChunkBytes})

Delivered(n) ==
    LET start == position % ChunkBytes
        count == Min({n, ChunkBytes - start, LengthRead - position})
    IN  /\ last' = [call |-> "read", at |-> position, ok |-> TRUE,
                    bytes |-> SubSeq(buffer', start + 1, start + count)]
        /\ position' = position + count

\* Read: nothing past the end, the cached chunk at once, another after a refill.
ReadCached(n) ==
    /\ phase = "ready"
    /\ n = 0 \/ position >= LengthRead \/ cachedChunk = ChunkIndex
    /\ UNCHANGED buffer
    /\ IF n = 0 \/ position >= LengthRead
       THEN last' = [call |-> "read", at |-> position, bytes |-> <<>>, ok |-> TRUE] /\ UNCHANGED position
       ELSE Delivered(n)
    /\ UNCHANGED <<file, writes, phase, offset, digest, hashes, filled, cachedChunk, want, dirty>>

\* Mutation: the cached chunk stays valid while it is refilled.
StartRefill_Keeps(index) == cachedChunk
\* A chunk being read over is no longer authenticated.
StartRefill(index) == NoChunk

ReadRefill(n) ==
    /\ phase = "ready" /\ n > 0 /\ position < LengthRead /\ cachedChunk # ChunkIndex
    /\ cachedChunk' = StartRefill(ChunkIndex)
    /\ offset' = ChunkIndex * ChunkBytes
    /\ phase' = "refilling" /\ want' = n /\ filled' = <<>> /\ dirty' = (file # Pinned) /\ last' = Quiet
    /\ UNCHANGED <<file, writes, digest, hashes, buffer, position>>

\* read_exact fills the buffer in place.
RefillRead ==
    /\ phase = "refilling" /\ Len(filled) < CountOf(ChunkIndex) /\ offset < Len(file)
    /\ \E n \in 1..(CountOf(ChunkIndex) - Len(filled)) :
           /\ filled' = filled \o Given(n)
           /\ buffer' = [i \in DOMAIN buffer |-> IF i \in DOMAIN filled' THEN filled'[i] ELSE buffer[i]]
    /\ offset' = offset + Len(filled') - Len(filled)
    /\ UNCHANGED <<file, writes, phase, digest, hashes, cachedChunk, position, want, dirty, last>>

RefillFails(kind) ==
    /\ phase' = "ready" /\ filled' = <<>>
    /\ last' = [call |-> kind, at |-> position, bytes |-> <<>>, ok |-> FALSE]
    /\ UNCHANGED <<file, writes, offset, digest, hashes, buffer, cachedChunk, position, want, dirty>>

RefillEof ==
    /\ phase = "refilling" /\ Len(filled) < CountOf(ChunkIndex) /\ offset >= Len(file)
    /\ RefillFails("eof")

ChunkMatches(index) == filled = hashes[index + 1]

RefillDone ==
    /\ phase = "refilling" /\ Len(filled) = CountOf(ChunkIndex)
    /\ IF ChunkMatches(ChunkIndex)
       THEN /\ phase' = "ready" /\ filled' = <<>> /\ cachedChunk' = ChunkIndex
            /\ UNCHANGED buffer /\ Delivered(want)
            /\ UNCHANGED <<file, writes, offset, digest, hashes, want, dirty>>
       ELSE RefillFails("changed")

\* A seek moves the view's own position, past the end too, and never below 0.
SeekTo(target) ==
    /\ phase = "ready"
    /\ position' = IF target >= 0 THEN target ELSE position
    /\ last' = [call |-> "seek", at |-> position', bytes |-> <<>>, ok |-> target >= 0]
    /\ UNCHANGED <<file, writes, phase, offset, digest, hashes, filled, buffer, cachedChunk, want, dirty>>

Next ==
    \/ Write \/ HashRead \/ HashChunk \/ RefillRead \/ RefillEof \/ RefillDone
    \/ \E n \in 0..(ChunkBytes + 1) : ReadCached(n) \/ ReadRefill(n)
    \/ \E k \in (-1)..(Length + 1) : SeekTo(k)
    \/ \E by \in {-ChunkBytes, 1} : SeekTo(position + by) /\ position + by <= Length + 1
    \/ SeekTo(LengthRead - 1)

Spec == Init /\ [][Next]_vars

-----------------------------------------------------------------------------
(* Properties *)

\* A view that exists was made of the pinned bytes.
TypeOK ==
    /\ phase \in {"ready", "refilling"} => digest = Pinned /\ Len(hashes) = (Length + ChunkBytes - 1) \div ChunkBytes
    /\ Len(buffer) = ChunkBytes /\ Len(filled) <= ChunkBytes
    /\ phase = "hashing" => cachedChunk = NoChunk

\* "A seekable view that only exposes bytes covered by the caller's zkey pin":
\* whatever is written to the file and whenever, every byte delivered is the
\* pinned byte at that position.
OnlyPinnedBytesEscape ==
    \A k \in DOMAIN last.bytes : last.bytes[k] = Pinned[last.at + k]

\* "A failed read must not leave overwritten bytes marked authenticated."
CacheIsAuthentic ==
    cachedChunk # NoChunk =>
        SubSeq(buffer, 1, Len(ChunkOf(cachedChunk))) = ChunkOf(cachedChunk)

\* A read fails only if the file differed from the pin while it ran; one that
\* gets the pinned bytes succeeds even after reads that failed.
OnlyChangesFail ==
    ~last.ok /\ last.call \in {"eof", "changed", "new"} => dirty

\* All of it, at once.
PinnedBytesOnly == TypeOK /\ OnlyPinnedBytesEscape /\ CacheIsAuthentic /\ OnlyChangesFail

-----------------------------------------------------------------------------
(* Proofs *)

Bytes == Seq(Int)
Phases == {"hashing", "ready", "refilling", "refused"}
Answer == [call : {"none", "new", "read", "seek", "eof", "changed"}, at : Nat, bytes : Bytes, ok : BOOLEAN]

\* The bytes of a chunk of the pinned file.
Count(index) == IF Length - index * ChunkBytes <= ChunkBytes THEN Length - index * ChunkBytes ELSE ChunkBytes
IsRun(bytes, from) == \A i \in 1..Len(bytes) : bytes[i] = from + i

\* The type of each variable.
Flags == dirty \in BOOLEAN
Data ==
    /\ file \in Bytes /\ writes \in Nat /\ phase \in Phases /\ offset \in Nat
    /\ digest \in Bytes /\ hashes \in Seq(Bytes) /\ filled \in Bytes /\ Len(filled) <= ChunkBytes
    /\ buffer \in Bytes /\ Len(buffer) = ChunkBytes
    /\ cachedChunk \in Nat \cup {NoChunk} /\ position \in Nat /\ want \in Nat /\ last \in Answer

\* An unwritten source is the pinned file.
Unwritten == ~dirty => file = Pinned

\* The first pass: the digests so far are of whole chunks of what was read.
Hashing ==
    phase = "hashing" =>
        /\ cachedChunk = NoChunk
        /\ Len(digest) = ChunkBytes * Len(hashes) /\ offset = Len(digest) + Len(filled)
        /\ \A k \in 1..Len(hashes) :
              /\ Len(hashes[k]) = ChunkBytes
              /\ \A i \in 1..ChunkBytes : hashes[k][i] = digest[(k - 1) * ChunkBytes + i]
        /\ ~dirty => offset <= Length /\ IsRun(digest, 0) /\ IsRun(filled, Len(digest))

\* A view's digests are those of the chunks of the pinned file.
Hashed ==
    phase \in {"ready", "refilling"} =>
        /\ digest = Pinned
        /\ Len(hashes) = (Length + ChunkBytes - 1) \div ChunkBytes
        /\ \A k \in 1..Len(hashes) :
              Len(hashes[k]) = Count(k - 1) /\ IsRun(hashes[k], (k - 1) * ChunkBytes)

\* The chunk in the buffer is authentic unless it is being read over, and what
\* is read over it comes from one place of the source.
Cached ==
    cachedChunk # NoChunk =>
        /\ cachedChunk * ChunkBytes < Length
        /\ \A i \in 1..Count(cachedChunk) : buffer[i] = cachedChunk * ChunkBytes + i
Refilling ==
    phase = "refilling" =>
        /\ cachedChunk = NoChunk /\ position < Length /\ want > 0
        /\ Len(filled) <= Count(ChunkIndex) /\ offset = ChunkIndex * ChunkBytes + Len(filled)
        /\ \A i \in 1..Len(filled) : buffer[i] = filled[i]
        /\ ~dirty => IsRun(filled, ChunkIndex * ChunkBytes)

\* What was answered.
Answered ==
    /\ last.at + Len(last.bytes) <= Length \/ last.bytes = <<>>
    /\ IsRun(last.bytes, last.at)
    /\ ~last.ok /\ last.call \in {"eof", "changed", "new"} => dirty

ReaderInv == Flags /\ Data /\ Unwritten /\ Hashing /\ Hashed /\ Cached /\ Refilling /\ Answered
-----------------------------------------------------------------------------
\* Minima of two and of three numbers.
LEMMA MinOfTwo ==
    ASSUME NEW a \in Int, NEW b \in Int
    PROVE  Min({a, b}) = IF a <= b THEN a ELSE b
<1> DEFINE m == IF a <= b THEN a ELSE b
<1>1. m \in {a, b} /\ \A y \in {a, b} : m <= y OBVIOUS
<1>2. ASSUME NEW x \in {a, b}, \A y \in {a, b} : x <= y PROVE x = m BY <1>2
<1> HIDE DEF m
<1>3. Min({a, b}) \in {a, b} /\ \A y \in {a, b} : Min({a, b}) <= y BY <1>1 DEF Min
<1>4. Min({a, b}) = m BY <1>2, <1>3
<1> QED BY <1>4 DEF m

\* The least of three is one of them.
LEMMA MinOfThree ==
    ASSUME NEW a \in Int, NEW b \in Int, NEW c \in Int
    PROVE  /\ Min({a, b, c}) \in {a, b, c}
           /\ Min({a, b, c}) <= a /\ Min({a, b, c}) <= b /\ Min({a, b, c}) <= c
<1> DEFINE m == IF a <= b THEN IF a <= c THEN a ELSE c ELSE IF b <= c THEN b ELSE c
<1>1. m \in {a, b, c} /\ \A y \in {a, b, c} : m <= y OBVIOUS
<1> HIDE DEF m
<1>2. Min({a, b, c}) \in {a, b, c} /\ \A y \in {a, b, c} : Min({a, b, c}) <= y BY <1>1 DEF Min
<1> QED BY <1>2

\* The bytes of a part.
LEMMA Part ==
    ASSUME NEW s \in Bytes, NEW a \in Nat, NEW b \in Int, b <= Len(s)
    PROVE  /\ SubSeq(s, a + 1, b) \in Bytes
           /\ Len(SubSeq(s, a + 1, b)) = IF a <= b THEN b - a ELSE 0
           /\ \A i \in 1..Len(SubSeq(s, a + 1, b)) : SubSeq(s, a + 1, b)[i] = s[a + i]
BY DEF Bytes

\* Those of a part at the front.
LEMMA FirstPart ==
    ASSUME NEW s \in Bytes, NEW b \in Nat, b <= Len(s)
    PROVE  /\ SubSeq(s, 1, b) \in Bytes /\ Len(SubSeq(s, 1, b)) = b
           /\ \A i \in 1..b : SubSeq(s, 1, b)[i] = s[i]
BY DEF Bytes

\* Those of two parts together.
LEMMA Joined ==
    ASSUME NEW s \in Bytes, NEW t \in Bytes
    PROVE  /\ s \o t \in Bytes /\ Len(s \o t) = Len(s) + Len(t)
           /\ \A i \in 1..Len(s) : (s \o t)[i] = s[i]
           /\ \A i \in 1..Len(t) : (s \o t)[Len(s) + i] = t[i]
BY DEF Bytes

\* Two parts of the same bytes are one.
LEMMA SameBytes ==
    ASSUME NEW s \in Bytes, NEW t \in Bytes, Len(s) = Len(t), \A i \in 1..Len(s) : s[i] = t[i]
    PROVE  s = t
BY DEF Bytes

\* The pinned file: byte i is i.
LEMMA PinnedBytes == Pinned \in Bytes /\ Len(Pinned) = Length /\ \A i \in 1..Length : Pinned[i] = i
BY ReaderAssumption DEF Pinned, Bytes

\* Division with remainder.
LEMMA Division ==
    ASSUME NEW n \in Int, NEW a \in Nat \ {0}
    PROVE  n \div a \in Int /\ a * (n \div a) <= n /\ n < a * (n \div a) + a /\ n = a * (n \div a) + (n % a)
<1>1. n \div a \in Int
    OBVIOUS
<1>2. n = a * (n \div a) + (n % a) /\ n % a \in 0..(a - 1)
    BY SMTT(60)
<1> QED
    BY <1>1, <1>2

\* The only quotient.
LEMMA Quotient ==
    ASSUME NEW n \in Int, NEW a \in Nat \ {0}, NEW q \in Int, a * q <= n, n < a * q + a
    PROVE  n \div a = q
<1> DEFINE p == n \div a
<1>1. p \in Int /\ a * p <= n /\ n < a * p + a
    BY Division
<1> HIDE DEF p
<1>2. CASE p < q
  <2>1. a * p + a <= a * q
      BY <1>1, <1>2
  <2> QED
      BY <1>1, <2>1
<1>3. CASE p > q
  <2>1. a * q + a <= a * p
      BY <1>1, <1>3
  <2> QED
      BY <1>1, <2>1
<1> QED
    BY <1>1, <1>2, <1>3 DEF p

\* Where the position is among the chunks.
LEMMA PositionInChunk ==
    ASSUME position \in Nat
    PROVE  /\ ChunkIndex \in Nat /\ position % ChunkBytes \in 0..(ChunkBytes - 1)
           /\ position = ChunkIndex * ChunkBytes + (position % ChunkBytes)
           /\ ChunkIndex * ChunkBytes \in Nat
<1>1. /\ position \div ChunkBytes \in Int
      /\ position = ChunkBytes * (position \div ChunkBytes) + (position % ChunkBytes)
      /\ position < ChunkBytes * (position \div ChunkBytes) + ChunkBytes
    BY Division, ReaderAssumption
<1>2. position \div ChunkBytes >= 0
    BY ReaderAssumption
<1>3. position % ChunkBytes \in 0..(ChunkBytes - 1)
    BY ReaderAssumption
<1> DEFINE q == position \div ChunkBytes
           r == position % ChunkBytes
<1>4. q \in Nat BY <1>1, <1>2
<1>5. position = ChunkBytes * q + r /\ r \in 0..(ChunkBytes - 1) BY <1>1, <1>3
<1> HIDE DEF q, r
<1>6. ChunkBytes * q = q * ChunkBytes /\ q * ChunkBytes \in Nat BY <1>4, ReaderAssumption
<1> QED BY <1>4, <1>5, <1>6 DEF q, r, ChunkIndex

\* A chunk that begins in the file has a digest, and every digest is of one.
LEMMA ChunksOfTheFile ==
    ASSUME NEW index \in Nat
    PROVE  /\ index * ChunkBytes < Length <=> index < (Length + ChunkBytes - 1) \div ChunkBytes
           /\ index * ChunkBytes < Length => Count(index) \in 1..ChunkBytes /\ index * ChunkBytes + Count(index) <= Length
<1> DEFINE all == (Length + ChunkBytes - 1) \div ChunkBytes
           start == index * ChunkBytes
<1>1. /\ all \in Int /\ ChunkBytes * all <= Length + ChunkBytes - 1
      /\ Length + ChunkBytes - 1 < ChunkBytes * all + ChunkBytes
    BY Division, ReaderAssumption
<1>2. start \in Nat /\ start = ChunkBytes * index BY ReaderAssumption
<1> HIDE DEF all
<1>3. CASE index < all
  <2>1. ChunkBytes * index + ChunkBytes <= ChunkBytes * all BY <1>1, <1>3, ReaderAssumption
  <2>2. start < Length BY <1>1, <1>2, <2>1, ReaderAssumption DEF start
  <2> QED BY <1>3, <2>2, <1>2, ReaderAssumption DEF all, Count, start
<1>4. CASE index >= all
  <2>1. ChunkBytes * all <= ChunkBytes * index BY <1>1, <1>4, ReaderAssumption
  <2>2. ~(start < Length) BY <1>1, <1>2, <2>1, ReaderAssumption
  <2> QED BY <1>4, <2>2, <1>1 DEF all, start
<1> QED BY <1>1, <1>3, <1>4

-----------------------------------------------------------------------------
\* The invariant is stronger than the checked property.
LEMMA ReaderInvIsProperty == ReaderInv => PinnedBytesOnly
<1> SUFFICES ASSUME ReaderInv PROVE PinnedBytesOnly OBVIOUS
<1>a. Flags /\ Data /\ Unwritten /\ Hashing /\ Hashed /\ Cached /\ Refilling /\ Answered
    BY DEF ReaderInv
<1>1. TypeOK BY <1>a DEF TypeOK, Data, Hashed, Hashing
<1>2. OnlyPinnedBytesEscape
  <2> SUFFICES ASSUME NEW k \in DOMAIN last.bytes PROVE last.bytes[k] = Pinned[last.at + k]
      BY DEF OnlyPinnedBytesEscape
  <2>1. last.bytes \in Bytes /\ last.at \in Nat BY <1>a DEF Data, Answer
  <2>2. k \in 1..Len(last.bytes) BY <2>1 DEF Bytes
  <2>3. last.at + Len(last.bytes) <= Length BY <1>a, <2>2 DEF Answered
  <2>4. last.bytes[k] = last.at + k BY <1>a, <2>2 DEF Answered, IsRun
  <2>5. last.at + k \in 1..Length BY <2>1, <2>2, <2>3, ReaderAssumption DEF Bytes
  <2> QED BY <2>4, <2>5, PinnedBytes
<1>3. CacheIsAuthentic
  <2> SUFFICES ASSUME cachedChunk # NoChunk
               PROVE  SubSeq(buffer, 1, Len(ChunkOf(cachedChunk))) = ChunkOf(cachedChunk)
      BY DEF CacheIsAuthentic
  <2> DEFINE start == cachedChunk * ChunkBytes
             count == Count(cachedChunk)
             chunk == ChunkOf(cachedChunk)
  <2>1. cachedChunk \in Nat /\ buffer \in Bytes /\ Len(buffer) = ChunkBytes BY <1>a DEF Data
  <2>2. start \in Nat /\ start < Length BY <1>a, <2>1, ReaderAssumption DEF Cached
  <2>3. count \in 1..ChunkBytes /\ start + count <= Length BY <2>1, <2>2, ChunksOfTheFile
  <2>4. (cachedChunk + 1) * ChunkBytes = start + ChunkBytes BY <2>1, ReaderAssumption
  <2>5. Min({(cachedChunk + 1) * ChunkBytes, Length}) = start + count
      BY <2>2, <2>4, MinOfTwo, ReaderAssumption DEF Count
  <2>6. chunk = SubSeq(Pinned, start + 1, start + count) BY <2>5 DEF ChunkOf
  <2>7. \A i \in 1..count : buffer[i] = start + i BY <1>a DEF Cached
  <2> HIDE DEF start, count, chunk
  <2>8. /\ chunk \in Bytes /\ Len(chunk) = count
        /\ \A i \in 1..count : chunk[i] = start + i
    <3>1. /\ SubSeq(Pinned, start + 1, start + count) \in Bytes
          /\ Len(SubSeq(Pinned, start + 1, start + count)) = count
          /\ \A i \in 1..count : SubSeq(Pinned, start + 1, start + count)[i] = Pinned[start + i]
        BY <2>2, <2>3, PinnedBytes, Part, ReaderAssumption
    <3>2. \A i \in 1..count : Pinned[start + i] = start + i
        BY <2>2, <2>3, PinnedBytes, ReaderAssumption
    <3> QED BY <2>6, <3>1, <3>2
  <2>9. /\ SubSeq(buffer, 1, count) \in Bytes /\ Len(SubSeq(buffer, 1, count)) = count
        /\ \A i \in 1..count : SubSeq(buffer, 1, count)[i] = buffer[i]
    <3>1. count \in Nat /\ count <= Len(buffer) BY <2>1, <2>3, ReaderAssumption
    <3> QED BY <2>1, <3>1, FirstPart
  <2>10. SubSeq(buffer, 1, count) = chunk BY <2>7, <2>8, <2>9, SameBytes
  <2> QED BY <2>8, <2>10 DEF chunk
<1>4. OnlyChangesFail BY <1>a DEF OnlyChangesFail, Answered
<1> QED BY <1>1, <1>2, <1>3, <1>4 DEF PinnedBytesOnly

\* A source that was not read yet.
LEMMA ReaderInvAtStart == Init => ReaderInv
<1> SUFFICES ASSUME Init PROVE ReaderInv OBVIOUS
<1>1. <<>> \in Bytes /\ Len(<<>>) = 0 BY DEF Bytes
<1>2. Flags /\ Unwritten BY DEF Init, Flags, Unwritten
<1>3. buffer \in Bytes /\ Len(buffer) = ChunkBytes BY ReaderAssumption DEF Init, Bytes
<1>4. Data
  <2>1. Quiet \in Answer BY <1>1 DEF Quiet, Answer
  <2>2. <<>> \in Seq(Bytes) OBVIOUS
  <2> QED BY <1>1, <1>3, <2>1, <2>2, PinnedBytes, ReaderAssumption DEF Init, Data, Phases
<1>5. Hashing BY <1>1, ReaderAssumption DEF Init, Hashing, IsRun
<1>6. Hashed /\ Cached /\ Refilling BY DEF Init, Hashed, Cached, Refilling
<1>7. Answered BY <1>1 DEF Init, Answered, Quiet, IsRun
<1> QED BY <1>2, <1>4, <1>5, <1>6, <1>7 DEF ReaderInv

\* A write changes nothing but the source.
LEMMA WriteKeeps ==
    ASSUME ReaderInv, Write
    PROVE  ReaderInv'
<1>a. Flags /\ Data /\ Unwritten /\ Hashing /\ Hashed /\ Cached /\ Refilling /\ Answered
    BY DEF ReaderInv
<1>b. dirty' = (dirty \/ file' # Pinned) BY DEF Write
<1>c. UNCHANGED <<phase, offset, digest, hashes, filled, buffer, cachedChunk, position, want, last>>
    BY DEF Write
<1>1. Flags' BY <1>a, <1>b DEF Flags
<1>2. file' \in Bytes
  <2>1. file \in Bytes BY <1>a DEF Data
  <2>2. ASSUME NEW i \in DOMAIN file PROVE [file EXCEPT ![i] = 0] \in Bytes BY <2>1 DEF Bytes
  <2>3. ASSUME NEW k \in 0..Len(file) PROVE SubSeq(file, 1, k) \in Bytes BY <2>1 DEF Bytes
  <2>4. Append(file, 0) \in Bytes BY <2>1 DEF Bytes
  <2>5. file' \in {[file EXCEPT ![i] = 0] : i \in DOMAIN file} \cup {Pinned}
                 \cup {SubSeq(file, 1, k) : k \in {ChunkBytes, Length - 1} \cap 0..Len(file)}
                 \cup {Append(file, 0)}
      BY DEF Write
  <2> QED BY <2>2, <2>3, <2>4, <2>5, PinnedBytes
<1>3. Data' BY <1>a, <1>c, <1>2, ReaderAssumption DEF Data, Write
<1>4. Unwritten' BY <1>b DEF Unwritten
<1>5. Hashing' BY <1>a, <1>b, <1>c DEF Hashing, IsRun
<1>6. Hashed' BY <1>a, <1>c DEF Hashed, IsRun, Count
<1>7. Cached' BY <1>a, <1>c DEF Cached, Count
<1>8. Refilling' BY <1>a, <1>b, <1>c DEF Refilling, IsRun, Count, ChunkIndex
<1>9. Answered' BY <1>a, <1>b, <1>c DEF Answered, IsRun
<1> QED BY <1>1, <1>3, <1>4, <1>5, <1>6, <1>7, <1>8, <1>9 DEF ReaderInv

\* What the source gives, at most n bytes of it.
LEMMA GivenBytes ==
    ASSUME Data, NEW n \in Nat
    PROVE  /\ Given(n) \in Bytes /\ Len(Given(n)) <= n
           /\ offset < Len(file) => offset + Len(Given(n)) <= Len(file)
           /\ file = Pinned => IsRun(Given(n), offset)
<1>1. file \in Bytes /\ Len(file) \in Nat /\ offset \in Nat BY DEF Data, Bytes
<1> DEFINE end == IF offset + n <= Len(file) THEN offset + n ELSE Len(file)
<1>2. Min({offset + n, Len(file)}) = end BY <1>1, MinOfTwo
<1>3. end \in Int /\ end <= Len(file) /\ end <= offset + n BY <1>1
<1>4. Given(n) = SubSeq(file, offset + 1, end) BY <1>2 DEF Given
<1> HIDE DEF end
<1>5. /\ Given(n) \in Bytes /\ Len(Given(n)) = IF offset <= end THEN end - offset ELSE 0
      /\ \A i \in 1..Len(Given(n)) : Given(n)[i] = file[offset + i]
    BY <1>1, <1>3, <1>4, Part
<1>6. ASSUME file = Pinned, NEW i \in 1..Len(Given(n)) PROVE Given(n)[i] = offset + i
  <2>1. Len(file) = Length BY <1>6, PinnedBytes
  <2>2. offset + i \in 1..Length BY <1>1, <1>3, <1>5, <2>1, <1>6, ReaderAssumption
  <2>3. Given(n)[i] = Pinned[offset + i] BY <1>5, <1>6
  <2> QED BY <2>2, <2>3, PinnedBytes
<1> QED BY <1>1, <1>3, <1>5, <1>6 DEF IsRun

\* A read of the first pass.
LEMMA HashReadKeeps ==
    ASSUME ReaderInv, HashRead
    PROVE  ReaderInv'
<1>a. Flags /\ Data /\ Unwritten /\ Hashing /\ Hashed /\ Cached /\ Refilling /\ Answered
    BY DEF ReaderInv
<1>b. /\ phase = "hashing" /\ offset < Len(file) /\ offset' = offset + Len(filled') - Len(filled)
      /\ UNCHANGED <<file, writes, phase, digest, hashes, buffer, cachedChunk, position, want, dirty, last>>
    BY DEF HashRead
<1>1. PICK n \in 1..(ChunkBytes - Len(filled)) : filled' = filled \o Given(n) BY DEF HashRead
<1>2. filled \in Bytes /\ Len(filled) \in Nat /\ Len(filled) <= ChunkBytes BY <1>a DEF Data, Bytes
<1>3. n \in Nat /\ Len(filled) + n <= ChunkBytes BY <1>2, ReaderAssumption
<1> DEFINE given == Given(n)
<1>4. /\ given \in Bytes /\ Len(given) <= n /\ offset + Len(given) <= Len(file)
      /\ file = Pinned => IsRun(given, offset)
    BY <1>a, <1>b, <1>3, GivenBytes
<1>5. filled' = filled \o given BY <1>1
<1> HIDE DEF given
<1>6. Len(given) \in Nat BY <1>4 DEF Bytes
<1>7. /\ filled' \in Bytes /\ Len(filled') = Len(filled) + Len(given)
      /\ \A i \in 1..Len(filled) : filled'[i] = filled[i]
      /\ \A i \in 1..Len(given) : filled'[Len(filled) + i] = given[i]
    BY <1>2, <1>4, <1>5, Joined
<1>8. offset \in Nat BY <1>a DEF Data
<1>9. offset' = offset + Len(given) /\ offset' \in Nat BY <1>b, <1>2, <1>6, <1>7, <1>8
<1>10. Len(filled') <= ChunkBytes BY <1>2, <1>3, <1>4, <1>6, <1>7, ReaderAssumption
<1>11. Flags' /\ Unwritten' BY <1>a, <1>b DEF Flags, Unwritten
<1>12. Data' BY <1>a, <1>b, <1>7, <1>9, <1>10 DEF Data
<1>13. Hashing'
  <2>1. ASSUME ~dirty PROVE offset' <= Length /\ IsRun(filled', Len(digest))
    <3>1. file = Pinned BY <1>a, <2>1 DEF Unwritten
    <3>2. IsRun(given, offset) /\ Len(file) = Length BY <1>4, <3>1, PinnedBytes
    <3>3. IsRun(filled, Len(digest)) /\ offset = Len(digest) + Len(filled)
        BY <1>a, <1>b, <2>1 DEF Hashing
    <3>4. digest \in Bytes /\ Len(digest) \in Nat BY <1>a DEF Data, Bytes
    <3>5. ASSUME NEW i \in 1..Len(filled') PROVE filled'[i] = Len(digest) + i
      <4>1. CASE i <= Len(filled) BY <1>2, <1>7, <3>3, <3>4, <4>1 DEF IsRun
      <4>2. CASE i > Len(filled)
        <5>1. i - Len(filled) \in 1..Len(given) BY <1>2, <1>6, <1>7, <4>2
        <5>2. filled'[Len(filled) + (i - Len(filled))] = given[i - Len(filled)] BY <1>7, <5>1
        <5>3. given[i - Len(filled)] = offset + (i - Len(filled)) BY <3>2, <5>1 DEF IsRun
        <5> QED BY <1>2, <3>3, <3>4, <5>2, <5>3
      <4> QED BY <1>2, <4>1, <4>2
    <3> QED BY <1>4, <1>9, <3>2, <3>5 DEF IsRun
  <2>2. Len(digest) = ChunkBytes * Len(hashes) /\ offset = Len(digest) + Len(filled)
      BY <1>a, <1>b DEF Hashing
  <2>3. offset' = Len(digest) + Len(filled')
    <3>1. Len(digest) \in Nat BY <1>a DEF Data, Bytes
    <3> QED BY <1>2, <1>6, <1>7, <1>9, <2>2, <3>1
  <2> QED BY <1>a, <1>b, <2>1, <2>2, <2>3 DEF Hashing
<1>14. Hashed' BY <1>b DEF Hashed
<1>15. Cached' BY <1>a, <1>b DEF Cached, Count
<1>16. Refilling' BY <1>b DEF Refilling
<1>17. Answered' BY <1>a, <1>b DEF Answered, IsRun
<1> QED BY <1>11, <1>12, <1>13, <1>14, <1>15, <1>16, <1>17 DEF ReaderInv

\* A digest of the first pass that is not the last.
LEMMA WholeChunkKeeps ==
    ASSUME ReaderInv, HashChunk, Len(filled) = ChunkBytes
    PROVE  ReaderInv'
<1>a. Flags /\ Data /\ Unwritten /\ Hashing /\ Hashed /\ Cached /\ Refilling /\ Answered
    BY DEF ReaderInv
<1>b. /\ phase = "hashing" /\ phase' = "hashing" /\ filled' = <<>> /\ last' = Quiet
      /\ digest' = digest \o filled
      /\ hashes' = IF filled = <<>> THEN hashes ELSE Append(hashes, filled)
      /\ UNCHANGED <<file, writes, offset, buffer, cachedChunk, position, want, dirty>>
    BY DEF HashChunk
<1>1. /\ digest \in Bytes /\ filled \in Bytes /\ hashes \in Seq(Bytes)
      /\ Len(digest) \in Nat /\ Len(hashes) \in Nat /\ ChunkBytes \in Nat \ {0}
    BY <1>a, ReaderAssumption DEF Data, Bytes
<1>2. hashes' = Append(hashes, filled) BY <1>b, <1>1, ReaderAssumption DEF Bytes
<1>3. /\ hashes' \in Seq(Bytes) /\ Len(hashes') = Len(hashes) + 1
      /\ \A k \in 1..Len(hashes) : hashes'[k] = hashes[k]
      /\ hashes'[Len(hashes) + 1] = filled
    BY <1>1, <1>2
<1>4. /\ digest' \in Bytes /\ Len(digest') = Len(digest) + ChunkBytes
      /\ \A i \in 1..Len(digest) : digest'[i] = digest[i]
      /\ \A i \in 1..ChunkBytes : digest'[Len(digest) + i] = filled[i]
    BY <1>b, <1>1, Joined
<1>5. /\ Len(digest) = ChunkBytes * Len(hashes) /\ offset = Len(digest) + ChunkBytes
      /\ cachedChunk = NoChunk
    BY <1>a, <1>b DEF Hashing
<1>6. <<>> \in Bytes /\ Len(<<>>) = 0 BY DEF Bytes
<1>7. Flags' /\ Unwritten' BY <1>a, <1>b DEF Flags, Unwritten
<1>8. Data'
  <2>1. Quiet \in Answer BY <1>6 DEF Quiet, Answer
  <2> QED BY <1>a, <1>b, <1>3, <1>4, <1>6, <2>1, ReaderAssumption DEF Data, Phases
<1>9. Hashing'
  <2>1. Len(digest') = ChunkBytes * Len(hashes') BY <1>1, <1>3, <1>4, <1>5
  <2>2. offset' = Len(digest') + Len(filled') BY <1>b, <1>1, <1>4, <1>5, <1>6
  <2>3. ASSUME NEW k \in 1..Len(hashes')
        PROVE  /\ Len(hashes'[k]) = ChunkBytes
               /\ \A i \in 1..ChunkBytes : hashes'[k][i] = digest'[(k - 1) * ChunkBytes + i]
    <3>1. CASE k <= Len(hashes)
      <4>1. k \in 1..Len(hashes) BY <1>1, <3>1
      <4>2. /\ Len(hashes[k]) = ChunkBytes
            /\ \A i \in 1..ChunkBytes : hashes[k][i] = digest[(k - 1) * ChunkBytes + i]
          BY <1>a, <1>b, <4>1 DEF Hashing
      <4>3. ASSUME NEW i \in 1..ChunkBytes PROVE (k - 1) * ChunkBytes + i \in 1..Len(digest)
        <5>1. (k - 1) * ChunkBytes + ChunkBytes = ChunkBytes * k BY <1>1, <4>1
        <5>2. ChunkBytes * k <= ChunkBytes * Len(hashes) BY <1>1, <4>1
        <5>3. (k - 1) * ChunkBytes \in Nat BY <1>1, <4>1
        <5> QED BY <1>1, <1>5, <5>1, <5>2, <5>3
      <4> QED BY <1>3, <1>4, <4>1, <4>2, <4>3
    <3>2. CASE k = Len(hashes) + 1
      <4>1. (k - 1) * ChunkBytes = Len(digest) BY <1>1, <1>5, <3>2
      <4> QED BY <1>3, <1>4, <3>2, <4>1
    <3> QED BY <1>1, <1>3, <3>1, <3>2
  <2>4. ASSUME ~dirty PROVE offset <= Length /\ IsRun(digest', 0)
    <3>1. offset <= Length /\ IsRun(digest, 0) /\ IsRun(filled, Len(digest))
        BY <1>a, <1>b, <2>4 DEF Hashing
    <3>2. ASSUME NEW i \in 1..Len(digest') PROVE digest'[i] = i
      <4>1. CASE i <= Len(digest) BY <1>1, <1>4, <3>1, <4>1 DEF IsRun
      <4>2. CASE i > Len(digest)
        <5>1. i - Len(digest) \in 1..ChunkBytes BY <1>1, <1>4, <4>2
        <5>2. digest'[Len(digest) + (i - Len(digest))] = filled[i - Len(digest)] BY <1>4, <5>1
        <5>3. filled[i - Len(digest)] = Len(digest) + (i - Len(digest)) BY <3>1, <5>1 DEF IsRun
        <5> QED BY <1>1, <5>2, <5>3
      <4> QED BY <1>1, <4>1, <4>2
    <3> QED BY <3>1, <3>2, <1>4 DEF IsRun
  <2>5. IsRun(filled', Len(digest')) BY <1>b, <1>6 DEF IsRun
  <2> QED BY <1>b, <1>5, <2>1, <2>2, <2>3, <2>4, <2>5 DEF Hashing
<1>10. Hashed' /\ Refilling' BY <1>b DEF Hashed, Refilling
<1>11. Cached' BY <1>b, <1>5 DEF Cached
<1>12. Answered' BY <1>b, <1>6 DEF Answered, Quiet, IsRun
<1> QED BY <1>7, <1>8, <1>9, <1>10, <1>11, <1>12 DEF ReaderInv

\* The end of the first pass: the view exists if what was read is the pinned
\* file, and then the digests are those of its chunks.
LEMMA LastChunkKeeps ==
    ASSUME ReaderInv, HashChunk, Len(filled) # ChunkBytes
    PROVE  ReaderInv'
<1>a. Flags /\ Data /\ Unwritten /\ Hashing /\ Hashed /\ Cached /\ Refilling /\ Answered
    BY DEF ReaderInv
<1>b. /\ phase = "hashing" /\ offset >= Len(file) /\ filled' = <<>>
      /\ digest' = digest \o filled
      /\ hashes' = IF filled = <<>> THEN hashes ELSE Append(hashes, filled)
      /\ phase' = (IF digest' # Pinned THEN "refused" ELSE "ready")
      /\ last' = IF phase' = "refused" THEN [Quiet EXCEPT !.call = "new", !.ok = FALSE] ELSE Quiet
      /\ UNCHANGED <<file, writes, offset, buffer, cachedChunk, position, want, dirty>>
    BY DEF HashChunk, HashesDiffer
<1>1. /\ digest \in Bytes /\ filled \in Bytes /\ hashes \in Seq(Bytes) /\ Len(filled) \in Nat
      /\ Len(digest) \in Nat /\ Len(hashes) \in Nat /\ ChunkBytes \in Nat \ {0} /\ Length \in Nat \ {0}
    BY <1>a, ReaderAssumption DEF Data, Bytes
<1>2. Len(filled) < ChunkBytes BY <1>a, <1>1 DEF Data
<1>3. /\ Len(digest) = ChunkBytes * Len(hashes) /\ offset = Len(digest) + Len(filled)
      /\ cachedChunk = NoChunk
    BY <1>a, <1>b DEF Hashing
<1>4. /\ digest' \in Bytes /\ Len(digest') = Len(digest) + Len(filled)
      /\ \A i \in 1..Len(digest) : digest'[i] = digest[i]
      /\ \A i \in 1..Len(filled) : digest'[Len(digest) + i] = filled[i]
    BY <1>b, <1>1, Joined
<1>5. <<>> \in Bytes /\ Len(<<>>) = 0 BY DEF Bytes
<1>6. filled = <<>> <=> Len(filled) = 0 BY <1>1 DEF Bytes
<1> DEFINE n == IF filled = <<>> THEN Len(hashes) ELSE Len(hashes) + 1
<1>7. /\ hashes' \in Seq(Bytes) /\ Len(hashes') = n
      /\ \A k \in 1..Len(hashes) : hashes'[k] = hashes[k]
      /\ filled # <<>> => hashes'[Len(hashes) + 1] = filled
    BY <1>b, <1>1
<1>8. Flags' /\ Unwritten' BY <1>a, <1>b DEF Flags, Unwritten
<1>9. Data'
  <2>1. last' \in Answer BY <1>b, <1>5 DEF Quiet, Answer
  <2> QED BY <1>a, <1>b, <1>4, <1>5, <1>7, <2>1, ReaderAssumption DEF Data, Phases
<1>10. ASSUME ~dirty PROVE digest' = Pinned
  <2>1. file = Pinned /\ Len(file) = Length BY <1>a, <1>10, PinnedBytes DEF Unwritten
  <2>2. offset <= Length /\ IsRun(digest, 0) /\ IsRun(filled, Len(digest))
      BY <1>a, <1>b, <1>10 DEF Hashing
  <2>3. Len(digest') = Length
    <3>1. offset >= Len(file) BY <1>b
    <3> QED BY <1>1, <1>3, <1>4, <2>1, <2>2, <3>1
  <2>4. ASSUME NEW i \in 1..Len(digest') PROVE digest'[i] = i
    <3>1. CASE i <= Len(digest) BY <1>1, <1>4, <2>2, <3>1 DEF IsRun
    <3>2. CASE i > Len(digest)
      <4>1. i - Len(digest) \in 1..Len(filled) BY <1>1, <1>4, <3>2
      <4>2. digest'[Len(digest) + (i - Len(digest))] = filled[i - Len(digest)] BY <1>4, <4>1
      <4>3. filled[i - Len(digest)] = Len(digest) + (i - Len(digest)) BY <2>2, <4>1 DEF IsRun
      <4> QED BY <1>1, <4>2, <4>3
    <3> QED BY <1>1, <3>1, <3>2
  <2> QED BY <1>4, <2>3, <2>4, PinnedBytes, SameBytes
<1>11. Hashing' /\ Refilling' BY <1>b DEF Hashing, Refilling
<1>12. Hashed'
  <2> SUFFICES ASSUME digest' = Pinned
               PROVE  /\ Len(hashes') = (Length + ChunkBytes - 1) \div ChunkBytes
                      /\ \A k \in 1..Len(hashes') :
                            Len(hashes'[k]) = Count(k - 1) /\ IsRun(hashes'[k], (k - 1) * ChunkBytes)
      BY <1>b DEF Hashed, Count
  <2>1. Length = ChunkBytes * Len(hashes) + Len(filled) BY <1>3, <1>4, PinnedBytes
  <2>2. \A i \in 1..Length : digest'[i] = i BY PinnedBytes
  <2>3. n = (Length + ChunkBytes - 1) \div ChunkBytes
    <3>1. n \in Int /\ ChunkBytes * n <= Length + ChunkBytes - 1
          /\ Length + ChunkBytes - 1 < ChunkBytes * n + ChunkBytes
      <4>1. CASE filled = <<>> BY <1>1, <1>6, <2>1, <4>1
      <4>2. CASE filled # <<>>
        <5>1. n = Len(hashes) + 1 /\ Len(filled) >= 1 BY <1>1, <1>6, <4>2
        <5>2. ChunkBytes * n = ChunkBytes * Len(hashes) + ChunkBytes BY <1>1, <5>1
        <5> HIDE DEF n
        <5> QED BY <1>1, <1>2, <2>1, <5>1, <5>2
      <4> QED BY <4>1, <4>2
    <3> HIDE DEF n
    <3> QED BY <1>1, <3>1, Quotient
  <2>4. ASSUME NEW k \in 1..Len(hashes')
        PROVE  Len(hashes'[k]) = Count(k - 1) /\ IsRun(hashes'[k], (k - 1) * ChunkBytes)
    <3>1. k \in 1..n BY <1>7
    <3>2. CASE k <= Len(hashes)
      <4>1. k \in 1..Len(hashes) BY <1>1, <3>1, <3>2
      <4>2. /\ Len(hashes[k]) = ChunkBytes
            /\ \A i \in 1..ChunkBytes : hashes[k][i] = digest[(k - 1) * ChunkBytes + i]
          BY <1>a, <1>b, <4>1 DEF Hashing
      <4>3. /\ (k - 1) * ChunkBytes + ChunkBytes = ChunkBytes * k
            /\ ChunkBytes * k <= ChunkBytes * Len(hashes)
            /\ (k - 1) * ChunkBytes \in Nat
          BY <1>1, <4>1
      <4>4. Count(k - 1) = ChunkBytes BY <1>1, <2>1, <4>3 DEF Count
      <4>5. ASSUME NEW i \in 1..ChunkBytes PROVE hashes[k][i] = (k - 1) * ChunkBytes + i
        <5>1. (k - 1) * ChunkBytes + i \in 1..Len(digest) BY <1>1, <1>3, <4>3
        <5>2. (k - 1) * ChunkBytes + i \in 1..Length BY <1>1, <1>3, <2>1, <5>1
        <5> QED BY <1>4, <2>2, <4>2, <5>1, <5>2
      <4> QED BY <1>7, <4>1, <4>2, <4>4, <4>5 DEF IsRun
    <3>3. CASE k = Len(hashes) + 1
      <4>1. filled # <<>> BY <1>1, <3>1, <3>3
      <4>2. hashes'[k] = filled BY <1>7, <3>3, <4>1
      <4>3. (k - 1) * ChunkBytes = Len(digest) BY <1>1, <1>3, <3>3
      <4>4. Length - Len(digest) = Len(filled) BY <1>1, <1>3, <2>1
      <4>5. Count(k - 1) = Len(filled) BY <1>2, <1>1, <4>3, <4>4 DEF Count
      <4>6. ASSUME NEW i \in 1..Len(filled) PROVE filled[i] = Len(digest) + i
        <5>1. Len(digest) + i \in 1..Length BY <1>1, <4>4
        <5> QED BY <1>4, <2>2, <5>1
      <4> QED BY <4>2, <4>3, <4>5, <4>6 DEF IsRun
    <3> QED BY <1>1, <3>1, <3>2, <3>3
  <2> QED BY <1>7, <2>3, <2>4
<1>13. Cached' BY <1>b, <1>3 DEF Cached
<1>14. Answered'
  <2>1. CASE digest' = Pinned BY <1>b, <1>5, <2>1 DEF Answered, Quiet, IsRun
  <2>2. CASE digest' # Pinned
    <3>1. dirty' BY <1>a, <1>b, <1>10, <2>2 DEF Flags
    <3>2. last'.bytes = <<>> BY <1>b DEF Quiet
    <3> QED BY <3>1, <3>2, <1>5 DEF Answered, IsRun
  <2> QED BY <2>1, <2>2
<1> QED BY <1>8, <1>9, <1>11, <1>12, <1>13, <1>14 DEF ReaderInv

\* What is delivered of an authentic chunk is pinned.
LEMMA DeliveredIsPinned ==
    ASSUME Data, Hashed, phase = "ready" \/ phase = "refilling", NEW n \in Nat, position < Length,
           buffer' \in Bytes, Len(buffer') = ChunkBytes,
           \A i \in 1..Count(ChunkIndex) : buffer'[i] = ChunkIndex * ChunkBytes + i,
           Delivered(n)
    PROVE  /\ last' \in Answer /\ last'.ok /\ last'.at + Len(last'.bytes) <= Length
           /\ IsRun(last'.bytes, last'.at) /\ position' \in Nat
<1> DEFINE start == position % ChunkBytes
           base == ChunkIndex * ChunkBytes
           count == Min({n, ChunkBytes - start, Length - position})
<1>1. /\ position \in Nat /\ Length \in Nat \ {0} /\ ChunkBytes \in Nat \ {0}
    BY ReaderAssumption DEF Data
<1>2. /\ ChunkIndex \in Nat /\ start \in 0..(ChunkBytes - 1) /\ base \in Nat /\ position = base + start
    BY <1>1, PositionInChunk
<1>3. LengthRead = Length BY PinnedBytes DEF LengthRead, Hashed
<1>4. /\ position' = position + count
      /\ last' = [call |-> "read", at |-> position, ok |-> TRUE,
                  bytes |-> SubSeq(buffer', start + 1, start + count)]
    BY <1>3 DEF Delivered
<1>5. \A i \in 1..Count(ChunkIndex) : buffer'[i] = base + i OBVIOUS
<1>6. Count(ChunkIndex) = IF Length - base <= ChunkBytes THEN Length - base ELSE ChunkBytes BY DEF Count
<1> HIDE DEF start, base
<1>7. /\ count \in {n, ChunkBytes - start, Length - position}
      /\ count <= ChunkBytes - start /\ count <= Length - position
  <2>1. n \in Int /\ ChunkBytes - start \in Int /\ Length - position \in Int BY <1>1, <1>2
  <2> QED BY <2>1, MinOfThree
<1> HIDE DEF count
<1>8. count \in Nat BY <1>1, <1>2, <1>7
<1> DEFINE part == SubSeq(buffer', start + 1, start + count)
<1>9. /\ part \in Bytes /\ Len(part) = count
      /\ \A i \in 1..count : part[i] = buffer'[start + i]
  <2>1. start \in Nat /\ start + count \in Int /\ start + count <= Len(buffer') /\ start <= start + count
      BY <1>1, <1>2, <1>7, <1>8
  <2>2. (start + count) - start = count BY <1>2, <1>8
  <2> QED BY <2>1, <2>2, Part
<1>10. last' = [call |-> "read", at |-> position, ok |-> TRUE, bytes |-> part] BY <1>4
<1> HIDE DEF part
<1>11. ASSUME NEW i \in 1..count PROVE part[i] = position + i
  <2>1. start + i \in 1..Count(ChunkIndex) BY <1>1, <1>2, <1>6, <1>7, <1>8
  <2>2. part[i] = base + (start + i) BY <1>5, <1>9, <2>1
  <2> QED BY <1>2, <2>2
<1>12. last' \in Answer BY <1>1, <1>9, <1>10 DEF Answer
<1>13. position + count <= Length BY <1>1, <1>7, <1>8
<1>14. last'.at = position /\ last'.bytes = part BY <1>10
<1>15. last'.ok BY <1>10
<1>16. position' \in Nat BY <1>1, <1>4, <1>8
<1>17. last'.at + Len(last'.bytes) <= Length BY <1>9, <1>13, <1>14
<1>18. IsRun(last'.bytes, last'.at) BY <1>9, <1>11, <1>14 DEF IsRun
<1> QED BY <1>12, <1>15, <1>16, <1>17, <1>18

\* A read of the chunk at hand, or of nothing.
LEMMA ReadCachedKeeps ==
    ASSUME ReaderInv, NEW n \in Nat, ReadCached(n)
    PROVE  ReaderInv'
<1>a. Flags /\ Data /\ Unwritten /\ Hashing /\ Hashed /\ Cached /\ Refilling /\ Answered
    BY DEF ReaderInv
<1>b. /\ phase = "ready" /\ (n = 0 \/ position >= LengthRead \/ cachedChunk = ChunkIndex)
      /\ UNCHANGED <<file, writes, phase, offset, digest, hashes, filled, buffer, cachedChunk, want, dirty>>
    BY DEF ReadCached
<1>1. LengthRead = Length BY <1>a, <1>b, PinnedBytes DEF LengthRead, Hashed
<1>2. /\ position' \in Nat /\ last' \in Answer /\ last'.ok
      /\ last'.at + Len(last'.bytes) <= Length \/ last'.bytes = <<>>
      /\ IsRun(last'.bytes, last'.at)
  <2>1. CASE n = 0 \/ position >= LengthRead
    <3>1. last' = [call |-> "read", at |-> position, bytes |-> <<>>, ok |-> TRUE] /\ position' = position
        BY <2>1 DEF ReadCached
    <3>2. position \in Nat /\ <<>> \in Bytes /\ Len(<<>>) = 0 BY <1>a DEF Data, Bytes
    <3>3. last' \in Answer BY <3>1, <3>2 DEF Answer
    <3>4. last'.ok /\ last'.bytes = <<>> BY <3>1
    <3>5. IsRun(last'.bytes, last'.at) BY <3>2, <3>4 DEF IsRun
    <3> QED BY <3>1, <3>2, <3>3, <3>4, <3>5
  <2>2. CASE ~(n = 0 \/ position >= LengthRead)
    <3>1. Delivered(n) BY <2>2 DEF ReadCached
    <3>2. cachedChunk = ChunkIndex /\ position \in Nat /\ position < Length
        BY <1>a, <1>b, <1>1, <2>2, ReaderAssumption DEF Data
    <3>3. ChunkIndex \in Nat /\ ChunkIndex # NoChunk BY <3>2, PositionInChunk, ReaderAssumption
    <3>4. \A i \in 1..Count(ChunkIndex) : buffer'[i] = ChunkIndex * ChunkBytes + i
        BY <1>a, <1>b, <3>2, <3>3 DEF Cached
    <3>5. buffer' \in Bytes /\ Len(buffer') = ChunkBytes BY <1>a, <1>b DEF Data
    <3> QED BY <1>a, <1>b, <3>1, <3>2, <3>4, <3>5, DeliveredIsPinned
  <2> QED BY <2>1, <2>2
<1>3. Flags' /\ Unwritten' BY <1>a, <1>b DEF Flags, Unwritten
<1>4. Data' BY <1>a, <1>b, <1>2 DEF Data
<1>5. Hashing' /\ Refilling' BY <1>b DEF Hashing, Refilling
<1>6. Hashed' BY <1>a, <1>b DEF Hashed, IsRun, Count
<1>7. Cached' BY <1>a, <1>b DEF Cached, Count
<1>8. Answered' BY <1>2 DEF Answered
<1> QED BY <1>3, <1>4, <1>5, <1>6, <1>7, <1>8 DEF ReaderInv

\* A refill begins: nothing in the buffer is authentic any more.
LEMMA ReadRefillKeeps ==
    ASSUME ReaderInv, NEW n \in Nat, ReadRefill(n)
    PROVE  ReaderInv'
<1>a. Flags /\ Data /\ Unwritten /\ Hashing /\ Hashed /\ Cached /\ Refilling /\ Answered
    BY DEF ReaderInv
<1>b. /\ phase = "ready" /\ n > 0 /\ position < LengthRead
      /\ cachedChunk' = NoChunk /\ offset' = ChunkIndex * ChunkBytes
      /\ phase' = "refilling" /\ want' = n /\ filled' = <<>> /\ dirty' = (file # Pinned) /\ last' = Quiet
      /\ UNCHANGED <<file, writes, digest, hashes, buffer, position>>
    BY DEF ReadRefill, StartRefill
<1>1. LengthRead = Length BY <1>a, <1>b, PinnedBytes DEF LengthRead, Hashed
<1>2. position \in Nat /\ position < Length BY <1>a, <1>b, <1>1 DEF Data
<1>3. /\ ChunkIndex \in Nat /\ ChunkIndex * ChunkBytes \in Nat
      /\ ChunkIndex * ChunkBytes < Length
  <2>1. /\ ChunkIndex \in Nat /\ position % ChunkBytes \in 0..(ChunkBytes - 1)
        /\ position = ChunkIndex * ChunkBytes + (position % ChunkBytes)
        /\ ChunkIndex * ChunkBytes \in Nat
      BY <1>2, PositionInChunk
  <2> DEFINE r == position % ChunkBytes
             base == ChunkIndex * ChunkBytes
  <2>2. r \in Nat /\ position = base + r /\ base \in Nat BY <2>1, ReaderAssumption
  <2> HIDE DEF r, base
  <2>3. base < Length BY <1>2, <2>2, ReaderAssumption
  <2> QED BY <2>1, <2>3 DEF base
<1>4. <<>> \in Bytes /\ Len(<<>>) = 0 BY DEF Bytes
<1>5. Flags' /\ Unwritten' BY <1>b DEF Flags, Unwritten
<1>6. Data'
  <2>1. Quiet \in Answer BY <1>4 DEF Quiet, Answer
  <2> QED BY <1>a, <1>b, <1>3, <1>4, <2>1, ReaderAssumption DEF Data, Phases
<1>7. Hashing' /\ Cached' BY <1>b DEF Hashing, Cached
<1>8. Hashed' BY <1>a, <1>b DEF Hashed, IsRun, Count
<1>9. Refilling'
  <2>1. ChunkIndex' = ChunkIndex BY <1>b DEF ChunkIndex
  <2>2. Count(ChunkIndex) \in 1..ChunkBytes BY <1>3, ChunksOfTheFile
  <2> DEFINE base == ChunkIndex * ChunkBytes
             count == Count(ChunkIndex)
  <2>3. base \in Nat /\ count \in Nat BY <1>3, <2>2, ReaderAssumption
  <2>4. Count(ChunkIndex)' = count BY <2>1 DEF Count
  <2>5. offset' = base + 0 /\ ChunkIndex' * ChunkBytes = base BY <1>b, <2>1, <2>3
  <2> HIDE DEF base, count
  <2>6. filled' = <<>> /\ Len(filled') = 0 BY <1>b, <1>4
  <2>7. Len(filled') <= Count(ChunkIndex)' BY <2>3, <2>4, <2>6
  <2>8. offset' = ChunkIndex' * ChunkBytes + Len(filled') BY <2>3, <2>5, <2>6
  <2>9. cachedChunk' = NoChunk /\ position' < Length /\ want' > 0 BY <1>b, <1>2
  <2>10. /\ \A i \in 1..Len(filled') : buffer'[i] = filled'[i]
         /\ IsRun(filled', ChunkIndex' * ChunkBytes)
      BY <2>6 DEF IsRun
  <2> QED BY <2>7, <2>8, <2>9, <2>10 DEF Refilling, Count
<1>10. Answered' BY <1>b, <1>4 DEF Answered, Quiet, IsRun
<1> QED BY <1>5, <1>6, <1>7, <1>8, <1>9, <1>10 DEF ReaderInv

\* What a refill is about.
LEMMA RefillFacts ==
    ASSUME ReaderInv, phase = "refilling"
    PROVE  /\ LengthRead = Length /\ position \in Nat /\ position < Length
           /\ ChunkIndex \in Nat /\ ChunkIndex * ChunkBytes \in Nat
           /\ ChunkIndex * ChunkBytes < Length
           /\ Count(ChunkIndex) \in 1..ChunkBytes
           /\ ChunkIndex * ChunkBytes + Count(ChunkIndex) <= Length
           /\ CountOf(ChunkIndex) = Count(ChunkIndex)
           /\ ChunkIndex + 1 \in 1..Len(hashes)
<1>a. Data /\ Hashed /\ Refilling BY DEF ReaderInv
<1>1. LengthRead = Length BY <1>a, PinnedBytes DEF LengthRead, Hashed
<1>2. position \in Nat /\ position < Length BY <1>a DEF Data, Refilling
<1>3. /\ ChunkIndex \in Nat /\ position % ChunkBytes \in 0..(ChunkBytes - 1)
      /\ position = ChunkIndex * ChunkBytes + (position % ChunkBytes)
      /\ ChunkIndex * ChunkBytes \in Nat
    BY <1>2, PositionInChunk
<1> DEFINE r == position % ChunkBytes
           base == ChunkIndex * ChunkBytes
<1>4. r \in Nat /\ position = base + r /\ base \in Nat BY <1>3, ReaderAssumption
<1>5. base < Length
  <2> HIDE DEF r, base
  <2> QED BY <1>2, <1>4, ReaderAssumption
<1>6. Count(ChunkIndex) \in 1..ChunkBytes /\ base + Count(ChunkIndex) <= Length
    BY <1>3, <1>5, ChunksOfTheFile
<1>7. CountOf(ChunkIndex) = Count(ChunkIndex)
  <2>1. Length - base \in Int /\ ChunkBytes \in Int BY <1>4, ReaderAssumption
  <2>2. CountOf(ChunkIndex) = Min({Length - base, ChunkBytes}) BY <1>1 DEF CountOf
  <2>3. Count(ChunkIndex) = IF Length - base <= ChunkBytes THEN Length - base ELSE ChunkBytes BY DEF Count
  <2> HIDE DEF base
  <2> QED BY <2>1, <2>2, <2>3, MinOfTwo
<1>8. ChunkIndex < (Length + ChunkBytes - 1) \div ChunkBytes BY <1>3, <1>5, ChunksOfTheFile
<1>9. Len(hashes) = (Length + ChunkBytes - 1) \div ChunkBytes /\ Len(hashes) \in Nat BY <1>a DEF Hashed, Data
<1>10. ChunkIndex + 1 \in 1..Len(hashes) BY <1>3, <1>8, <1>9
<1> QED BY <1>1, <1>2, <1>3, <1>5, <1>6, <1>7, <1>10

\* A read of a refill.
LEMMA RefillReadKeeps ==
    ASSUME ReaderInv, RefillRead
    PROVE  ReaderInv'
<1>a. Flags /\ Data /\ Unwritten /\ Hashing /\ Hashed /\ Cached /\ Refilling /\ Answered
    BY DEF ReaderInv
<1>b. /\ phase = "refilling" /\ offset < Len(file) /\ offset' = offset + Len(filled') - Len(filled)
      /\ UNCHANGED <<file, writes, phase, digest, hashes, cachedChunk, position, want, dirty, last>>
    BY DEF RefillRead
<1> DEFINE count == Count(ChunkIndex)
           base == ChunkIndex * ChunkBytes
<1>1. base \in Nat /\ count \in 1..ChunkBytes /\ CountOf(ChunkIndex) = count BY <1>b, RefillFacts
<1>2. PICK n \in 1..(CountOf(ChunkIndex) - Len(filled)) :
            /\ filled' = filled \o Given(n)
            /\ buffer' = [i \in DOMAIN buffer |-> IF i \in DOMAIN filled' THEN filled'[i] ELSE buffer[i]]
    BY DEF RefillRead
<1>3. filled \in Bytes /\ Len(filled) \in Nat /\ Len(filled) <= count BY <1>a, <1>b DEF Data, Bytes, Refilling
<1>4. offset = base + Len(filled) /\ cachedChunk = NoChunk BY <1>a, <1>b DEF Refilling
<1>5. ChunkIndex' = ChunkIndex BY <1>b DEF ChunkIndex
<1>6. Count(ChunkIndex)' = count /\ (ChunkIndex * ChunkBytes)' = base BY <1>5 DEF Count
<1>7. n \in Nat /\ Len(filled) + n <= count
  <2> HIDE DEF count
  <2> QED BY <1>1, <1>3, ReaderAssumption
<1> DEFINE given == Given(n)
<1>8. /\ given \in Bytes /\ Len(given) <= n
      /\ file = Pinned => IsRun(given, offset)
    BY <1>a, <1>7, GivenBytes
<1>9. filled' = filled \o given BY <1>2
<1>10. Len(given) \in Nat BY <1>8 DEF Bytes
<1> HIDE DEF given, count, base
<1>11. /\ filled' \in Bytes /\ Len(filled') = Len(filled) + Len(given)
       /\ \A i \in 1..Len(filled) : filled'[i] = filled[i]
       /\ \A i \in 1..Len(given) : filled'[Len(filled) + i] = given[i]
    BY <1>3, <1>8, <1>9, Joined
<1>12. Len(filled') <= count /\ count <= ChunkBytes /\ Len(filled') \in Nat
    BY <1>1, <1>3, <1>7, <1>8, <1>10, <1>11, ReaderAssumption
<1>13. offset' = base + Len(filled') /\ offset' \in Nat
  <2>1. offset' = offset + Len(filled') - Len(filled) BY <1>b
  <2> QED BY <1>1, <1>3, <1>4, <1>10, <1>11, <2>1
<1>14. /\ buffer' \in Bytes /\ Len(buffer') = ChunkBytes
       /\ \A i \in 1..Len(filled') : buffer'[i] = filled'[i]
  <2>1. buffer \in Bytes /\ Len(buffer) = ChunkBytes /\ DOMAIN buffer = 1..ChunkBytes BY <1>a DEF Data, Bytes
  <2>2. DOMAIN filled' = 1..Len(filled') BY <1>11 DEF Bytes
  <2>3. buffer' = [i \in 1..ChunkBytes |-> IF i \in 1..Len(filled') THEN filled'[i] ELSE buffer[i]]
      BY <1>2, <2>1, <2>2
  <2>4. \A i \in 1..ChunkBytes : (IF i \in 1..Len(filled') THEN filled'[i] ELSE buffer[i]) \in Int
      BY <1>11, <2>1 DEF Bytes
  <2>5. buffer' \in [1..ChunkBytes -> Int] BY <2>3, <2>4
  <2>6. buffer' \in Bytes /\ Len(buffer') = ChunkBytes BY <2>5, ReaderAssumption DEF Bytes
  <2>7. ASSUME NEW i \in 1..Len(filled') PROVE buffer'[i] = filled'[i]
    <3>1. i \in 1..ChunkBytes BY <1>1, <1>12, ReaderAssumption
    <3> QED BY <2>3, <3>1
  <2> QED BY <2>6, <2>7
<1>15. Flags' /\ Unwritten' BY <1>a, <1>b DEF Flags, Unwritten
<1>16. Data'
  <2>1. Len(filled') <= ChunkBytes BY <1>1, <1>12, ReaderAssumption
  <2> QED BY <1>a, <1>b, <1>11, <1>13, <1>14, <2>1 DEF Data
<1>17. Hashing' /\ Cached' BY <1>b, <1>4 DEF Hashing, Cached
<1>18. Hashed' BY <1>a, <1>b DEF Hashed, IsRun, Count
<1>19. ASSUME ~dirty PROVE IsRun(filled', base)
  <2>1. IsRun(given, offset) BY <1>a, <1>8, <1>19 DEF Unwritten
  <2>2. IsRun(filled, base) BY <1>a, <1>b, <1>19 DEF Refilling, base
  <2>3. ASSUME NEW i \in 1..Len(filled') PROVE filled'[i] = base + i
    <3>1. CASE i <= Len(filled) BY <1>3, <1>11, <2>2, <3>1 DEF IsRun
    <3>2. CASE i > Len(filled)
      <4>1. i - Len(filled) \in 1..Len(given) BY <1>3, <1>10, <1>11, <3>2
      <4>2. filled'[Len(filled) + (i - Len(filled))] = given[i - Len(filled)] BY <1>11, <4>1
      <4>3. given[i - Len(filled)] = offset + (i - Len(filled)) BY <2>1, <4>1 DEF IsRun
      <4> QED BY <1>1, <1>3, <1>4, <4>2, <4>3
    <3> QED BY <1>3, <3>1, <3>2
  <2> QED BY <2>3 DEF IsRun
<1>20. Refilling'
  <2>1. cachedChunk' = NoChunk /\ position' < Length /\ want' > 0 BY <1>a, <1>b DEF Refilling
  <2>2. ~dirty' => IsRun(filled', (ChunkIndex * ChunkBytes)') BY <1>b, <1>6, <1>19
  <2>3. Len(filled') <= Count(ChunkIndex)' BY <1>6, <1>12
  <2>4. offset' = (ChunkIndex * ChunkBytes)' + Len(filled') BY <1>6, <1>13
  <2> QED BY <1>14, <2>1, <2>2, <2>3, <2>4 DEF Refilling, IsRun, Count
<1>21. Answered' BY <1>a, <1>b DEF Answered, IsRun
<1> QED BY <1>15, <1>16, <1>17, <1>18, <1>20, <1>21 DEF ReaderInv

\* A refill that fails did so over a source that differed.
LEMMA RefillFailsKeeps ==
    ASSUME ReaderInv, phase = "refilling", dirty, NEW kind \in {"eof", "changed"}, RefillFails(kind)
    PROVE  ReaderInv'
<1>a. Flags /\ Data /\ Unwritten /\ Hashing /\ Hashed /\ Cached /\ Refilling /\ Answered
    BY DEF ReaderInv
<1>b. /\ phase' = "ready" /\ filled' = <<>>
      /\ last' = [call |-> kind, at |-> position, bytes |-> <<>>, ok |-> FALSE]
      /\ UNCHANGED <<file, writes, offset, digest, hashes, buffer, cachedChunk, position, want, dirty>>
    BY DEF RefillFails
<1>1. <<>> \in Bytes /\ Len(<<>>) = 0 BY DEF Bytes
<1>2. Flags' /\ Unwritten' BY <1>a, <1>b DEF Flags, Unwritten
<1>3. Data'
  <2>1. last' \in Answer BY <1>a, <1>b, <1>1 DEF Data, Answer
  <2> QED BY <1>a, <1>b, <1>1, <2>1, ReaderAssumption DEF Data, Phases
<1>4. Hashing' /\ Refilling' BY <1>b DEF Hashing, Refilling
<1>5. Hashed' BY <1>a, <1>b DEF Hashed, IsRun, Count
<1>6. Cached' BY <1>a, <1>b DEF Cached, Refilling
<1>7. Answered'
  <2>1. last'.bytes = <<>> BY <1>b
  <2>2. dirty' BY <1>b
  <2> QED BY <1>1, <2>1, <2>2 DEF Answered, IsRun
<1> QED BY <1>2, <1>3, <1>4, <1>5, <1>6, <1>7 DEF ReaderInv

\* Only a file that was written to ends before its chunk does.
LEMMA RefillEofKeeps ==
    ASSUME ReaderInv, RefillEof
    PROVE  ReaderInv'
<1>a. Flags /\ Data /\ Unwritten /\ Refilling BY DEF ReaderInv
<1>b. /\ phase = "refilling" /\ Len(filled) < CountOf(ChunkIndex) /\ offset >= Len(file)
      /\ RefillFails("eof")
    BY DEF RefillEof
<1> DEFINE count == Count(ChunkIndex)
           base == ChunkIndex * ChunkBytes
<1>1. /\ base \in Nat /\ count \in 1..ChunkBytes /\ CountOf(ChunkIndex) = count
      /\ base + count <= Length
    BY <1>b, RefillFacts
<1>2. offset = base + Len(filled) /\ Len(filled) \in Nat BY <1>a, <1>b DEF Refilling, Data, Bytes
<1> HIDE DEF count, base
<1>3. ASSUME ~dirty PROVE FALSE
  <2>1. Len(file) = Length BY <1>a, <1>3, PinnedBytes DEF Unwritten
  <2>2. Len(filled) < count /\ offset >= Length BY <1>b, <1>1, <2>1
  <2> QED BY <1>1, <1>2, <2>2, ReaderAssumption
<1> QED BY <1>a, <1>b, <1>3, RefillFailsKeeps DEF Flags

\* A refill whose bytes have the chunk's digest read the chunk.
LEMMA RefillDoneKeeps ==
    ASSUME ReaderInv, RefillDone
    PROVE  ReaderInv'
<1>a. Flags /\ Data /\ Unwritten /\ Hashing /\ Hashed /\ Cached /\ Refilling /\ Answered
    BY DEF ReaderInv
<1>b. phase = "refilling" /\ Len(filled) = CountOf(ChunkIndex) BY DEF RefillDone
<1> DEFINE count == Count(ChunkIndex)
           base == ChunkIndex * ChunkBytes
           hash == hashes[ChunkIndex + 1]
<1>1. /\ base \in Nat /\ count \in 1..ChunkBytes /\ CountOf(ChunkIndex) = count /\ base < Length
      /\ ChunkIndex \in Nat /\ ChunkIndex + 1 \in 1..Len(hashes) /\ position \in Nat /\ position < Length
    BY <1>b, RefillFacts
<1>2. hash \in Bytes /\ Len(hash) = count /\ IsRun(hash, base)
  <2>1. hash \in Bytes BY <1>a, <1>1 DEF Data
  <2>2. Len(hash) = Count((ChunkIndex + 1) - 1) /\ IsRun(hash, ((ChunkIndex + 1) - 1) * ChunkBytes)
      BY <1>a, <1>b, <1>1 DEF Hashed
  <2>3. (ChunkIndex + 1) - 1 = ChunkIndex BY <1>1
  <2> QED BY <2>1, <2>2, <2>3
<1>3. filled \in Bytes /\ Len(filled) = count BY <1>a, <1>b, <1>1 DEF Data
<1>4. CASE ChunkMatches(ChunkIndex)
  <2>1. /\ phase' = "ready" /\ filled' = <<>> /\ cachedChunk' = ChunkIndex
        /\ UNCHANGED buffer /\ Delivered(want)
        /\ UNCHANGED <<file, writes, offset, digest, hashes, want, dirty>>
      BY <1>4 DEF RefillDone
  <2>2. filled = hash BY <1>4 DEF ChunkMatches
  <2>3. \A i \in 1..count : buffer[i] = base + i
      BY <1>a, <1>b, <1>2, <1>3, <2>2 DEF Refilling, IsRun
  <2>4. buffer' \in Bytes /\ Len(buffer') = ChunkBytes /\ want \in Nat BY <1>a, <2>1 DEF Data
  <2>5. \A i \in 1..count : buffer'[i] = base + i BY <2>1, <2>3
  <2>6. /\ last' \in Answer /\ last'.ok /\ last'.at + Len(last'.bytes) <= Length
        /\ IsRun(last'.bytes, last'.at) /\ position' \in Nat
      BY <1>a, <1>b, <1>1, <2>1, <2>4, <2>5, DeliveredIsPinned
  <2>7. <<>> \in Bytes /\ Len(<<>>) = 0 BY DEF Bytes
  <2>8. Flags' /\ Unwritten' BY <1>a, <2>1 DEF Flags, Unwritten
  <2>9. Data' BY <1>a, <1>1, <2>1, <2>4, <2>6, <2>7, ReaderAssumption DEF Data, Phases
  <2>10. Hashing' /\ Refilling' BY <2>1 DEF Hashing, Refilling
  <2>11. Hashed' BY <1>a, <1>b, <2>1 DEF Hashed, IsRun, Count
  <2>12. Cached' BY <1>1, <2>1, <2>5 DEF Cached, Count
  <2>13. Answered' BY <2>6 DEF Answered
  <2> QED BY <2>8, <2>9, <2>10, <2>11, <2>12, <2>13 DEF ReaderInv
<1>5. CASE ~ChunkMatches(ChunkIndex)
  <2>1. RefillFails("changed") BY <1>5 DEF RefillDone
  <2>2. ASSUME ~dirty PROVE FALSE
    <3>1. IsRun(filled, base) BY <1>a, <1>b, <2>2 DEF Refilling
    <3>2. filled = hash
      <4> HIDE DEF base, count, hash
      <4>1. \A i \in 1..Len(filled) : filled[i] = hash[i] BY <1>2, <1>3, <3>1 DEF IsRun
      <4> QED BY <1>2, <1>3, <4>1, SameBytes
    <3> QED BY <1>5, <3>2 DEF ChunkMatches
  <2> QED BY <1>a, <1>b, <2>1, <2>2, RefillFailsKeeps DEF Flags
<1> QED BY <1>4, <1>5

\* A seek delivers nothing.
LEMMA SeekToKeeps ==
    ASSUME ReaderInv, NEW target \in Int, SeekTo(target)
    PROVE  ReaderInv'
<1>a. Flags /\ Data /\ Unwritten /\ Hashing /\ Hashed /\ Cached /\ Refilling /\ Answered
    BY DEF ReaderInv
<1>b. /\ phase = "ready"
      /\ position' = IF target >= 0 THEN target ELSE position
      /\ last' = [call |-> "seek", at |-> position', bytes |-> <<>>, ok |-> target >= 0]
      /\ UNCHANGED <<file, writes, phase, offset, digest, hashes, filled, buffer, cachedChunk, want, dirty>>
    BY DEF SeekTo
<1>1. position' \in Nat BY <1>a, <1>b DEF Data
<1>2. <<>> \in Bytes /\ Len(<<>>) = 0 BY DEF Bytes
<1>3. last' \in Answer
  <2>1. (target >= 0) \in BOOLEAN OBVIOUS
  <2> DEFINE ok == target >= 0
  <2> HIDE DEF ok
  <2>2. last' = [call |-> "seek", at |-> position', bytes |-> <<>>, ok |-> ok] BY <1>b DEF ok
  <2>3. ok \in BOOLEAN BY <2>1 DEF ok
  <2> QED BY <1>1, <1>2, <2>2, <2>3 DEF Answer
<1>4. Flags' /\ Unwritten' BY <1>a, <1>b DEF Flags, Unwritten
<1>5. Data' BY <1>a, <1>b, <1>1, <1>3 DEF Data
<1>6. Hashing' /\ Refilling' BY <1>b DEF Hashing, Refilling
<1>7. Hashed' BY <1>a, <1>b DEF Hashed, IsRun, Count
<1>8. Cached' BY <1>a, <1>b DEF Cached, Count
<1>9. Answered'
  <2>1. last'.bytes = <<>> /\ last'.call = "seek" BY <1>b
  <2> QED BY <1>2, <2>1 DEF Answered, IsRun
<1> QED BY <1>4, <1>5, <1>6, <1>7, <1>8, <1>9 DEF ReaderInv

\* Every step keeps the invariant.
LEMMA ReaderInvIsKept == ReaderInv /\ [Next]_vars => ReaderInv'
<1> SUFFICES ASSUME ReaderInv, [Next]_vars PROVE ReaderInv' OBVIOUS
<1>a. position \in Int /\ digest \in Bytes BY DEF ReaderInv, Data
<1>1. CASE Write BY <1>1, WriteKeeps
<1>2. CASE HashRead BY <1>2, HashReadKeeps
<1>3. CASE HashChunk BY <1>3, WholeChunkKeeps, LastChunkKeeps
<1>4. CASE RefillRead BY <1>4, RefillReadKeeps
<1>5. CASE RefillEof BY <1>5, RefillEofKeeps
<1>6. CASE RefillDone BY <1>6, RefillDoneKeeps
<1>7. CASE \E n \in 0..(ChunkBytes + 1) : ReadCached(n) \/ ReadRefill(n)
  <2>1. PICK n \in 0..(ChunkBytes + 1) : ReadCached(n) \/ ReadRefill(n) BY <1>7
  <2>2. n \in Nat BY ReaderAssumption
  <2> QED BY <2>1, <2>2, ReadCachedKeeps, ReadRefillKeeps
<1>8. CASE \E k \in (-1)..(Length + 1) : SeekTo(k)
  <2>1. PICK k \in (-1)..(Length + 1) : SeekTo(k) BY <1>8
  <2>2. k \in Int BY ReaderAssumption
  <2> QED BY <2>1, <2>2, SeekToKeeps
<1>9. CASE \E by \in {-ChunkBytes, 1} : SeekTo(position + by) /\ position + by <= Length + 1
  <2>1. PICK by \in {-ChunkBytes, 1} : SeekTo(position + by) BY <1>9
  <2>2. position + by \in Int BY <1>a, ReaderAssumption
  <2> QED BY <2>1, <2>2, SeekToKeeps
<1>10. CASE SeekTo(LengthRead - 1)
  <2>1. LengthRead - 1 \in Int BY <1>a DEF LengthRead, Bytes
  <2> QED BY <1>10, <2>1, SeekToKeeps
<1>11. CASE UNCHANGED vars
  <2>1. UNCHANGED <<file, writes, phase, offset, digest, hashes, filled, buffer, cachedChunk, position,
                    want, dirty, last>>
      BY <1>11 DEF vars
  <2>2. Flags /\ Data /\ Unwritten /\ Hashing /\ Hashed /\ Cached /\ Refilling /\ Answered
      BY DEF ReaderInv
  <2>3. Flags' /\ Unwritten' /\ Data' BY <2>1, <2>2 DEF Flags, Unwritten, Data
  <2>4. Hashing' /\ Hashed' /\ Cached' BY <2>1, <2>2 DEF Hashing, Hashed, Cached, IsRun, Count
  <2>5. Refilling' BY <2>1, <2>2 DEF Refilling, IsRun, Count, ChunkIndex
  <2>6. Answered' BY <2>1, <2>2 DEF Answered, IsRun
  <2> QED BY <2>3, <2>4, <2>5, <2>6 DEF ReaderInv
<1> QED BY <1>1, <1>2, <1>3, <1>4, <1>5, <1>6, <1>7, <1>8, <1>9, <1>10, <1>11 DEF Next

\* A seekable view only exposes bytes of the pinned file, whatever is written
\* to the source and whenever: no read delivers another byte, no failed read
\* leaves the buffer marked authentic, and a read fails only over a source
\* that differed (AuthenticatedReader, Read and Seek).
THEOREM PinnedBytesOnlyHolds == Spec => []PinnedBytesOnly
<1>1. Init => ReaderInv BY ReaderInvAtStart
<1>2. ReaderInv /\ [Next]_vars => ReaderInv' BY ReaderInvIsKept
<1>3. ReaderInv => PinnedBytesOnly BY ReaderInvIsProperty
<1> QED BY <1>1, <1>2, <1>3, PTL DEF Spec
=============================================================================
