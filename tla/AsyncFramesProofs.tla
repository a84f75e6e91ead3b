------------------------- MODULE AsyncFramesProofs -------------------------
(***************************************************************************)
(* Who owns the frames of an asynchronous source, for any addresses, time  *)
(* stamps, limits, ticks and streams.  FramesOwned speaks of sequences and *)
(* counts of references; the invariant says the same of one frame at a     *)
(* time: it has one user at most, and as many references as it has claims. *)
(* Then in which order pictures are shown, and what a tick takes.          *)
(***************************************************************************)
EXTENDS AsyncFrames, FilteringProofs, FiniteSetTheorems

\* An entry of the cache, and one that clean_cache has not looked at yet.
Entry == [frame : Frames, used : BOOLEAN, unused_count : 0 .. MaxUnused - 1]
Loose == [frame : Frames, used : BOOLEAN, unused_count : 0 .. MaxUnused]

\* Sizes of pictures.
Sizes == {None} \cup UNION {{s[i].size : i \in DOMAIN s} : s \in Streams}

Shapes ==
  /\ async_cache \in Seq(Entry)
  /\ async_frames \in Seq(Frames) /\ Len(async_frames) <= MaxAsync
  /\ cur_async_frame \in Frames \cup {None}
  /\ last_frame_ts \in 0 .. W - 1
  /\ refs \in [Frames -> Int]
  /\ pic \in [Frames -> [n : Nat, ts : 0 .. W - 1, size : Sizes]]
  /\ lost \subseteq Frames
  /\ stream \in Streams

\* The three threads; the producer comes with room in the queue.
Threads ==
  /\ source \in [pc : {"idle", "copy", "push"}, frame : Frames \cup {None}, n : Nat]
  /\ source.pc = "idle" <=> source.frame = None
  /\ source.n <= Len(stream)
  /\ source.pc # "idle" => source.n # 0 /\ Len(async_frames) < MaxAsync
  /\ graphics \in [pc : {"tick", "render", "filter", "upload"}, frame : Frames \cup {None}]
  /\ graphics.pc \in {"filter", "upload"} <=> graphics.frame # None
  /\ filter \in [on : BOOLEAN, held : Seq(Frames), reached : BOOLEAN, reset : BOOLEAN,
                 last_ts : 0 .. W - 1]

One(b) == IF b THEN 1 ELSE 0

\* Who uses a frame; who waits to give back a reference of it.
Users(f) == One(source.frame = f) + One(f \in Range(async_frames))
            + One(cur_async_frame = f) + One(graphics.frame = f)
            + One(f \in Range(filter.held)) + One(f \in lost)

Claims(f) == One(f \in Cached(async_cache))
             + One(source.pc = "copy" /\ source.frame = f)
             + One(graphics.frame = f) + One(f \in Range(filter.held))
             + One(f \in lost)

\* A frame that is queued or current lives by the reference of the cache.
Lent(f) == \/ source.pc = "push" /\ source.frame = f
           \/ f \in Range(async_frames)
           \/ cur_async_frame = f

Cache ==
  /\ \A i, j \in DOMAIN async_cache : async_cache[i].frame = async_cache[j].frame => i = j
  /\ \A i \in DOMAIN async_cache :
       /\ async_cache[i].used <=> Users(async_cache[i].frame) # 0
       /\ pic[async_cache[i].frame].size = cache_size

Owners ==
  /\ IsInjective(async_frames) /\ IsInjective(filter.held)
  /\ \A f \in Frames : /\ Users(f) <= 1 /\ refs[f] = Claims(f)
                       /\ Lent(f) => f \in Cached(async_cache)
  /\ source.pc = "copy" => pic[source.frame].size = Picture.size

IInv == Shapes /\ Threads /\ Cache /\ Owners

-----------------------------------------------------------------------------
(* Sequences without repetition.                                           *)

LEMMA Members ==
  ASSUME NEW S, NEW s \in Seq(S)
  PROVE  /\ DOMAIN s = 1 .. Len(s) /\ Len(s) \in Nat
         /\ Range(s) \subseteq S
         /\ \A x : x \in Range(s) <=> \E i \in 1 .. Len(s) : s[i] = x
         /\ \A i \in 1 .. Len(s) : s[i] \in S /\ s[i] \in Range(s)
<1>1. DOMAIN s = 1 .. Len(s) /\ Len(s) \in Nat /\ \A i \in 1 .. Len(s) : s[i] \in S
  BY LenProperties, ElementOfSeq
<1> QED
  BY <1>1 DEF Range

LEMMA NoMembers ==
  Range(<<>>) = {} /\ IsInjective(<<>>)
BY DEF Range, IsInjective

LEMMA Added ==
  ASSUME NEW S, NEW s \in Seq(S), NEW x \in S
  PROVE  /\ Append(s, x) \in Seq(S) /\ Len(Append(s, x)) = Len(s) + 1
         /\ \A y : y \in Range(Append(s, x)) <=> y \in Range(s) \/ y = x
         /\ IsInjective(s) /\ x \notin Range(s) => IsInjective(Append(s, x))
<1> DEFINE n == Len(s)
           q == Append(s, x)
<1>1. /\ q \in Seq(S) /\ Len(q) = n + 1 /\ q[n + 1] = x /\ n \in Nat
      /\ \A i \in 1 .. n : q[i] = s[i]
  BY AppendProperties, LenProperties
<1>2. /\ \A i \in 1 .. n + 1 : i \in 1 .. n \/ i = n + 1
      /\ \A i \in 1 .. n : i \in 1 .. n + 1
      /\ n + 1 \in 1 .. n + 1
  BY <1>1
<1> HIDE DEF q
<1>3. \A y : y \in Range(q) <=> y \in Range(s) \/ y = x
  BY <1>1, <1>2, Members
<1>4. ASSUME IsInjective(s), x \notin Range(s) PROVE IsInjective(q)
  <2>1. ASSUME NEW i \in 1 .. n + 1, NEW j \in 1 .. n + 1, q[i] = q[j] PROVE i = j
    <3>1. /\ DOMAIN s = 1 .. n /\ \A k \in 1 .. n : s[k] # x
      BY <1>4, Members
    <3> QED
      BY <1>1, <1>2, <1>4, <2>1, <3>1 DEF IsInjective
  <2>2. DOMAIN q = 1 .. n + 1
    BY <1>1, Members
  <2> QED
    BY <2>1, <2>2 DEF IsInjective
<1> QED
  BY <1>1, <1>3, <1>4 DEF q

\* What is left when the first k elements are taken away.
LEMMA Dropped ==
  ASSUME NEW S, NEW s \in Seq(S), NEW k \in 0 .. Len(s)
  PROVE  LET q == SubSeq(s, k + 1, Len(s))
         IN  /\ q \in Seq(S) /\ Len(q) = Len(s) - k
             /\ \A y : y \in Range(s) <=>
                         y \in Range(q) \/ \E i \in 1 .. k : s[i] = y
             /\ IsInjective(s) => /\ IsInjective(q)
                                  /\ \A i \in 1 .. k : s[i] \notin Range(q)
<1> DEFINE n == Len(s)
           q == SubSeq(s, k + 1, n)
<1>1. n \in Nat /\ DOMAIN s = 1 .. n /\ k \in 0 .. n /\ \A i \in 1 .. n : s[i] \in S
  BY Members
<1>2. q \in Seq(S) /\ Len(q) = n - k /\ \A i \in 1 .. n - k : q[i] = s[k + i]
  <2>1. \A i \in k + 1 .. n : s[i] \in S
    <3>1. k \in Nat /\ n \in Nat
      BY <1>1
    <3>2. \A i \in k + 1 .. n : i \in 1 .. n
      BY <3>1
    <3> QED
      BY <1>1, <3>2
  <2>2. /\ q \in Seq(S) /\ Len(q) = IF k + 1 <= n THEN n - (k + 1) + 1 ELSE 0
        /\ \A i \in 1 .. n - (k + 1) + 1 : q[i] = s[(k + 1) + i - 1]
    BY <1>1, <2>1, SubSeqProperties
  <2>3. /\ n - (k + 1) + 1 = n - k
        /\ ~(k + 1 <= n) => n - k = 0
        /\ \A i \in 1 .. n - k : (k + 1) + i - 1 = k + i
    <3>1. k \in Int /\ n \in Int /\ k <= n
      BY <1>1
    <3> HIDE DEF n
    <3> QED
      BY <3>1
  <2> QED
    BY <2>2, <2>3
<1> HIDE DEF q
<1>3. \A y : y \in Range(q) <=> \E i \in 1 .. n - k : s[k + i] = y
  <2>1. \A y : y \in Range(q) <=> \E i \in 1 .. n - k : q[i] = y
    BY <1>2, Members
  <2> QED
    BY <1>2, <2>1
<1>4. \A i \in 1 .. n - k : k + i \in 1 .. n
  BY <1>1
<1>5. \A i \in 1 .. n : i \in 1 .. k \/ (i - k \in 1 .. n - k /\ k + (i - k) = i)
  BY <1>1
<1>6. \A y : y \in Range(s) <=> y \in Range(q) \/ \E i \in 1 .. k : s[i] = y
  <2>1. \A i \in 1 .. k : i \in 1 .. n
    BY <1>1
  <2>2. \A y : y \in Range(s) <=> \E i \in 1 .. n : s[i] = y
    BY Members
  <2>3. ASSUME NEW y, y \in Range(s), y \notin Range(q) PROVE \E i \in 1 .. k : s[i] = y
    <3>1. PICK i \in 1 .. n : s[i] = y
      BY <2>2, <2>3
    <3> QED
      BY <1>3, <1>5, <2>3, <3>1
  <2> QED
    BY <1>3, <1>4, <2>1, <2>2, <2>3
<1>7. ASSUME IsInjective(s)
      PROVE  IsInjective(q) /\ \A i \in 1 .. k : s[i] \notin Range(q)
  <2>1. ASSUME NEW i \in 1 .. n - k, NEW j \in 1 .. n - k, q[i] = q[j] PROVE i = j
    <3>1. k + i = k + j
      BY <1>1, <1>2, <1>4, <1>7, <2>1 DEF IsInjective
    <3> QED
      BY <1>1, <3>1
  <2>2. DOMAIN q = 1 .. n - k
    BY <1>2, Members
  <2>3. ASSUME NEW i \in 1 .. k PROVE s[i] \notin Range(q)
    <3>1. SUFFICES ASSUME NEW j \in 1 .. n - k, s[k + j] = s[i] PROVE FALSE
      BY <1>3
    <3>2. i \in 1 .. n /\ k + j \in 1 .. n /\ i # k + j
      BY <1>1
    <3> QED
      BY <1>1, <1>7, <3>1, <3>2 DEF IsInjective
  <2> QED
    BY <2>1, <2>2, <2>3 DEF IsInjective
<1> QED
  BY <1>2, <1>6, <1>7 DEF q

\* The first element is taken away.
LEMMA Shifted ==
  ASSUME NEW S, NEW s \in Seq(S), s # <<>>
  PROVE  /\ Head(s) \in S /\ Tail(s) \in Seq(S)
         /\ \A y : y \in Range(s) <=> y \in Range(Tail(s)) \/ y = Head(s)
         /\ IsInjective(s) => IsInjective(Tail(s)) /\ Head(s) \notin Range(Tail(s))
<1>1. /\ Head(s) \in S /\ Tail(s) \in Seq(S) /\ Tail(s) = SubSeq(s, 2, Len(s))
      /\ Head(s) = s[1] /\ 1 \in 0 .. Len(s)
  BY HeadTailProperties, TailIsSubSeq, EmptySeq
<1>2. 1 \in 1 .. 1 /\ \A i \in 1 .. 1 : i = 1
  OBVIOUS
<1> DEFINE q == SubSeq(s, 1 + 1, Len(s))
<1>3. /\ \A y : y \in Range(s) <=> y \in Range(q) \/ \E i \in 1 .. 1 : s[i] = y
      /\ IsInjective(s) => IsInjective(q) /\ \A i \in 1 .. 1 : s[i] \notin Range(q)
  BY <1>1, Dropped
<1>4. q = Tail(s)
  BY <1>1
<1> HIDE DEF q
<1>5. \A y : (\E i \in 1 .. 1 : s[i] = y) <=> y = Head(s)
  BY <1>1, <1>2
<1> QED
  BY <1>1, <1>2, <1>3, <1>4, <1>5

-----------------------------------------------------------------------------
(* The invariant and one frame.                                            *)

LEMMA Facts ==
  ASSUME IInv
  PROVE  /\ async_cache \in Seq(Entry) /\ Len(async_cache) \in Nat
         /\ DOMAIN async_cache = 1 .. Len(async_cache)
         /\ \A i \in 1 .. Len(async_cache) : async_cache[i] \in Entry
         /\ Cached(async_cache) \subseteq Frames
         /\ Range(async_frames) \subseteq Frames /\ Range(filter.held) \subseteq Frames
         /\ filter.held \in Seq(Frames) /\ async_frames \in Seq(Frames)
         /\ source.frame \in Frames \cup {None} /\ graphics.frame \in Frames \cup {None}
         /\ None \notin Frames /\ W \in Nat \ {0} /\ MaxUnused \in Nat \ {0}
<1>1. async_cache \in Seq(Entry) /\ async_frames \in Seq(Frames) /\ filter.held \in Seq(Frames)
  BY DEF IInv, Shapes, Threads
<1>2. /\ Len(async_cache) \in Nat /\ DOMAIN async_cache = 1 .. Len(async_cache)
      /\ \A i \in 1 .. Len(async_cache) : async_cache[i] \in Entry
      /\ Range(async_frames) \subseteq Frames /\ Range(filter.held) \subseteq Frames
  BY <1>1, Members
<1>3. Cached(async_cache) \subseteq Frames
  BY <1>2 DEF Cached, Entry
<1> QED
  BY <1>1, <1>2, <1>3, AsyncAssumption DEF IInv, Threads

LEMMA UnusedIs ==
  ASSUME NEW cache \in Seq(Entry), NEW fs
  PROVE  /\ Unused(cache, fs) \in Seq(Entry) /\ DOMAIN Unused(cache, fs) = DOMAIN cache
         /\ Cached(Unused(cache, fs)) = Cached(cache)
         /\ \A i \in DOMAIN cache :
              /\ Unused(cache, fs)[i].frame = cache[i].frame
              /\ Unused(cache, fs)[i].used <=> cache[i].used /\ cache[i].frame \notin fs
<1> DEFINE n == Len(cache)
           F(i) == [cache[i] EXCEPT !.used = cache[i].used /\ cache[i].frame \notin fs]
<1>1. n \in Nat /\ DOMAIN cache = 1 .. n /\ \A i \in 1 .. n : cache[i] \in Entry
  BY Members
<1>2. ASSUME NEW i \in 1 .. n
      PROVE  /\ F(i) \in Entry /\ F(i).frame = cache[i].frame
             /\ F(i).used <=> cache[i].used /\ cache[i].frame \notin fs
  BY <1>1 DEF Entry
<1>3. Unused(cache, fs) = [i \in 1 .. n |-> F(i)]
  BY <1>1 DEF Unused
<1> HIDE DEF F, n
<1>4. /\ Unused(cache, fs) \in Seq(Entry) /\ DOMAIN Unused(cache, fs) = 1 .. n
      /\ \A i \in 1 .. n : Unused(cache, fs)[i] = F(i)
  BY <1>1, <1>2, <1>3
<1>5. Cached(Unused(cache, fs)) = Cached(cache)
  BY <1>1, <1>2, <1>4 DEF Cached
<1> QED
  BY <1>1, <1>2, <1>4, <1>5

LEMMA DecrefIs ==
  ASSUME NEW r \in [Frames -> Int], NEW fs
  PROVE  /\ Decref(r, fs) \in [Frames -> Int]
         /\ \A f \in Frames : Decref(r, fs)[f] = r[f] - One(f \in fs)
  BY DEF Decref, One

\* An entry counts as used as long as its frame has a user.
LEMMA Marked ==
  ASSUME IInv, NEW fs, UNCHANGED <<cache_size, pic>>,
         async_cache' = Unused(async_cache, fs),
         \A f \in Cached(async_cache) : Users(f)' # 0 <=> Users(f) # 0 /\ f \notin fs
  PROVE  Cache' /\ async_cache' \in Seq(Entry) /\ Cached(async_cache') = Cached(async_cache)
<1>1. /\ async_cache' \in Seq(Entry) /\ DOMAIN async_cache' = DOMAIN async_cache
      /\ Cached(async_cache') = Cached(async_cache)
      /\ \A i \in DOMAIN async_cache :
           /\ async_cache'[i].frame = async_cache[i].frame
           /\ async_cache'[i].used <=> async_cache[i].used /\ async_cache[i].frame \notin fs
  BY Facts, UnusedIs
<1>2. \A i \in DOMAIN async_cache : async_cache[i].frame \in Cached(async_cache)
  BY DEF Cached
<1>3. ASSUME NEW i \in DOMAIN async_cache, NEW f \in Cached(async_cache),
             f = async_cache[i].frame
      PROVE  async_cache'[i].used <=> Users(f)' # 0
  BY <1>1, <1>3 DEF IInv, Cache
<1>4. ASSUME NEW i \in DOMAIN async_cache, NEW f, f = async_cache[i].frame
      PROVE  (async_cache[i].used <=> Users(async_cache[i].frame) # 0)'
  <2>1. f \in Cached(async_cache) /\ async_cache'[i].frame = f
    BY <1>1, <1>2, <1>4
  <2>2. async_cache'[i].used <=> Users(f)' # 0
    BY <1>3, <1>4, <2>1
  <2> QED
    BY <2>1, <2>2 DEF Users
<1>5. \A i \in DOMAIN async_cache : (async_cache[i].used <=> Users(async_cache[i].frame) # 0)'
  BY <1>4
<1>6. /\ \A i, j \in DOMAIN async_cache' :
           async_cache'[i].frame = async_cache'[j].frame => i = j
      /\ \A i \in DOMAIN async_cache' : pic'[async_cache'[i].frame].size = cache_size'
  BY <1>1 DEF IInv, Cache
<1> QED
  BY <1>1, <1>5, <1>6 DEF Cache

LEMMA Unmarked ==
  ASSUME IInv, UNCHANGED <<async_cache, cache_size>>,
         \A f \in Frames : pic'[f].size = pic[f].size,
         \A f \in Cached(async_cache) : Users(f)' # 0 <=> Users(f) # 0
  PROVE  Cache'
<1>1. ASSUME NEW i \in DOMAIN async_cache, NEW f, f = async_cache[i].frame
      PROVE  /\ (async_cache[i].used <=> Users(async_cache[i].frame) # 0)'
             /\ pic'[async_cache'[i].frame].size = cache_size'
  <2>1. f \in Cached(async_cache) /\ f \in Frames
    BY <1>1, Facts DEF Cached
  <2>2. async_cache[i].used <=> Users(f)' # 0
    BY <1>1, <2>1 DEF IInv, Cache
  <2>3. (async_cache[i].used <=> Users(async_cache[i].frame) # 0)'
    BY <1>1, <2>2 DEF Users
  <2> QED
    BY <1>1, <2>1, <2>3 DEF IInv, Cache
<1>2. \A i \in DOMAIN async_cache :
        /\ (async_cache[i].used <=> Users(async_cache[i].frame) # 0)'
        /\ pic'[async_cache'[i].frame].size = cache_size'
  BY <1>1
<1> QED
  BY <1>2 DEF IInv, Cache

\* A frame of the graphics thread or of the filter is given back.
LEMMA Released ==
  ASSUME IInv, NEW g \in Frames, ReleaseFrame(g), Threads', IsInjective(filter'.held),
         UNCHANGED <<async_frames, cur_async_frame, last_frame_ts, cache_size, pic,
                     stream, source, lost>>,
         \A f \in Frames :
           One(graphics'.frame = f) + One(f \in Range(filter'.held)) + One(f = g)
             = One(graphics.frame = f) + One(f \in Range(filter.held))
  PROVE  IInv'
<1>1. /\ refs' \in [Frames -> Int]
      /\ \A f \in Frames : refs'[f] = refs[f] - One(f = g)
  <2>1. refs \in [Frames -> Int] /\ refs' = Decref(refs, {g})
    BY DEF IInv, Shapes, ReleaseFrame
  <2> QED
    BY <2>1, DecrefIs
<1>2. ASSUME NEW f \in Frames
      PROVE  /\ Users(f)' = Users(f) - One(f = g)
             /\ Claims(f) - One(f = g) = One(f \in Cached(async_cache))
                  + One(source.pc = "copy" /\ source.frame = f)
                  + One(graphics'.frame = f) + One(f \in Range(filter'.held))
                  + One(f \in lost)
             /\ f = g => Users(f) = 1 /\ ~Lent(f)
  BY <1>2 DEF Users, Claims, Lent, One, IInv, Owners
<1>3. /\ Cache' /\ async_cache' \in Seq(Entry)
      /\ Cached(async_cache') = Cached(async_cache)
  <2>1. CASE refs'[g] = 0
    <3>1. async_cache' = async_cache
      BY <2>1 DEF ReleaseFrame
    <3>2. g \notin Cached(async_cache)
      BY <1>1, <1>2, <2>1 DEF IInv, Owners, Claims, One
    <3>3. ASSUME NEW f \in Cached(async_cache) PROVE Users(f)' # 0 <=> Users(f) # 0
      <4>1. f \in Frames /\ f # g
        BY <3>2, Facts
      <4> QED
        BY <1>2, <4>1 DEF One, Users
    <3> QED
      BY <3>1, <3>3, Unmarked, Facts
  <2>2. CASE refs'[g] # 0
    <3>1. async_cache' = Unused(async_cache, {g})
      BY <2>2 DEF ReleaseFrame
    <3>2. ASSUME NEW f \in Cached(async_cache)
          PROVE  Users(f)' # 0 <=> Users(f) # 0 /\ f \notin {g}
      <4>1. f \in Frames
        BY Facts
      <4> QED
        BY <1>2, <4>1 DEF One, Users
    <3> QED
      BY <3>1, <3>2, Marked
  <2> QED
    BY <2>1, <2>2
<1>4. Shapes'
  BY <1>1, <1>3 DEF IInv, Shapes
<1>5. Owners'
  <2>1. ASSUME NEW f \in Frames
        PROVE  /\ (Users(f) <= 1)' /\ (refs[f] = Claims(f))'
               /\ (Lent(f) => f \in Cached(async_cache))'
    <3>1. /\ Users(f) <= 1 /\ refs[f] = Claims(f)
          /\ Lent(f) => f \in Cached(async_cache)
      BY <2>1 DEF IInv, Owners
    <3>2. (Users(f) <= 1)'
      BY <1>2, <3>1 DEF One, Users
    <3>3. (refs[f] = Claims(f))'
      BY <1>1, <1>2, <1>3, <3>1 DEF Claims
    <3>4. (Lent(f) => f \in Cached(async_cache))'
      BY <1>3, <3>1 DEF Lent
    <3> QED
      BY <3>2, <3>3, <3>4
  <2>2. (source.pc = "copy" => pic[source.frame].size = Picture.size)'
    BY DEF IInv, Owners, Picture
  <2> QED
    BY <2>1, <2>2 DEF IInv, Owners
<1> QED
  BY <1>3, <1>4, <1>5 DEF IInv

-----------------------------------------------------------------------------
(* Rendering and the filter.                                               *)

LEMMA UploadIInv ==
  ASSUME IInv, Upload
  PROVE  IInv'
<1> DEFINE g == graphics.frame
<1>1. /\ ReleaseFrame(g) /\ graphics.pc = "upload"
      /\ graphics' = [pc |-> "tick", frame |-> None]
      /\ UNCHANGED <<async_frames, cur_async_frame, last_frame_ts, cache_size, pic,
                     stream, source, filter, lost>>
  BY DEF Upload
<1>2. g \in Frames /\ None \notin Frames
  BY <1>1, Facts DEF IInv, Threads
<1>3. Threads'
  BY <1>1 DEF IInv, Threads
<1>4. \A f \in Frames :
        One(graphics'.frame = f) + One(f \in Range(filter'.held)) + One(f = g)
          = One(graphics.frame = f) + One(f \in Range(filter.held))
  BY <1>1, <1>2 DEF One
<1>5. IsInjective(filter'.held)
  BY <1>1 DEF IInv, Owners
<1> HIDE DEF g
<1> QED
  BY <1>1, <1>2, <1>3, <1>4, <1>5, Released

\* The filter without its first frame.
LEMMA Emptied ==
  ASSUME IInv, filter.held # <<>>, filter' = [filter EXCEPT !.held = Tail(@)]
  PROVE  /\ Head(filter.held) \in Frames
         /\ filter' \in [on : BOOLEAN, held : Seq(Frames), reached : BOOLEAN,
                         reset : BOOLEAN, last_ts : 0 .. W - 1]
         /\ IsInjective(filter'.held)
         /\ \A f \in Frames :
              One(f \in Range(filter'.held)) + One(f = Head(filter.held))
                = One(f \in Range(filter.held))
<1> DEFINE s == filter.held
<1>1. /\ filter \in [on : BOOLEAN, held : Seq(Frames), reached : BOOLEAN,
                      reset : BOOLEAN, last_ts : 0 .. W - 1]
      /\ s \in Seq(Frames) /\ s # <<>> /\ IsInjective(s)
  BY DEF IInv, Threads, Owners
<1>2. /\ Head(s) \in Frames /\ Tail(s) \in Seq(Frames) /\ IsInjective(Tail(s))
      /\ \A y : y \in Range(s) <=> y \in Range(Tail(s)) \/ y = Head(s)
      /\ Head(s) \notin Range(Tail(s))
  BY <1>1, Shifted
<1>3. /\ filter' \in [on : BOOLEAN, held : Seq(Frames), reached : BOOLEAN,
                       reset : BOOLEAN, last_ts : 0 .. W - 1]
      /\ filter'.held = Tail(s)
  BY <1>1, <1>2
<1> QED
  BY <1>2, <1>3 DEF One

LEMMA FilterReleases ==
  ASSUME IInv, filter.held # <<>>, ReleaseFrame(Head(filter.held)),
         filter' = [filter EXCEPT !.held = Tail(@)],
         UNCHANGED <<async_frames, cur_async_frame, last_frame_ts, cache_size,
                     unbuffered, pic, stream, source, graphics, lost, shown>>
  PROVE  IInv'
<1> DEFINE g == Head(filter.held)
<1>1. /\ g \in Frames /\ IsInjective(filter'.held)
      /\ filter' \in [on : BOOLEAN, held : Seq(Frames), reached : BOOLEAN,
                      reset : BOOLEAN, last_ts : 0 .. W - 1]
      /\ \A f \in Frames :
           One(f \in Range(filter'.held)) + One(f = g) = One(f \in Range(filter.held))
  BY Emptied
<1> HIDE DEF g
<1>2. Threads'
  BY <1>1 DEF IInv, Threads
<1>3. \A f \in Frames :
        One(graphics'.frame = f) + One(f \in Range(filter'.held)) + One(f = g)
          = One(graphics.frame = f) + One(f \in Range(filter.held))
  BY <1>1 DEF One
<1> QED
  BY <1>1, <1>2, <1>3, Released DEF g

LEMMA FilterFreeIInv ==
  ASSUME IInv, FilterFree \/ FilterRemoved
  PROVE  IInv'
BY FilterReleases DEF FilterFree, FilterRemoved

\* Nothing changes but who of the graphics thread, the filter and the lost frames
\* has a frame.
LEMMA Moved ==
  ASSUME IInv, Threads', IsInjective(filter'.held), lost' \subseteq Frames,
         UNCHANGED <<queue, memory, stream, source>>,
         \A f \in Frames :
           One(graphics'.frame = f) + One(f \in Range(filter'.held)) + One(f \in lost')
             = One(graphics.frame = f) + One(f \in Range(filter.held)) + One(f \in lost)
  PROVE  IInv'
<1>1. UNCHANGED <<async_cache, async_frames, cur_async_frame, last_frame_ts, cache_size,
                  refs, pic, stream, source>>
  BY DEF queue, memory
<1>2. ASSUME NEW f \in Frames
      PROVE  Users(f)' = Users(f) /\ Claims(f)' = Claims(f) /\ (Lent(f)' <=> Lent(f))
  BY <1>1, <1>2 DEF Users, Claims, Lent, One
<1>3. Cache'
  BY <1>1, <1>2, Unmarked, Facts
<1>4. Shapes'
  BY <1>1 DEF IInv, Shapes
<1>5. Owners'
  BY <1>1, <1>2 DEF IInv, Owners, Picture
<1> QED
  BY <1>3, <1>4, <1>5 DEF IInv

LEMMA UploadFailsIInv ==
  ASSUME IInv, UploadFails
  PROVE  IInv'
<1> DEFINE g == graphics.frame
<1>1. /\ graphics.pc = "upload" /\ lost' = lost \cup {g}
      /\ graphics' = [pc |-> "tick", frame |-> None]
      /\ UNCHANGED <<queue, memory, stream, source, filter, async_frames>>
  BY DEF UploadFails, queue
<1>2. g \in Frames /\ None \notin Frames /\ lost' \subseteq Frames
  BY <1>1, Facts DEF IInv, Threads, Shapes
<1>3. g \notin lost
  BY <1>2 DEF IInv, Owners, Users, One
<1>4. Threads'
  BY <1>1 DEF IInv, Threads
<1>5. \A f \in Frames :
        One(graphics'.frame = f) + One(f \in Range(filter'.held)) + One(f \in lost')
          = One(graphics.frame = f) + One(f \in Range(filter.held)) + One(f \in lost)
  BY <1>1, <1>2, <1>3 DEF One
<1>6. IsInjective(filter'.held)
  BY <1>1 DEF IInv, Owners
<1> HIDE DEF g
<1> QED
  BY <1>1, <1>2, <1>4, <1>5, <1>6, Moved

LEMMA FilterFields ==
  ASSUME NEW f \in [on : BOOLEAN, held : Seq(Frames), reached : BOOLEAN,
                   reset : BOOLEAN, last_ts : 0 .. W - 1],
         NEW ts \in 0 .. W - 1, NEW reached \in BOOLEAN, NEW held \in Seq(Frames)
  PROVE  LET v == [f EXCEPT !.reset = FALSE, !.last_ts = ts, !.reached = reached,
                            !.held = held]
         IN  /\ v \in [on : BOOLEAN, held : Seq(Frames), reached : BOOLEAN,
                       reset : BOOLEAN, last_ts : 0 .. W - 1]
             /\ v.held = held
  OBVIOUS

LEMMA FilterVideoIInv ==
  ASSUME IInv, FilterVideo
  PROVE  IInv'
<1> DEFINE g       == graphics.frame
           ts      == Stamp(g)
           held    == Append(filter.held, g)
           reached == \/ filter.reached /\ ~MustReset
                      \/ Minus(ts, Stamp(held[1])) >= Delay
           left    == IF reached THEN Tail(held) ELSE held
<1>1. /\ graphics.pc = "filter"
      /\ filter' = [filter EXCEPT !.reset = FALSE, !.last_ts = ts, !.reached = reached,
                                  !.held = left]
      /\ graphics' = IF reached THEN [pc |-> "upload", frame |-> held[1]]
                     ELSE [pc |-> "tick", frame |-> None]
      /\ UNCHANGED <<queue, memory, stream, source, lost>>
  BY DEF FilterVideo
<1>2. /\ g \in Frames /\ None \notin Frames
      /\ filter.held \in Seq(Frames) /\ IsInjective(filter.held)
  BY <1>1, Facts DEF IInv, Threads, Owners
<1>3. g \notin Range(filter.held)
  BY <1>2 DEF IInv, Owners, Users, One
<1>4. /\ held \in Seq(Frames) /\ held # <<>> /\ IsInjective(held)
      /\ \A y : y \in Range(held) <=> y \in Range(filter.held) \/ y = g
  <2>1. /\ held \in Seq(Frames) /\ Len(held) = Len(filter.held) + 1 /\ IsInjective(held)
        /\ \A y : y \in Range(held) <=> y \in Range(filter.held) \/ y = g
    BY <1>2, <1>3, Added
  <2>2. Len(filter.held) \in Nat /\ Len(<<>>) = 0
    BY <1>2, LenProperties
  <2> QED
    BY <2>1, <2>2
<1>5. ts \in 0 .. W - 1
  BY <1>2 DEF IInv, Shapes, Stamp
<1> HIDE DEF held, ts
<1>6. /\ held[1] \in Frames /\ Tail(held) \in Seq(Frames) /\ IsInjective(Tail(held))
      /\ \A y : y \in Range(held) <=> y \in Range(Tail(held)) \/ y = held[1]
      /\ held[1] \notin Range(Tail(held))
  <2>1. Head(held) = held[1]
    BY <1>4, HeadTailProperties
  <2> QED
    BY <1>4, <2>1, Shifted
<1> DEFINE go == reached
<1>7. go \in BOOLEAN
  BY DEF MustReset
<1> HIDE DEF g, go
<1>8. left \in Seq(Frames) /\ IsInjective(left)
  BY <1>4, <1>6
<1>9. /\ filter' \in [on : BOOLEAN, held : Seq(Frames), reached : BOOLEAN,
                       reset : BOOLEAN, last_ts : 0 .. W - 1]
      /\ filter'.held = left
  <2>1. filter \in [on : BOOLEAN, held : Seq(Frames), reached : BOOLEAN,
                    reset : BOOLEAN, last_ts : 0 .. W - 1]
    BY DEF IInv, Threads
  <2> HIDE DEF left
  <2>2. filter' = [filter EXCEPT !.reset = FALSE, !.last_ts = ts, !.reached = go,
                                 !.held = left]
    BY <1>1 DEF go
  <2> QED
    BY <1>5, <1>7, <1>8, <2>1, <2>2, FilterFields
<1>10. Threads'
  <2>1. /\ graphics' \in [pc : {"tick", "render", "filter", "upload"},
                          frame : Frames \cup {None}]
        /\ graphics'.pc \in {"filter", "upload"} <=> graphics'.frame # None
    <3>1. CASE reached
      <4>1. graphics' = [pc |-> "upload", frame |-> held[1]]
        BY <1>1, <3>1
      <4> QED
        BY <1>2, <1>6, <4>1
    <3>2. CASE ~reached
      <4>1. graphics' = [pc |-> "tick", frame |-> None]
        BY <1>1, <3>2
      <4> QED
        BY <4>1
    <3> QED
      BY <3>1, <3>2
  <2>2. UNCHANGED <<async_frames, source, stream>>
    BY <1>1 DEF queue
  <2> HIDE DEF left
  <2> QED
    BY <1>9, <2>1, <2>2 DEF IInv, Threads
<1>11. \A f \in Frames :
         One(graphics'.frame = f) + One(f \in Range(filter'.held)) + One(f \in lost')
           = One(graphics.frame = f) + One(f \in Range(filter.held)) + One(f \in lost)
  <2>1. ASSUME NEW f \in Frames
        PROVE  One(graphics'.frame = f) + One(f \in Range(left))
                 = One(g = f) + One(f \in Range(filter.held))
    <3>1. CASE reached
      BY <1>1, <1>3, <1>4, <1>6, <3>1 DEF One
    <3>2. CASE ~reached
      BY <1>1, <1>2, <1>3, <1>4, <3>2 DEF One
    <3> QED
      BY <3>1, <3>2
  <2> HIDE DEF left
  <2> QED
    BY <1>1, <1>9, <2>1 DEF g, One
<1>12. lost' \subseteq Frames /\ IsInjective(filter'.held)
  BY <1>1, <1>8, <1>9 DEF IInv, Shapes
<1> HIDE DEF left
<1> QED
  BY <1>1, <1>10, <1>11, <1>12, Moved

\* The user, and a source that nobody renders.
LEMMA QuietIInv ==
  ASSUME IInv, NotRendered \/ SetFlags \/ AddFilter \/ RemoveFilter
  PROVE  IInv'
<1>1. /\ UNCHANGED <<queue, memory, stream, source, lost>>
      /\ graphics'.frame = graphics.frame /\ filter'.held = filter.held
      /\ Threads'
  <2>1. CASE NotRendered
    BY <2>1 DEF NotRendered, IInv, Threads, queue
  <2>2. CASE SetFlags
    BY <2>2 DEF SetFlags, IInv, Threads, queue
  <2>3. CASE AddFilter
    <3>1. /\ filter' = [on |-> TRUE, held |-> <<>>, reached |-> FALSE, reset |-> TRUE,
                        last_ts |-> 0]
          /\ filter.held = <<>>
          /\ UNCHANGED <<queue, memory, stream, source, lost, graphics>>
      BY <2>3 DEF AddFilter, NewFilter
    <3>2. 0 \in 0 .. W - 1 /\ <<>> \in Seq(Frames)
      BY Facts
    <3> QED
      BY <3>1, <3>2 DEF IInv, Threads, queue
  <2>4. CASE RemoveFilter
    BY <2>4 DEF RemoveFilter, IInv, Threads, queue
  <2> QED
    BY <2>1, <2>2, <2>3, <2>4
<1>2. IsInjective(filter'.held) /\ lost' \subseteq Frames
  BY <1>1 DEF IInv, Owners, Shapes
<1> QED
  BY <1>1, <1>2, Moved

LEMMA GetFrameIInv ==
  ASSUME IInv, GetFrame
  PROVE  IInv'
<1> DEFINE c == cur_async_frame
<1>1. /\ graphics.pc = "render" /\ cur_async_frame' = None
      /\ UNCHANGED <<async_cache, async_frames, last_frame_ts, cache_size, pic, stream,
                     source, filter, lost>>
  BY DEF GetFrame
<1>2. /\ graphics.frame = None /\ None \notin Frames /\ c \in Frames \cup {None}
      /\ IsInjective(filter'.held) /\ lost' \subseteq Frames
  BY <1>1, Facts DEF IInv, Threads, Shapes, Owners
<1>3. CASE c = None
  <2>1. graphics' = [graphics EXCEPT !.pc = "tick"] /\ UNCHANGED <<queue, memory>>
    BY <1>1, <1>3 DEF GetFrame, queue, memory
  <2>2. Threads' /\ graphics'.frame = None
    BY <1>1, <1>2, <2>1 DEF IInv, Threads
  <2> QED
    BY <1>1, <1>2, <2>1, <2>2, Moved
<1>4. CASE c # None
  <2>1. /\ c \in Frames /\ refs' = [refs EXCEPT ![c] = @ + 1]
        /\ graphics' = [pc    |-> IF filter.on THEN "filter" ELSE "upload", frame |-> c]
    BY <1>2, <1>4 DEF GetFrame
  <2>2. graphics'.frame = c /\ graphics'.pc \in {"filter", "upload"}
    BY <2>1
  <2>3. /\ refs' \in [Frames -> Int]
        /\ \A f \in Frames : refs'[f] = refs[f] + One(f = c)
    BY <2>1 DEF IInv, Shapes, One
  <2>4. ASSUME NEW f \in Frames
        PROVE  /\ Users(f)' = Users(f) /\ Claims(f)' = Claims(f) + One(f = c)
               /\ Lent(f)' => Lent(f)
    BY <1>1, <1>2, <2>1, <2>2, <2>4 DEF Users, Claims, Lent, One
  <2>5. Threads'
    <3>1. graphics' \in [pc : {"tick", "render", "filter", "upload"}, frame : Frames \cup {None}]
      BY <2>1
    <3>2. UNCHANGED <<async_frames, stream, source, filter>> /\ c # None
      BY <1>1, <1>4
    <3> HIDE DEF c
    <3> QED
      BY <2>2, <3>1, <3>2 DEF IInv, Threads
  <2>6. Shapes'
    BY <1>1, <2>3 DEF IInv, Shapes
  <2>7. Cache'
    BY <1>1, <2>4, Unmarked, Facts
  <2>8. Owners'
    <3>1. ASSUME NEW f \in Frames
          PROVE  /\ (Users(f) <= 1)' /\ (refs[f] = Claims(f))'
                 /\ (Lent(f) => f \in Cached(async_cache))'
      BY <1>1, <2>3, <2>4, <3>1 DEF IInv, Owners
    <3> QED
      BY <1>1, <1>2, <3>1 DEF IInv, Owners, Picture
  <2> QED
    BY <2>5, <2>6, <2>7, <2>8 DEF IInv
<1> QED
  BY <1>3, <1>4

-----------------------------------------------------------------------------
(* Delivering.                                                             *)

LEMMA PushFrameIInv ==
  ASSUME IInv, PushFrame
  PROVE  IInv'
<1> DEFINE g == source.frame
<1>1. /\ source.pc = "push" /\ async_frames' = Append(async_frames, g)
      /\ source' = [source EXCEPT !.pc = "idle", !.frame = None]
      /\ UNCHANGED <<async_cache, cur_async_frame, last_frame_ts, cache_size, refs, pic,
                     stream, graphics, filter, lost>>
  BY DEF PushFrame, memory
<1>2. /\ g \in Frames /\ None \notin Frames /\ async_frames \in Seq(Frames)
      /\ IsInjective(async_frames) /\ Len(async_frames) < MaxAsync
      /\ Len(async_frames) \in Nat /\ MaxAsync \in Nat
  BY <1>1, Facts, AsyncAssumption, LenProperties DEF IInv, Threads, Shapes, Owners
<1>3. g \notin Range(async_frames)
  BY <1>2 DEF IInv, Owners, Users, One
<1>4. /\ async_frames' \in Seq(Frames) /\ Len(async_frames') = Len(async_frames) + 1
      /\ \A y : y \in Range(async_frames') <=> y \in Range(async_frames) \/ y = g
      /\ IsInjective(async_frames')
  BY <1>1, <1>2, <1>3, Added
<1>5. source'.pc = "idle" /\ source'.frame = None /\ source'.n = source.n /\ Threads'
  BY <1>1, <1>2 DEF IInv, Threads
<1>6. ASSUME NEW f \in Frames
      PROVE  Users(f)' = Users(f) /\ Claims(f)' = Claims(f) /\ (Lent(f)' => Lent(f))
  BY <1>1, <1>2, <1>3, <1>4, <1>5, <1>6 DEF Users, Claims, Lent, One
<1>7. Shapes'
  BY <1>1, <1>2, <1>4 DEF IInv, Shapes
<1>8. Cache'
  BY <1>1, <1>6, Unmarked, Facts
<1>9. Owners'
  <2>1. ASSUME NEW f \in Frames
        PROVE  /\ (Users(f) <= 1)' /\ (refs[f] = Claims(f))'
               /\ (Lent(f) => f \in Cached(async_cache))'
    BY <1>1, <1>6, <2>1 DEF IInv, Owners
  <2> QED
    BY <1>1, <1>4, <1>5, <2>1 DEF IInv, Owners
<1> QED
  BY <1>5, <1>7, <1>8, <1>9 DEF IInv

LEMMA DeliveredTime ==
  ASSUME IInv, source.n # 0
  PROVE  Picture.ts \in 0 .. W - 1 /\ Picture.size \in Sizes
<1>1. /\ stream \in Streams /\ stream \in Seq(Range(stream))
      /\ \A i \in DOMAIN stream : stream[i].ts \in 1 .. W - 1
      /\ source.n \in Nat \ {0} /\ source.n <= Len(stream)
  BY AsyncAssumption DEF IInv, Shapes, Threads
<1>2. source.n \in DOMAIN stream
  BY <1>1, LenProperties
<1>3. \A x \in 1 .. W - 1 : x \in 0 .. W - 1
  BY Facts
<1> QED
  BY <1>1, <1>2, <1>3 DEF Picture, Sizes

LEMMA PicIs ==
  ASSUME NEW p \in [n : Nat, ts : 0 .. W - 1, size : Sizes],
         NEW n \in Nat, NEW ts \in 0 .. W - 1
  PROVE  LET v == [p EXCEPT !.n = n, !.ts = ts]
         IN  v \in [n : Nat, ts : 0 .. W - 1, size : Sizes] /\ v.size = p.size
  OBVIOUS

LEMMA EndCopyIInv ==
  ASSUME IInv, EndCopy
  PROVE  IInv'
<1> DEFINE g == source.frame
<1>1. /\ source.pc = "copy"
      /\ pic' = [pic EXCEPT ![g].n = source.n, ![g].ts = Picture.ts]
      /\ refs' = Decref(refs, {g})
      /\ source' = IF refs'[g] = 0 THEN [source EXCEPT !.pc = "idle", !.frame = None]
                   ELSE [source EXCEPT !.pc = "push"]
      /\ UNCHANGED <<async_cache, async_frames, cur_async_frame, last_frame_ts, cache_size,
                     stream, graphics, filter, lost>>
  BY DEF EndCopy, queue
<1>2. /\ g \in Frames /\ None \notin Frames /\ source.n \in Nat
      /\ Picture.ts \in 0 .. W - 1
      /\ pic \in [Frames -> [n : Nat, ts : 0 .. W - 1, size : Sizes]]
      /\ refs \in [Frames -> Int]
  BY <1>1, Facts, DeliveredTime DEF IInv, Threads, Shapes
<1>3. /\ pic' \in [Frames -> [n : Nat, ts : 0 .. W - 1, size : Sizes]]
      /\ \A f \in Frames : pic'[f].size = pic[f].size
  <2> DEFINE v == [pic[g] EXCEPT !.n = source.n, !.ts = Picture.ts]
  <2>1. v \in [n : Nat, ts : 0 .. W - 1, size : Sizes] /\ v.size = pic[g].size
    BY <1>2, PicIs
  <2>2. pic' = [pic EXCEPT ![g] = v]
    BY <1>1
  <2> HIDE DEF v
  <2> QED
    BY <1>2, <2>1, <2>2
<1>4. /\ refs' \in [Frames -> Int]
      /\ \A f \in Frames : refs'[f] = refs[f] - One(f = g)
  BY <1>1, <1>2, DecrefIs
<1>5. /\ refs'[g] = One(g \in Cached(async_cache))
      /\ \A f \in Frames : Users(f) <= 1 /\ refs[f] = Claims(f)
  <2>1. \A f \in Frames : Users(f) <= 1 /\ refs[f] = Claims(f)
    BY DEF IInv, Owners
  <2>2. Claims(g) = One(g \in Cached(async_cache)) + 1
    BY <1>1, <1>2, <2>1 DEF Users, Claims, One
  <2>3. refs'[g] = refs[g] - 1
    BY <1>2, <1>4 DEF One
  <2>4. One(g \in Cached(async_cache)) \in Int
    BY DEF One
  <2> QED
    BY <1>2, <2>1, <2>2, <2>3, <2>4
<1>6. /\ Threads' /\ source'.pc # "copy" /\ source'.n = source.n
      /\ source'.pc = "push" <=> g \in Cached(async_cache)
      /\ source'.frame = IF g \in Cached(async_cache) THEN g ELSE None
  <2>1. CASE g \in Cached(async_cache)
    <3>1. source' = [source EXCEPT !.pc = "push"]
      BY <1>1, <1>5, <2>1 DEF One
    <3> QED
      BY <1>1, <1>2, <2>1, <3>1 DEF IInv, Threads
  <2>2. CASE g \notin Cached(async_cache)
    <3>1. source' = [source EXCEPT !.pc = "idle", !.frame = None]
      BY <1>1, <1>5, <2>2 DEF One
    <3> QED
      BY <1>1, <1>2, <2>2, <3>1 DEF IInv, Threads
  <2> QED
    BY <2>1, <2>2
<1>7. ASSUME NEW f \in Frames
      PROVE  /\ Users(f)' = IF f = g /\ g \notin Cached(async_cache) THEN 0 ELSE Users(f)
             /\ Claims(f)' = Claims(f) - One(f = g)
             /\ Lent(f)' => Lent(f) \/ (f = g /\ g \in Cached(async_cache))
  BY <1>1, <1>2, <1>5, <1>6, <1>7 DEF Users, Claims, Lent, One
<1>8. Shapes'
  BY <1>1, <1>3, <1>4 DEF IInv, Shapes
<1>9. Cache'
  <2>1. \A f \in Cached(async_cache) : Users(f)' # 0 <=> Users(f) # 0
    BY <1>7, Facts
  <2> QED
    BY <1>1, <1>3, <2>1, Unmarked
<1>10. Owners'
  <2>1. ASSUME NEW f \in Frames
        PROVE  /\ (Users(f) <= 1)' /\ (refs[f] = Claims(f))'
               /\ (Lent(f) => f \in Cached(async_cache))'
    <3>1. (Users(f) <= 1)'
      BY <1>5, <1>7
    <3>2. (refs[f] = Claims(f))'
      BY <1>4, <1>5, <1>7
    <3>3. (Lent(f) => f \in Cached(async_cache))'
      BY <1>1, <1>7 DEF IInv, Owners
    <3> QED
      BY <3>1, <3>2, <3>3
  <2> QED
    BY <1>1, <1>6, <2>1 DEF IInv, Owners
<1> QED
  BY <1>6, <1>8, <1>9, <1>10 DEF IInv

LEMMA DropPictureIInv ==
  ASSUME IInv, DropPicture
  PROVE  IInv'
<1>1. /\ source.pc = "idle" /\ source.n < Len(stream)
      /\ source' = [source EXCEPT !.n = @ + 1]
      /\ refs' = Decref(refs, Cached(async_cache))
      /\ async_cache' = <<>> /\ async_frames' = <<>> /\ cur_async_frame' = None
      /\ last_frame_ts' = 0
      /\ UNCHANGED <<cache_size, pic, stream, graphics, filter, lost>>
  BY DEF DropPicture, Deliverable, FreedCache
<1>2. /\ refs \in [Frames -> Int] /\ None \notin Frames /\ source.frame = None
      /\ source.n \in Nat /\ Len(stream) \in Nat /\ 0 \in 0 .. W - 1
  <2>1. stream \in Seq(Range(stream))
    BY AsyncAssumption DEF IInv, Shapes
  <2> QED
    BY <1>1, <2>1, Facts, LenProperties DEF IInv, Shapes, Threads
<1>3. /\ refs' \in [Frames -> Int]
      /\ \A f \in Frames : refs'[f] = refs[f] - One(f \in Cached(async_cache))
  BY <1>1, <1>2, DecrefIs
<1>4. /\ Cached(async_cache') = {} /\ Range(async_frames') = {} /\ IsInjective(async_frames')
      /\ DOMAIN async_cache' = {} /\ async_cache' \in Seq(Entry)
      /\ async_frames' \in Seq(Frames) /\ Len(async_frames') = 0
  BY <1>1, NoMembers DEF Cached
<1>5. Threads' /\ source'.pc = "idle" /\ source'.frame = None
  BY <1>1, <1>2, <1>4 DEF IInv, Threads
<1>6. Shapes'
  <2>1. 0 <= MaxAsync
    BY AsyncAssumption
  <2> QED
    BY <1>1, <1>2, <1>3, <1>4, <2>1 DEF IInv, Shapes
<1>7. Cache'
  BY <1>4 DEF Cache
<1>8. Owners'
  <2>1. ASSUME NEW f \in Frames
        PROVE  /\ (Users(f) <= 1)' /\ (refs[f] = Claims(f))'
               /\ (Lent(f) => f \in Cached(async_cache))'
    <3>1. Users(f) <= 1 /\ refs[f] = Claims(f)
      BY DEF IInv, Owners
    <3>2. (Users(f) <= 1)'
      BY <1>1, <1>2, <1>4, <1>5, <2>1, <3>1 DEF Users, One
    <3>3. (refs[f] = Claims(f))'
      BY <1>1, <1>2, <1>3, <1>4, <1>5, <2>1, <3>1 DEF Claims, One
    <3>4. ~Lent(f)'
      BY <1>1, <1>2, <1>4, <1>5, <2>1 DEF Lent
    <3> QED
      BY <3>2, <3>3, <3>4
  <2> QED
    BY <1>1, <1>4, <1>5, <2>1 DEF IInv, Owners
<1> QED
  BY <1>5, <1>6, <1>7, <1>8 DEF IInv

-----------------------------------------------------------------------------
(* The tick.                                                               *)

\* The loop of ready_async_frame computes a time at each place of the queue.
LEMMA Remainder ==
  ASSUME NEW a \in Int, IInv
  PROVE  a % W \in 0 .. W - 1
<1>1. W \in Nat /\ W > 0
  BY Facts
<1> QED
  BY <1>1

LEMMA PlayTimeIs ==
  ASSUME IInv, NEW elapsed \in Ticks
  PROVE  LET n == Len(async_frames)
             t == PlayTime(last_frame_ts, elapsed)
         IN  /\ \A i \in 1 .. n : t[i] \in 0 .. W - 1
             /\ n # 0 => t[1] = (last_frame_ts + elapsed) % W
             /\ \A i \in 2 .. n :
                  \/ Minus(Stamp(async_frames[i]), Stamp(async_frames[i - 1])) > MaxTsVar
                  \/ t[i] = t[i - 1]
<1> DEFINE n     == Len(async_frames)
           S     == 0 .. W - 1
           ts(i) == Stamp(async_frames[i])
           first == (last_frame_ts + elapsed) % W
           Step(i, x) == IF Minus(ts(i), ts(i - 1)) > MaxTsVar
                         THEN Minus(ts(i), Minus(ts(i - 1), IF i = 2 THEN last_frame_ts ELSE x))
                         ELSE x
           Rule(t, i) == IF i = 1 THEN first ELSE Step(i, t[i - 1])
           next == [i \in Nat |-> [x \in S |-> IF i \in 2 .. n THEN Step(i, x) ELSE x]]
<1>1. n \in Nat /\ \A i \in 1 .. n : ts(i) \in S
  BY Facts, Members DEF IInv, Shapes, Stamp
<1>2. /\ last_frame_ts \in S /\ elapsed \in Int /\ \A x \in S : x \in Int
      /\ \A a \in Int : a % W \in S
  BY Remainder, AsyncAssumption DEF IInv, Shapes
<1>3. ASSUME NEW i \in 2 .. n, NEW x \in S PROVE Step(i, x) \in S
  <2>1. i \in 1 .. n /\ i - 1 \in 1 .. n
    BY <1>1
  <2>2. ts(i) \in S /\ ts(i - 1) \in S
    BY <1>1, <2>1
  <2> HIDE DEF ts, S
  <2>3. \A a, b \in S : Minus(a, b) \in S
    BY <1>2 DEF Minus
  <2> QED
    BY <1>2, <2>2, <2>3
<1>4. first \in S
  BY <1>2
<1> HIDE DEF first, Step, S, ts
<1>5. next \in [Nat -> [S -> S]]
  BY <1>3
<1>6. PICK g \in [1 .. n -> S] :
        \A i \in 1 .. n : g[i] = IF i = 1 THEN first ELSE next[i][g[i - 1]]
  <2> HIDE DEF next, n
  <2>1. \A m \in Nat : \E g \in [1 .. m -> S] :
          \A i \in 1 .. m : g[i] = IF i = 1 THEN first ELSE next[i][g[i - 1]]
    BY <1>4, <1>5, Recursion
  <2>2. \E g \in [1 .. n -> S] :
          \A i \in 1 .. n : g[i] = IF i = 1 THEN first ELSE next[i][g[i - 1]]
    BY <1>1, <2>1
  <2> QED
    BY <2>2
<1>7. g = [i \in 1 .. n |-> Rule(g, i)]
  <2>1. ASSUME NEW i \in 1 .. n PROVE g[i] = Rule(g, i)
    <3>1. CASE i = 1
      BY <1>6, <3>1
    <3>2. CASE i # 1
      <4>1. i \in 2 .. n /\ i \in Nat /\ i - 1 \in 1 .. n
        BY <1>1, <3>2
      <4>2. next[i][g[i - 1]] = Step(i, g[i - 1])
        BY <1>6, <4>1
      <4> QED
        BY <1>6, <3>2, <4>2
    <3> QED
      BY <3>1, <3>2
  <2>2. g = [i \in 1 .. n |-> g[i]]
    BY <1>6
  <2> QED
    BY <2>1, <2>2
<1> DEFINE t == CHOOSE t : t = [i \in 1 .. n |-> Rule(t, i)]
<1>8. t = [i \in 1 .. n |-> Rule(t, i)]
  BY <1>7, Zenon
<1>9. PlayTime(last_frame_ts, elapsed) = t
  BY DEF PlayTime, first, Step, ts
<1> HIDE DEF t
<1>10. t[1] = first \/ n = 0
  BY <1>1, <1>8
<1>11. ASSUME NEW i \in 2 .. n PROVE t[i] = Step(i, t[i - 1])
  <2>1. i \in 1 .. n /\ i # 1
    BY <1>1
  <2> QED
    BY <1>8, <2>1
<1> DEFINE N == {i \in Nat : i \in 1 .. n => t[i] \in S}
<1>12. \A i \in Nat : i \in N
  <2>1. 0 \in N
    OBVIOUS
  <2>2. ASSUME NEW i \in Nat, i \in N PROVE i + 1 \in N
    <3>1. CASE i = 0
      BY <1>4, <1>10, <3>1
    <3>2. CASE i # 0
      <4>1. i + 1 \in 1 .. n => i + 1 \in 2 .. n /\ i \in 1 .. n /\ (i + 1) - 1 = i
        BY <3>2
      <4> QED
        BY <1>3, <1>11, <2>2, <4>1
    <3> QED
      BY <3>1, <3>2
  <2> HIDE DEF N
  <2> QED
    BY <2>1, <2>2, Induction
<1>13. \A i \in 1 .. n : t[i] \in S
  BY <1>12
<1>14. \A i \in 2 .. n : Minus(ts(i), ts(i - 1)) > MaxTsVar \/ t[i] = t[i - 1]
  BY <1>11 DEF Step
<1> QED
  BY <1>9, <1>10, <1>13, <1>14 DEF S, first, ts

LEMMA TakenIs ==
  ASSUME IInv, NEW elapsed \in Ticks
  PROVE  /\ Taken(elapsed).count \in 0 .. Len(async_frames)
         /\ Taken(elapsed).last \in 0 .. W - 1
<1> DEFINE n    == Len(async_frames)
           head == Stamp(async_frames[1])
           t    == PlayTime(last_frame_ts, elapsed)
           k    == CountDue(t)
           due  == {j \in 0 .. n : \A i \in 1 .. j : Due(t[i], Stamp(async_frames[i]))}
<1>1. n \in Nat /\ last_frame_ts \in 0 .. W - 1
  BY Facts, Members DEF IInv, Shapes
<1>2. n # 0 => head \in 0 .. W - 1
  <2>1. n # 0 => 1 \in 1 .. n
    BY <1>1
  <2>2. \A i \in 1 .. n : async_frames[i] \in Frames
    BY Facts, Members
  <2> QED
    BY <2>1, <2>2 DEF IInv, Shapes, Stamp
<1>3. \A i \in 1 .. n : t[i] \in 0 .. W - 1
  BY PlayTimeIs
<1> HIDE DEF t
<1>4. k \in 0 .. n
  <2>1. due \subseteq Nat /\ 0 \in due /\ \A j \in due : j <= n /\ j \in 0 .. n
    BY <1>1
  <2>2. CountDue(t) = CHOOSE j \in due : \A x \in due : x <= j
    BY DEF CountDue
  <2> HIDE DEF due
  <2>3. \E j \in due : \A x \in due : x <= j
    BY <1>1, <2>1, GreatestNumber
  <2>4. (CHOOSE j \in due : \A x \in due : x <= j) \in due
    BY <2>3
  <2> QED
    BY <2>1, <2>2, <2>4
<1> HIDE DEF k
<1>5. /\ n # 0 => n \in 1 .. n /\ 1 \in 0 .. n
      /\ n \in 0 .. n /\ 0 \in 0 .. n
      /\ k = n \/ k + 1 \in 1 .. n
  <2>1. n \in Nat /\ k \in Int /\ 0 <= k /\ k <= n
    BY <1>1, <1>4
  <2> HIDE DEF n
  <2> QED
    BY <2>1
<1> DEFINE result ==
        CASE n = 0                            -> [count |-> 0, last |-> last_frame_ts]
        [] n # 0 /\ last_frame_ts = 0       -> [count |-> 1, last |-> head]
        [] n # 0 /\ last_frame_ts # 0 /\ unbuffered
                                            -> [count |-> n, last |-> last_frame_ts]
        [] n # 0 /\ last_frame_ts # 0 /\ ~unbuffered
             /\ OutOfBounds(last_frame_ts, head)
                                            -> [count |-> 1, last |-> head]
        [] OTHER -> [count |-> k, last |-> IF k = n THEN t[n] ELSE t[k + 1]]
<1>6. Taken(elapsed) = result
  BY DEF Taken, t, k
<1> HIDE DEF n, head
<1>7. result.count \in 0 .. n /\ result.last \in 0 .. W - 1
  <2>1. CASE n = 0
    BY <1>1, <1>5, <2>1
  <2>2. CASE n # 0 /\ last_frame_ts = 0
    BY <1>2, <1>5, <2>2
  <2>3. CASE n # 0 /\ last_frame_ts # 0 /\ unbuffered
    BY <1>1, <1>5, <2>3
  <2>4. CASE n # 0 /\ last_frame_ts # 0 /\ ~unbuffered /\ OutOfBounds(last_frame_ts, head)
    BY <1>2, <1>5, <2>4
  <2>5. CASE n # 0 /\ last_frame_ts # 0 /\ ~unbuffered /\ ~OutOfBounds(last_frame_ts, head)
    BY <1>3, <1>4, <1>5, <2>5
  <2> QED
    BY <2>1, <2>2, <2>3, <2>4, <2>5
<1> HIDE DEF result
<1> QED
  BY <1>6, <1>7 DEF n

\* The frames a tick skips and the one shown before lose their user.
LEMMA VideoTickIInv ==
  ASSUME IInv, VideoTick
  PROVE  IInv'
<1>1. PICK elapsed \in Ticks :
        LET t    == Taken(elapsed)
            skip == {async_frames[i] : i \in 1 .. t.count - 1}
        IN  /\ async_cache' = Unused(async_cache, skip \cup {cur_async_frame})
            /\ cur_async_frame' = IF t.count = 0 THEN None ELSE async_frames[t.count]
            /\ async_frames' = SubSeq(async_frames, t.count + 1, Len(async_frames))
            /\ last_frame_ts' = t.last
  BY DEF VideoTick
<1>2. /\ graphics.pc = "tick" /\ graphics' = [graphics EXCEPT !.pc = "render"]
      /\ UNCHANGED <<cache_size, refs, pic, stream, source, filter, lost>>
  BY DEF VideoTick, memory
<1> DEFINE q    == async_frames
           n    == Len(q)
           k    == Taken(elapsed).count
           skip == {q[i] : i \in 1 .. k - 1}
           fs   == skip \cup {cur_async_frame}
<1>3. /\ k \in 0 .. n /\ last_frame_ts' \in 0 .. W - 1
      /\ cur_async_frame' = IF k = 0 THEN None ELSE q[k]
      /\ async_frames' = SubSeq(q, k + 1, n)
      /\ async_cache' = Unused(async_cache, fs)
  BY <1>1, TakenIs
<1>4. /\ q \in Seq(Frames) /\ n \in Nat /\ IsInjective(q) /\ None \notin Frames
      /\ DOMAIN q = 1 .. n
      /\ \A i \in 1 .. n : q[i] \in Frames /\ q[i] \in Range(q)
      /\ cur_async_frame \in Frames \cup {None}
      /\ n <= MaxAsync /\ MaxAsync \in Int
  BY Facts, Members, AsyncAssumption DEF IInv, Owners, Shapes
<1> HIDE DEF k
<1>5. /\ async_frames' \in Seq(Frames) /\ Len(async_frames') = n - k
      /\ IsInjective(async_frames')
      /\ \A y : y \in Range(q) <=> y \in Range(async_frames') \/ \E i \in 1 .. k : q[i] = y
      /\ \A i \in 1 .. k : q[i] \notin Range(async_frames')
  <2>1. k \in 0 .. Len(q)
    BY <1>3
  <2> QED
    BY <1>3, <1>4, <2>1, Dropped
<1> HIDE DEF n
<1>6. ASSUME NEW f \in Frames
      PROVE  /\ One(f \in Range(async_frames')) + One(cur_async_frame' = f) + One(f \in fs)
                  = One(f \in Range(q)) + One(cur_async_frame = f)
             /\ f \in fs => f \in Range(q) \/ cur_async_frame = f
             /\ f \in Range(async_frames') \/ cur_async_frame' = f
                  => f \in Range(q) \/ cur_async_frame = f
  <2>1. ~(f \in Range(q) /\ cur_async_frame = f)
    BY DEF IInv, Owners, Users, One
  <2>2. k \in Int /\ n \in Int /\ 0 <= k /\ k <= n
    BY <1>3, <1>4
  <2>3. CASE k = 0
    <3>1. skip = {} /\ cur_async_frame' = None /\ 1 .. k = {}
      BY <1>3, <2>3
    <3>2. f \in Range(q) <=> f \in Range(async_frames')
      BY <1>5, <3>1
    <3>3. f \in fs <=> cur_async_frame = f
      BY <3>1
    <3>4. cur_async_frame' # f
      BY <1>4, <3>1
    <3> HIDE DEF fs, skip
    <3> QED
      BY <3>2, <3>3, <3>4 DEF One
  <2>4. CASE k # 0 /\ f = q[k]
    <3>1. k \in 1 .. n /\ k \in 1 .. k
      BY <2>2, <2>4
    <3>2. f \in Range(q) /\ f \notin Range(async_frames') /\ cur_async_frame' = f
      BY <1>3, <1>4, <1>5, <2>4, <3>1
    <3>3. f \notin skip
      <4>1. SUFFICES ASSUME NEW i \in 1 .. k - 1, q[i] = q[k] PROVE FALSE
        BY <2>4
      <4>2. i \in 1 .. n /\ i # k
        BY <2>2
      <4> QED
        BY <1>4, <3>1, <4>1, <4>2 DEF IsInjective
    <3> QED
      BY <2>1, <3>2, <3>3 DEF One
  <2>5. CASE k # 0 /\ f # q[k]
    <3>1. cur_async_frame' # f
      BY <1>3, <2>5
    <3>2. \A i \in 1 .. k : i \in 1 .. k - 1 \/ i = k
      BY <2>2
    <3>3. \A i \in 1 .. k - 1 : i \in 1 .. k
      BY <2>2
    <3>4. CASE f \in skip
      <4>1. PICK i \in 1 .. k - 1 : q[i] = f
        BY <3>4
      <4>2. f \in Range(q) /\ f \notin Range(async_frames')
        BY <1>5, <3>3, <4>1
      <4> QED
        BY <2>1, <3>1, <3>4, <4>2 DEF One
    <3>5. CASE f \notin skip
      <4>1. ~ \E i \in 1 .. k : q[i] = f
        BY <2>5, <3>2, <3>5
      <4>2. f \in Range(q) <=> f \in Range(async_frames')
        BY <1>5, <4>1
      <4> QED
        BY <2>1, <3>1, <3>5, <4>2 DEF One
    <3> QED
      BY <3>4, <3>5
  <2> QED
    BY <2>3, <2>4, <2>5
<1> HIDE DEF fs, q
<1>7. graphics'.frame = graphics.frame /\ Threads'
  <2>1. Len(async_frames') \in Int /\ Len(async_frames') <= n
    BY <1>3, <1>4, <1>5
  <2>2. source.pc # "idle" => Len(async_frames') < MaxAsync
    <3>1. source.pc # "idle" => n < MaxAsync
      BY DEF IInv, Threads, q, n
    <3> QED
      BY <1>4, <2>1, <3>1
  <2> QED
    BY <1>2, <2>2 DEF IInv, Threads
<1>8. ASSUME NEW f \in Frames
      PROVE  /\ Users(f)' = Users(f) - One(f \in fs) /\ Users(f) <= 1 /\ Users(f) \in Nat
             /\ Users(f)' # 0 <=> Users(f) # 0 /\ f \notin fs
             /\ Lent(f)' => Lent(f)
  <2>1. Users(f)' = Users(f) - One(f \in fs)
    BY <1>2, <1>6, <1>7 DEF Users, q, One
  <2>2. Users(f) <= 1 /\ (f \in fs => Users(f) >= 1) /\ Users(f) \in Nat
    BY <1>6 DEF IInv, Owners, Users, One, q
  <2>3. Lent(f)' => Lent(f)
    BY <1>2, <1>6 DEF Lent, q
  <2> QED
    BY <2>1, <2>2, <2>3 DEF One
<1>9. Cache' /\ async_cache' \in Seq(Entry) /\ Cached(async_cache') = Cached(async_cache)
  <2>1. \A f \in Cached(async_cache) : Users(f)' # 0 <=> Users(f) # 0 /\ f \notin fs
    BY <1>8, Facts
  <2> QED
    BY <1>2, <1>3, <2>1, Marked
<1>10. Shapes'
  <2>1. Len(async_frames') <= MaxAsync
    BY <1>3, <1>4, <1>5
  <2>2. cur_async_frame' \in Frames \cup {None}
    <3>1. k # 0 => k \in 1 .. n
      BY <1>3, <1>4
    <3> QED
      BY <1>3, <1>4, <3>1
  <2> QED
    BY <1>2, <1>3, <1>5, <1>9, <2>1, <2>2 DEF IInv, Shapes
<1>11. Owners'
  <2>1. ASSUME NEW f \in Frames
        PROVE  /\ (Users(f) <= 1)' /\ (refs[f] = Claims(f))'
               /\ (Lent(f) => f \in Cached(async_cache))'
    <3>1. (Users(f) <= 1)'
      <4>1. Users(f)' <= 1
        BY <1>8 DEF One
      <4> QED
        BY <4>1 DEF Users
    <3>2. Claims(f)' = Claims(f)
      BY <1>2, <1>7, <1>9 DEF Claims
    <3>3. (refs[f] = Claims(f))'
      BY <1>2, <3>2 DEF IInv, Owners, Claims
    <3>4. (Lent(f) => f \in Cached(async_cache))'
      BY <1>8, <1>9 DEF IInv, Owners, Lent
    <3> QED
      BY <3>1, <3>3, <3>4
  <2> QED
    BY <1>2, <1>5, <2>1 DEF IInv, Owners, Picture
<1> QED
  BY <1>7, <1>9, <1>10, <1>11 DEF IInv

-----------------------------------------------------------------------------
(* cache_video.                                                            *)

LEMMA FreeEntryIs ==
  ASSUME NEW c \in Seq(Entry)
  PROVE  /\ FreeEntry(c) \in 0 .. Len(c)
         /\ FreeEntry(c) # 0 => ~c[FreeEntry(c)].used
         /\ FreeEntry(c) = 0 => \A j \in 1 .. Len(c) : c[j].used
<1> DEFINE free == {j \in DOMAIN c : ~c[j].used}
<1>1. DOMAIN c = 1 .. Len(c) /\ Len(c) \in Nat
  BY Members
<1>2. CASE free = {}
  BY <1>1, <1>2 DEF FreeEntry
<1>3. CASE free # {}
  <2>1. free \subseteq Nat /\ \A j \in free : j \in 1 .. Len(c) /\ ~c[j].used
    BY <1>1
  <2>2. FreeEntry(c) = CHOOSE j \in free : \A m \in free : j <= m
    BY <1>3 DEF FreeEntry
  <2> HIDE DEF free
  <2>3. \E j \in free : \A m \in free : j <= m
    BY <1>3, <2>1, LeastNumber
  <2>4. FreeEntry(c) \in free
    BY <2>2, <2>3
  <2>5. FreeEntry(c) \in 1 .. Len(c) /\ ~c[FreeEntry(c)].used
    BY <2>1, <2>4
  <2>6. FreeEntry(c) # 0 /\ FreeEntry(c) \in 0 .. Len(c)
    BY <1>1, <2>5
  <2> QED
    BY <2>5, <2>6
<1> QED
  BY <1>2, <1>3

\* One entry when clean_cache looks at it.
LEMMA CountedIs ==
  ASSUME NEW e \in Entry
  PROVE  LET d == IF e.used THEN e ELSE [e EXCEPT !.unused_count = @ + 1]
         IN  /\ d \in Loose /\ d.frame = e.frame /\ d.used = e.used
             /\ ~Stale(d) => d \in Entry
             /\ d.used => ~Stale(d)
<1>1. MaxUnused \in Nat \ {0}
  BY AsyncAssumption
<1>2. CASE e.used
  <2>1. /\ e = [frame |-> e.frame, used |-> e.used, unused_count |-> e.unused_count]
        /\ e.frame \in Frames /\ e.used \in BOOLEAN
        /\ e.unused_count \in 0 .. MaxUnused - 1
    BY DEF Entry
  <2>2. e.unused_count \in 0 .. MaxUnused
    BY <1>1, <2>1
  <2>3. e \in Loose
    BY <2>1, <2>2 DEF Loose
  <2> QED
    BY <1>2, <2>3 DEF Stale
<1>3. CASE ~e.used
  <2> DEFINE d == [e EXCEPT !.unused_count = @ + 1]
  <2>1. /\ d.frame = e.frame /\ d.used = e.used /\ d.frame \in Frames /\ d.used \in BOOLEAN
        /\ d.unused_count = e.unused_count + 1
        /\ d = [frame |-> d.frame, used |-> d.used, unused_count |-> d.unused_count]
    BY DEF Entry
  <2>2. e.unused_count \in 0 .. MaxUnused - 1
    BY DEF Entry
  <2>3. e.unused_count + 1 \in 0 .. MaxUnused
    BY <1>1, <2>2
  <2>4. e.unused_count + 1 # MaxUnused => e.unused_count + 1 \in 0 .. MaxUnused - 1
    BY <1>1, <2>2
  <2> HIDE DEF d
  <2>5. d \in Loose /\ (d.unused_count # MaxUnused => d \in Entry)
    BY <2>1, <2>3, <2>4 DEF Loose, Entry
  <2>6. ~d.used /\ (~Stale(d) => d \in Entry)
    BY <1>3, <2>1, <2>5 DEF Stale
  <2> QED
    BY <1>3, <2>1, <2>5, <2>6 DEF d
<1> QED
  BY <1>2, <1>3

\* What cache_video does with the cache c, whose entry i is free.
Cleaned(c, i, taken, all, cache) ==
  /\ taken = IF i = 0 THEN c
             ELSE [c EXCEPT ![i].used = TRUE, ![i].unused_count = 0]
  /\ all = Counted(taken)
  /\ cache = Passing(all, {e \in Range(all) : ~Stale(e)})

\* The first entry that is free is taken, and clean_cache ends those that were free
\* for too long: no entry that is used.
LEMMA CleanedIs ==
  ASSUME NEW c \in Seq(Entry), NEW i \in 0 .. Len(c),
         \A j, k \in DOMAIN c : c[j].frame = c[k].frame => j = k,
         NEW taken, NEW all, NEW cache, Cleaned(c, i, taken, all, cache)
  PROVE  /\ cache \in Seq(Entry) /\ Cached(all) = Cached(c)
         /\ Cached(cache) \subseteq Cached(c)
         /\ \A j, k \in DOMAIN cache : cache[j].frame = cache[k].frame => j = k
         /\ \A k \in DOMAIN cache : \E j \in 1 .. Len(c) :
              /\ cache[k].frame = c[j].frame
              /\ cache[k].used <=> c[j].used \/ j = i
         /\ \A j \in 1 .. Len(c) : c[j].used \/ j = i => c[j].frame \in Cached(cache)
<1> DEFINE n == Len(c)
           T == {e \in Range(all) : ~Stale(e)}
<1>1. n \in Nat /\ DOMAIN c = 1 .. n /\ \A j \in 1 .. n : c[j] \in Entry
  BY Members
<1>2. /\ taken \in Seq(Entry) /\ DOMAIN taken = 1 .. n
      /\ \A j \in 1 .. n : /\ taken[j] \in Entry /\ taken[j].frame = c[j].frame
                           /\ taken[j].used <=> c[j].used \/ j = i
  <2>1. CASE i = 0
    BY <1>1, <2>1 DEF Cleaned
  <2>2. CASE i # 0
    <3> DEFINE v == [c[i] EXCEPT !.used = TRUE, !.unused_count = 0]
    <3>1. i \in 1 .. n
      BY <1>1, <2>2
    <3>2. v \in Entry /\ v.frame = c[i].frame /\ v.used
      <4>1. 0 \in 0 .. MaxUnused - 1
        BY AsyncAssumption
      <4> QED
        BY <1>1, <3>1, <4>1 DEF Entry
    <3>3. taken = [c EXCEPT ![i] = v]
      BY <2>2 DEF Cleaned
    <3> HIDE DEF v
    <3>4. taken \in Seq(Entry) /\ Len(taken) = n
      BY <3>1, <3>2, <3>3, ExceptSeq
    <3>5. \A j \in 1 .. n : taken[j] = IF j = i THEN v ELSE c[j]
      BY <1>1, <3>3
    <3>6. DOMAIN taken = 1 .. n
      BY <1>1, <3>3
    <3> QED
      BY <1>1, <3>2, <3>4, <3>5, <3>6
  <2> QED
    BY <2>1, <2>2
<1>3. /\ all \in Seq(Loose) /\ Len(all) = n /\ DOMAIN all = 1 .. n
      /\ \A j \in 1 .. n : /\ all[j].frame = c[j].frame
                           /\ all[j].used <=> c[j].used \/ j = i
                           /\ ~Stale(all[j]) => all[j] \in Entry
                           /\ all[j].used => ~Stale(all[j])
  <2> DEFINE D(e) == IF e.used THEN e ELSE [e EXCEPT !.unused_count = @ + 1]
  <2>1. all = [j \in 1 .. n |-> D(taken[j])]
    BY <1>2 DEF Cleaned, Counted
  <2>2. ASSUME NEW j \in 1 .. n
        PROVE  /\ D(taken[j]) \in Loose /\ D(taken[j]).frame = taken[j].frame
               /\ D(taken[j]).used = taken[j].used
               /\ ~Stale(D(taken[j])) => D(taken[j]) \in Entry
               /\ D(taken[j]).used => ~Stale(D(taken[j]))
    <3>1. taken[j] \in Entry
      BY <1>2
    <3> QED
      BY <3>1, CountedIs
  <2> HIDE DEF D
  <2>3. /\ DOMAIN all = 1 .. n /\ \A j \in 1 .. n : all[j] = D(taken[j])
        /\ all \in Seq(Loose) /\ Len(all) = n
    <3>1. all \in Seq(Loose)
      BY <1>1, <2>1, <2>2
    <3>2. DOMAIN all = 1 .. n
      BY <2>1
    <3> QED
      BY <1>1, <2>1, <3>1, <3>2, LenProperties
  <2> QED
    BY <1>2, <2>2, <2>3
<1>4. /\ \A j \in 1 .. n : all[j] \in T <=> ~Stale(all[j])
  BY <1>3, Members
<1> HIDE DEF T
<1>5. PICK g : Places(g, cache, all, T, n)
  <2>1. \E g : Places(g, Passing(all, T), all, T, n)
    BY <1>3, PassingPlaces
  <2>2. cache = Passing(all, T)
    BY DEF Cleaned, T
  <2> QED
    BY <2>1, <2>2
<1>6. cache \in Seq(Loose)
  BY <1>3, PassingPlaces DEF Cleaned
<1> DEFINE m == Len(cache)
<1>7. m \in Nat /\ DOMAIN cache = 1 .. m
  BY <1>6, Members
<1>8. ASSUME NEW k \in 1 .. m
      PROVE  /\ g[k] \in 1 .. n /\ cache[k] = all[g[k]] /\ cache[k] \in Entry
             /\ cache[k].frame = c[g[k]].frame
             /\ cache[k].used <=> c[g[k]].used \/ g[k] = i
  <2>1. g[k] \in 1 .. n /\ cache[k] = all[g[k]] /\ all[g[k]] \in T
    BY <1>5 DEF Places
  <2> QED
    BY <1>3, <1>4, <2>1
<1>9. cache \in Seq(Entry)
  <2>1. cache = [k \in 1 .. m |-> cache[k]]
    BY <1>6, LenProperties
  <2> QED
    BY <1>7, <1>8, <2>1
<1>10. \A j, k \in 1 .. m : cache[j].frame = cache[k].frame => j = k
  <2>1. SUFFICES ASSUME NEW j \in 1 .. m, NEW k \in 1 .. m,
                        cache[j].frame = cache[k].frame
                 PROVE  j = k
    OBVIOUS
  <2>2. g[j] = g[k] /\ g[j] \in Int
    BY <1>1, <1>8, <2>1
  <2>3. ~(j < k) /\ ~(k < j)
    BY <1>5, <2>2 DEF Places
  <2> QED
    BY <1>7, <2>3
<1>11. \A k \in 1 .. m : cache[k].frame \in Cached(c)
  BY <1>1, <1>8 DEF Cached
<1>12. ASSUME NEW j \in 1 .. n, c[j].used \/ j = i PROVE c[j].frame \in Cached(cache)
  <2>1. all[j] \in T
    BY <1>3, <1>4, <1>12
  <2>2. PICK k \in 1 .. m : g[k] = j
    BY <1>5, <2>1 DEF Places
  <2> QED
    BY <1>7, <1>8, <2>2 DEF Cached
<1>13. Cached(all) = Cached(c) /\ Cached(cache) \subseteq Cached(c)
  BY <1>1, <1>3, <1>7, <1>11 DEF Cached
<1>14. \A j, k \in DOMAIN cache : cache[j].frame = cache[k].frame => j = k
  BY <1>7, <1>10
<1>15. \A k \in DOMAIN cache : \E j \in 1 .. Len(c) :
        /\ cache[k].frame = c[j].frame
        /\ cache[k].used <=> c[j].used \/ j = i
  <2>1. TAKE k \in DOMAIN cache
  <2> DEFINE j == g[k]
  <2>2. /\ j \in 1 .. n /\ cache[k].frame = c[j].frame
        /\ cache[k].used <=> c[j].used \/ j = i
    BY <1>7, <1>8
  <2> HIDE DEF j
  <2> QED
    BY <2>2
<1> QED
  BY <1>9, <1>12, <1>13, <1>14, <1>15

\* A frame of the cache or a new one: whichever it is, nobody uses it.
LEMMA CacheVideoIInv ==
  ASSUME IInv, CacheVideo
  PROVE  IInv'
<1> DEFINE size  == NextPicture.size
           fresh == TextureChanged(size)
           old   == IF fresh THEN <<>> ELSE async_cache
           i     == FreeEntry(old)
           taken == IF i = 0 THEN old
                    ELSE [old EXCEPT ![i].used = TRUE, ![i].unused_count = 0]
           all   == Counted(taken)
           cache == Passing(all, {e \in Range(all) : ~Stale(e)})
           left  == IF fresh THEN FreedCache(refs, Cached(async_cache)) ELSE refs
           gone  == Cached(all) \ Cached(cache)
           r     == Destroyed(left, gone)
           g     == IF i # 0 THEN old[i].frame ELSE CHOOSE x \in Frames : r[x] = 0
\* What the step does.
<1>1. /\ source.pc = "idle" /\ source.n < Len(stream) /\ ~Overloaded
      /\ i = 0 => \E x \in Frames : r[x] = 0
      /\ source' = [pc |-> "copy", frame |-> g, n |-> source.n + 1]
      /\ cache_size' = size
      /\ async_cache' = IF i # 0 THEN cache ELSE Append(cache, NewEntry(g))
      /\ refs' = [r EXCEPT ![g] = IF i # 0 THEN @ + 1 ELSE 2]
      /\ pic' = [pic EXCEPT ![g] = IF i # 0 THEN [@ EXCEPT !.n = 0, !.ts = 0]
                                   ELSE [n |-> 0, ts |-> 0, size |-> size]]
      /\ async_frames' = IF fresh THEN <<>> ELSE async_frames
      /\ cur_async_frame' = IF fresh THEN None ELSE cur_async_frame
      /\ UNCHANGED <<last_frame_ts, stream, graphics, filter, lost>>
  BY DEF CacheVideo, Deliverable
<1>2. /\ source.frame = None /\ None \notin Frames /\ graphics.frame \in Frames \cup {None}
      /\ source.n \in Nat /\ 0 \in 0 .. W - 1
      /\ pic \in [Frames -> [n : Nat, ts : 0 .. W - 1, size : Sizes]]
      /\ refs \in [Frames -> Int]
  <2>1. source.pc = "idle"
    BY <1>1
  <2> QED
    BY <2>1, Facts DEF IInv, Shapes, Threads
<1>3. size \in Sizes /\ source.n + 1 <= Len(stream) /\ size = stream[source.n + 1].size
  <2>1. stream \in Streams /\ stream \in Seq(Range(stream))
    BY AsyncAssumption DEF IInv, Shapes
  <2>2. source.n + 1 <= Len(stream) /\ source.n + 1 \in DOMAIN stream
    <3>1. source.n < Len(stream) /\ source.n \in Nat
      BY <1>1, <1>2
    <3>2. Len(stream) \in Nat /\ DOMAIN stream = 1 .. Len(stream)
      BY <2>1, LenProperties
    <3> QED
      BY <3>1, <3>2
  <2> QED
    BY <2>1, <2>2 DEF Sizes, NextPicture
<1> HIDE DEF size
<1>4. /\ old \in Seq(Entry) /\ Cached(old) \subseteq Frames
      /\ DOMAIN old = 1 .. Len(old) /\ Len(old) \in Nat
      /\ \A j, k \in DOMAIN old : old[j].frame = old[k].frame => j = k
      /\ \A j \in DOMAIN old :
           /\ ~fresh /\ old[j].frame \in Frames
           /\ old[j].used <=> Users(old[j].frame) # 0
           /\ pic[old[j].frame].size = size
  <2>1. CASE fresh
    BY <2>1, LenProperties, EmptySeq DEF Cached
  <2>2. CASE ~fresh
    <3>1. cache_size = size /\ old = async_cache
      BY <2>2 DEF TextureChanged
    <3>2. \A j \in DOMAIN async_cache : async_cache[j].frame \in Frames
      BY Facts DEF Cached
    <3> QED
      BY <2>2, <3>1, <3>2, Facts DEF IInv, Cache
  <2> QED
    BY <2>1, <2>2
<1> DEFINE U(f) == One(f \in Range(async_frames')) + One(cur_async_frame' = f)
                   + One(graphics.frame = f) + One(f \in Range(filter.held))
                   + One(f \in lost)
           G(f) == One(graphics.frame = f) + One(f \in Range(filter.held)) + One(f \in lost)
\* Without the cache: who has the frames, and what is said of the queue.
<1>5. ASSUME NEW f \in Frames
      PROVE  /\ U(f) \in Nat /\ U(f) <= 1 /\ G(f) \in Nat /\ G(f) <= U(f)
             /\ ~fresh => U(f) = Users(f)
             /\ left[f] = One(f \in Cached(old)) + G(f)
             /\ f \in Range(async_frames') \/ cur_async_frame' = f
                  => ~fresh /\ f \in Cached(old) /\ Users(f) # 0
             /\ U(f) = G(f) \/ f \in Range(async_frames') \/ cur_async_frame' = f
  <2>1. Users(f) <= 1 /\ refs[f] = Claims(f) /\ (Lent(f) => f \in Cached(async_cache))
    BY DEF IInv, Owners
  <2>2. CASE fresh
    <3>1. Range(async_frames') = {} /\ cur_async_frame' # f /\ Cached(old) = {}
      <4>1. async_frames' = <<>> /\ cur_async_frame' = None /\ old = <<>>
        BY <1>1, <2>2
      <4> HIDE DEF old
      <4>2. Cached(<<>>) = {}
        BY DEF Cached
      <4> QED
        BY <1>2, <4>1, <4>2, NoMembers
    <3>2. left[f] = refs[f] - One(f \in Cached(async_cache))
      BY <1>2, <2>2, DecrefIs DEF FreedCache
    <3> HIDE DEF old, left, fresh
    <3> QED
      BY <1>1, <1>2, <2>1, <2>2, <3>1, <3>2 DEF Users, Claims, One
  <2>3. CASE ~fresh
    <3>1. /\ async_frames' = async_frames /\ cur_async_frame' = cur_async_frame
          /\ left = refs /\ old = async_cache
      BY <1>1, <2>3
    <3> HIDE DEF old, left, fresh
    <3> QED
      BY <1>1, <1>2, <2>1, <2>3, <3>1 DEF Users, Claims, Lent, One
  <2> QED
    BY <2>2, <2>3
<1>6. left \in [Frames -> Int]
  <2>1. CASE fresh
    BY <1>2, <2>1, DecrefIs DEF FreedCache
  <2>2. CASE ~fresh
    BY <1>2, <2>2
  <2> QED
    BY <2>1, <2>2
\* The cache after it was cleaned.
<1>7. /\ i \in 0 .. Len(old) /\ (i # 0 => ~old[i].used)
      /\ i = 0 => \A j \in 1 .. Len(old) : old[j].used
  BY <1>4, FreeEntryIs
<1> HIDE DEF i, old, fresh, left
<1>8. /\ cache \in Seq(Entry) /\ Cached(all) = Cached(old)
      /\ Cached(cache) \subseteq Cached(old)
      /\ \A j, k \in DOMAIN cache : cache[j].frame = cache[k].frame => j = k
      /\ \A k \in DOMAIN cache : \E j \in 1 .. Len(old) :
           /\ cache[k].frame = old[j].frame
           /\ cache[k].used <=> old[j].used \/ j = i
      /\ \A j \in 1 .. Len(old) : old[j].used \/ j = i => old[j].frame \in Cached(cache)
  <2>1. /\ old \in Seq(Entry) /\ i \in 0 .. Len(old)
        /\ \A j, k \in DOMAIN old : old[j].frame = old[k].frame => j = k
    BY <1>4, <1>7
  <2>2. Cleaned(old, i, taken, all, cache)
    BY DEF Cleaned
  <2> HIDE DEF taken, all, cache
  <2> QED
    BY <2>1, <2>2, CleanedIs
<1> HIDE DEF cache, all
<1>9. ASSUME NEW f \in Frames
      PROVE  r[f] = One(f \in Cached(cache)) + G(f)
  <2>1. CASE f \in gone
    <3>1. PICK j \in 1 .. Len(old) : old[j].frame = f
      BY <1>4, <1>8, <2>1 DEF Cached
    <3>2. ~old[j].used
      BY <1>8, <2>1, <3>1
    <3>3. U(f) = 0
      BY <1>4, <1>5, <3>1, <3>2
    <3>4. G(f) = 0 /\ f \notin Cached(cache) /\ r[f] = 0
      BY <1>5, <2>1, <3>3 DEF Destroyed
    <3> HIDE DEF r
    <3> QED
      BY <3>4 DEF One
  <2>2. CASE f \notin gone
    <3>1. r[f] = left[f] /\ (f \in Cached(old) <=> f \in Cached(cache))
      BY <1>8, <2>2 DEF Destroyed
    <3> HIDE DEF r
    <3> QED
      BY <1>5, <3>1
  <2> QED
    BY <2>1, <2>2
<1>10. r \in [Frames -> Int]
  BY <1>6 DEF Destroyed
<1> HIDE DEF r, gone
\* The frame that is chosen.
<1>11. /\ g \in Frames /\ U(g) = 0 /\ G(g) = 0
       /\ IF i = 0 THEN g \notin Cached(cache)
          ELSE i \in 1 .. Len(old) /\ g = old[i].frame /\ g \in Cached(cache) /\ ~fresh
                 /\ pic[g].size = size
  <2>1. CASE i = 0
    <3>1. g \in Frames /\ r[g] = 0
      BY <1>1, <2>1
    <3>2. G(g) = 0 /\ g \notin Cached(cache)
      <4> HIDE DEF g
      <4> QED
        BY <1>5, <1>9, <3>1 DEF One
    <3>3. U(g) = 0
      <4>1. SUFFICES ASSUME g \in Range(async_frames') \/ cur_async_frame' = g PROVE FALSE
        <5> HIDE DEF g
        <5> QED
          BY <1>5, <3>1, <3>2
      <4>2. g \in Cached(old)
        <5> HIDE DEF g
        <5> QED
          BY <1>5, <3>1, <4>1
      <4>3. PICK j \in 1 .. Len(old) : old[j].frame = g
        BY <1>4, <4>2 DEF Cached
      <4>4. g \in Cached(cache)
        BY <1>7, <1>8, <2>1, <4>3
      <4> QED
        BY <3>2, <4>4
    <3> HIDE DEF g
    <3> QED
      BY <2>1, <3>1, <3>2, <3>3
  <2>2. CASE i # 0
    <3>1. i \in 1 .. Len(old) /\ g = old[i].frame /\ ~old[i].used
      BY <1>4, <1>7, <2>2
    <3> HIDE DEF g
    <3>2. g \in Frames /\ ~fresh /\ pic[g].size = size /\ Users(g) = 0
      BY <1>4, <3>1
    <3>3. U(g) = 0 /\ G(g) = 0
      BY <1>5, <3>2
    <3> QED
      BY <1>8, <2>2, <3>1, <3>2, <3>3
  <2> QED
    BY <2>1, <2>2
<1> HIDE DEF g
\* The state after the step.
<1>12. /\ source'.pc = "copy" /\ source'.frame = g /\ source'.n = source.n + 1
       /\ Picture'.size = size
  BY <1>1, <1>3 DEF Picture
<1>13. /\ pic' \in [Frames -> [n : Nat, ts : 0 .. W - 1, size : Sizes]]
       /\ pic'[g].size = size /\ \A f \in Frames : f # g => pic'[f].size = pic[f].size
  <2> DEFINE v == IF i # 0 THEN [pic[g] EXCEPT !.n = 0, !.ts = 0]
                  ELSE [n |-> 0, ts |-> 0, size |-> size]
  <2>1. v \in [n : Nat, ts : 0 .. W - 1, size : Sizes] /\ v.size = size
    <3>1. CASE i = 0
      BY <1>2, <1>3, <3>1
    <3>2. CASE i # 0
      <4>1. pic[g] \in [n : Nat, ts : 0 .. W - 1, size : Sizes] /\ pic[g].size = size
        BY <1>2, <1>11, <3>2
      <4> QED
        BY <1>2, <3>2, <4>1, PicIs
    <3> QED
      BY <3>1, <3>2
  <2>2. pic' = [pic EXCEPT ![g] = v]
    BY <1>1
  <2> HIDE DEF v
  <2> QED
    BY <1>2, <1>11, <2>1, <2>2
<1>14. /\ refs' \in [Frames -> Int]
       /\ \A f \in Frames : refs'[f] = IF f = g THEN 2 ELSE r[f]
  <2>1. i # 0 => r[g] + 1 = 2
    BY <1>9, <1>11 DEF One
  <2>2. refs' = [r EXCEPT ![g] = 2]
    BY <1>1, <2>1
  <2> QED
    BY <1>10, <1>11, <2>2
<1>15. /\ \A f : f \in Cached(async_cache') <=> f \in Cached(cache) \/ f = g
       /\ async_cache' \in Seq(Entry)
       /\ \A j, k \in DOMAIN async_cache' :
            async_cache'[j].frame = async_cache'[k].frame => j = k
       /\ \A k \in DOMAIN async_cache' :
            \/ async_cache'[k].frame = g /\ async_cache'[k].used
            \/ \E j \in 1 .. Len(old) : /\ async_cache'[k].frame = old[j].frame
                                        /\ async_cache'[k].used <=> old[j].used \/ j = i
  <2>1. CASE i # 0
    <3>1. async_cache' = cache /\ g \in Cached(cache)
      BY <1>1, <1>11, <2>1
    <3> QED
      BY <1>8, <3>1
  <2>2. CASE i = 0
    <3> DEFINE m == Len(cache)
               e == NewEntry(g)
    <3>1. /\ async_cache' = Append(cache, e) /\ g \notin Cached(cache)
          /\ e \in Entry /\ e.frame = g /\ e.used
      BY <1>1, <1>11, <2>2, AsyncAssumption DEF NewEntry, Entry
    <3> HIDE DEF e
    <3>2. m \in Nat /\ DOMAIN cache = 1 .. m
      BY <1>8, Members
    <3>3. /\ async_cache' \in Seq(Entry) /\ Len(async_cache') = m + 1
          /\ async_cache'[m + 1] = e /\ \A k \in 1 .. m : async_cache'[k] = cache[k]
      BY <1>8, <3>1, AppendProperties
    <3>4. DOMAIN async_cache' = 1 .. m + 1
      BY <3>3, Members
    <3>5. /\ \A k \in 1 .. m + 1 : k \in 1 .. m \/ k = m + 1
          /\ \A k \in 1 .. m : k \in 1 .. m + 1
          /\ m + 1 \in 1 .. m + 1
      BY <3>2
    <3>6. \A k \in 1 .. m : cache[k].frame # g
      BY <3>1, <3>2 DEF Cached
    <3> HIDE DEF m
    <3>7. \A f : f \in Cached(async_cache') <=> f \in Cached(cache) \/ f = g
      BY <3>1, <3>2, <3>3, <3>4, <3>5 DEF Cached
    <3>8. \A j, k \in 1 .. m + 1 : async_cache'[j].frame = async_cache'[k].frame => j = k
      BY <1>8, <3>1, <3>2, <3>3, <3>5, <3>6
    <3>9. \A k \in 1 .. m + 1 :
            \/ async_cache'[k].frame = g /\ async_cache'[k].used
            \/ \E j \in 1 .. Len(old) : /\ async_cache'[k].frame = old[j].frame
                                        /\ async_cache'[k].used <=> old[j].used \/ j = i
      BY <1>8, <3>1, <3>2, <3>3, <3>5
    <3> QED
      BY <3>3, <3>4, <3>7, <3>8, <3>9
  <2> QED
    BY <2>1, <2>2
<1>16. ASSUME NEW f \in Frames
       PROVE  /\ Users(f)' = U(f) + One(f = g)
              /\ Claims(f)' = One(f \in Cached(async_cache')) + One(f = g) + G(f)
              /\ Lent(f)' <=> f \in Range(async_frames') \/ cur_async_frame' = f
  BY <1>1, <1>12, <1>16 DEF Users, Claims, Lent, One
<1> HIDE DEF U, G
<1>17. Threads'
  <2>1. Len(async_frames') < MaxAsync
    <3>1. Len(async_frames) \in Nat /\ MaxAsync \in Nat \ {0} /\ Len(<<>>) = 0
      BY Facts, AsyncAssumption, LenProperties
    <3>2. Len(async_frames) < MaxAsync
      BY <1>1, <3>1 DEF Overloaded
    <3> QED
      BY <1>1, <3>1, <3>2
  <2>2. source' \in [pc : {"idle", "copy", "push"}, frame : Frames \cup {None}, n : Nat]
    BY <1>1, <1>2, <1>11
  <2>3. source'.frame # None /\ source'.n # 0 /\ source'.n <= Len(stream')
    BY <1>1, <1>2, <1>3, <1>11, <1>12
  <2> QED
    BY <1>1, <1>12, <2>1, <2>2, <2>3 DEF IInv, Threads
<1>18. Shapes'
  <2>1. async_frames' \in Seq(Frames) /\ Len(async_frames') <= MaxAsync
    <3>1. 0 <= MaxAsync /\ Len(<<>>) = 0
      BY AsyncAssumption
    <3> QED
      BY <1>1, <3>1 DEF IInv, Shapes
  <2>2. cur_async_frame' \in Frames \cup {None}
    BY <1>1 DEF IInv, Shapes
  <2> QED
    BY <1>1, <1>13, <1>14, <1>15, <2>1, <2>2 DEF IInv, Shapes
<1>19. Cache'
  <2>1. ASSUME NEW k \in DOMAIN async_cache', NEW f, f = async_cache'[k].frame
        PROVE  (async_cache'[k].used <=> Users(f)' # 0) /\ pic'[f].size = size
    <3>1. CASE f = g /\ async_cache'[k].used
      BY <1>11, <1>13, <1>16, <3>1 DEF One
    <3>2. CASE \E j \in 1 .. Len(old) : /\ f = old[j].frame
                                        /\ async_cache'[k].used <=> old[j].used \/ j = i
      <4>1. PICK j \in 1 .. Len(old) : /\ f = old[j].frame
                                       /\ async_cache'[k].used <=> old[j].used \/ j = i
        BY <3>2
      <4>2. /\ f \in Frames /\ pic[f].size = size /\ ~fresh
            /\ old[j].used <=> U(f) # 0
        BY <1>4, <1>5, <4>1
      <4>3. f = g <=> j = i \/ (i = 0 /\ f = g)
        BY <1>4, <1>11, <4>1
      <4>4. i = 0 => f # g
        BY <1>7, <1>8, <1>11, <4>1
      <4>5. pic'[f].size = size
        BY <1>13, <4>2
      <4> QED
        BY <1>5, <1>16, <4>1, <4>2, <4>3, <4>4, <4>5 DEF One
    <3> QED
      BY <1>15, <2>1, <3>1, <3>2
  <2>2. ASSUME NEW k \in DOMAIN async_cache', NEW f, f = async_cache'[k].frame
        PROVE  /\ (async_cache[k].used <=> Users(async_cache[k].frame) # 0)'
               /\ pic'[async_cache'[k].frame].size = cache_size'
    <3>1. (async_cache'[k].used <=> Users(f)' # 0) /\ pic'[f].size = size
      BY <2>1, <2>2
    <3> QED
      BY <1>1, <2>2, <3>1 DEF Users
  <2>3. \A k \in DOMAIN async_cache' :
          /\ (async_cache[k].used <=> Users(async_cache[k].frame) # 0)'
          /\ pic'[async_cache'[k].frame].size = cache_size'
    BY <2>2
  <2> QED
    BY <1>15, <2>3 DEF Cache
<1>20. Owners'
  <2>1. ASSUME NEW f \in Frames
        PROVE  /\ (Users(f) <= 1)' /\ (refs[f] = Claims(f))'
               /\ (Lent(f) => f \in Cached(async_cache))'
    <3>1. (Users(f) <= 1)'
      <4>1. Users(f)' <= 1
        BY <1>5, <1>11, <1>16 DEF One
      <4> QED
        BY <4>1 DEF Users
    <3>2. (refs[f] = Claims(f))'
      <4>1. refs'[f] = Claims(f)'
        BY <1>9, <1>11, <1>14, <1>15, <1>16 DEF One
      <4> QED
        BY <4>1 DEF Claims
    <3>3. (Lent(f) => f \in Cached(async_cache))'
      <4>1. SUFFICES ASSUME Lent(f)' PROVE f \in Cached(async_cache')
        BY DEF Lent
      <4>2. ~fresh /\ f \in Cached(old) /\ Users(f) # 0
        BY <1>5, <1>16, <4>1
      <4>3. PICK j \in 1 .. Len(old) : old[j].frame = f
        BY <1>4, <4>2 DEF Cached
      <4> QED
        BY <1>4, <1>8, <1>15, <4>2, <4>3
    <3> QED
      BY <3>1, <3>2, <3>3
  <2>2. IsInjective(async_frames') /\ IsInjective(filter'.held)
    BY <1>1, NoMembers DEF IInv, Owners
  <2>3. source'.pc = "copy" => pic'[source'.frame].size = Picture'.size
    BY <1>12, <1>13
  <2> QED
    BY <2>1, <2>2, <2>3 DEF Owners
<1> QED
  BY <1>17, <1>18, <1>19, <1>20 DEF IInv

-----------------------------------------------------------------------------
(* What the invariant says of the whole.                                   *)

LEMMA InitIInv == Init => IInv
<1> SUFFICES ASSUME Init PROVE IInv
  OBVIOUS
<1>1. /\ async_cache = <<>> /\ async_frames = <<>> /\ cur_async_frame = None
      /\ last_frame_ts = 0 /\ refs = [f \in Frames |-> 0]
      /\ pic = [f \in Frames |-> [n |-> 0, ts |-> 0, size |-> None]]
      /\ stream \in Streams /\ lost = {}
      /\ source = [pc |-> "idle", frame |-> None, n |-> 0]
      /\ graphics = [pc |-> "tick", frame |-> None]
      /\ filter = [on |-> FALSE, held |-> <<>>, reached |-> FALSE, reset |-> TRUE,
                   last_ts |-> 0]
  BY DEF Init, NewFilter, NoPicture
<1>2. /\ 0 \in 0 .. W - 1 /\ None \notin Frames /\ 0 <= MaxAsync /\ Len(stream) \in Nat
  <2>1. stream \in Seq(Range(stream))
    BY <1>1, AsyncAssumption
  <2> QED
    BY <2>1, AsyncAssumption, LenProperties
<1>3. /\ Cached(<<>>) = {} /\ Range(<<>>) = {} /\ IsInjective(<<>>) /\ DOMAIN <<>> = {}
      /\ Len(<<>>) = 0
  BY NoMembers DEF Cached
<1>4. Shapes
  BY <1>1, <1>2, <1>3 DEF Shapes, Sizes
<1>5. Threads
  BY <1>1, <1>2 DEF Threads
<1>6. Cache
  BY <1>1, <1>3 DEF Cache
<1>7. ASSUME NEW f \in Frames PROVE Users(f) = 0 /\ Claims(f) = 0 /\ ~Lent(f)
  BY <1>1, <1>2, <1>3, <1>7 DEF Users, Claims, Lent, One
<1>8. Owners
  BY <1>1, <1>3, <1>7 DEF Owners
<1> QED
  BY <1>4, <1>5, <1>6, <1>8 DEF IInv

LEMMA NextIInv == IInv /\ [Next]_vars => IInv'
<1> SUFFICES ASSUME IInv, [Next]_vars PROVE IInv'
  OBVIOUS
<1>1. CASE DropPicture
  BY <1>1, DropPictureIInv
<1>2. CASE CacheVideo
  BY <1>2, CacheVideoIInv
<1>3. CASE EndCopy
  BY <1>3, EndCopyIInv
<1>4. CASE PushFrame
  BY <1>4, PushFrameIInv
<1>5. CASE VideoTick
  BY <1>5, VideoTickIInv
<1>6. CASE NotRendered \/ SetFlags \/ AddFilter \/ RemoveFilter
  BY <1>6, QuietIInv
<1>7. CASE GetFrame
  BY <1>7, GetFrameIInv
<1>8. CASE FilterFree \/ FilterRemoved
  BY <1>8, FilterFreeIInv
<1>9. CASE FilterVideo
  BY <1>9, FilterVideoIInv
<1>10. CASE Upload
  BY <1>10, UploadIInv
<1>11. CASE UploadFails
  BY <1>11, UploadFailsIInv
<1>12. CASE UNCHANGED vars
  <2>1. /\ UNCHANGED <<queue, memory, stream, source, graphics, filter, lost>>
    BY <1>12 DEF vars
  <2>2. UNCHANGED async_frames
    BY <2>1 DEF queue
  <2>3. Threads' /\ IsInjective(filter'.held) /\ lost' \subseteq Frames
    BY <2>1, <2>2 DEF IInv, Threads, Owners, Shapes
  <2>4. \A f \in Frames :
          One(graphics'.frame = f) + One(f \in Range(filter'.held)) + One(f \in lost')
            = One(graphics.frame = f) + One(f \in Range(filter.held)) + One(f \in lost)
    BY <2>1
  <2> QED
    BY <2>1, <2>3, <2>4, Moved
<1> QED
  BY <1>1, <1>2, <1>3, <1>4, <1>5, <1>6, <1>7, <1>8, <1>9, <1>10, <1>11, <1>12
     DEF Next, Deliver, Render, User

\* In every reachable state a frame has one user at most, is marked as used in the
\* cache exactly while it has one, and has as many references as it has claims.
THEOREM FramesConsistent == Spec => []IInv
<1>1. Init => IInv
  BY InitIInv
<1>2. IInv /\ [Next]_vars => IInv'
  BY NextIInv
<1> QED
  BY <1>1, <1>2, PTL DEF Spec

\* The types, with the bounds: two references of a frame at most, a queue of
\* MAX_ASYNC_FRAMES at most.
THEOREM TypeCorrect == Spec => []TypeOK
<1>1. ASSUME IInv PROVE TypeOK
  <2>1. refs \in [Frames -> 0 .. 2]
    <3>1. refs \in [Frames -> Int]
      BY <1>1 DEF IInv, Shapes
    <3>2. ASSUME NEW f \in Frames PROVE refs[f] \in 0 .. 2
      <4>1. refs[f] = Claims(f) /\ Users(f) <= 1
        BY <1>1 DEF IInv, Owners
      <4> QED
        BY <4>1 DEF Claims, Users, One
    <3> QED
      BY <3>1, <3>2
  <2>2. async_cache \in Seq([frame : Frames, used : BOOLEAN,
                             unused_count : 0 .. (MaxUnused - 1)])
    BY <1>1 DEF IInv, Shapes, Entry
  <2>3. /\ source.pc \in {"idle", "copy", "push"}
        /\ graphics.pc \in {"tick", "render", "filter", "upload"}
        /\ filter.held \in Seq(Frames)
    BY <1>1 DEF IInv, Threads
  <2>4. /\ (source.pc = "idle") = (source.frame = None)
        /\ (graphics.pc \in {"filter", "upload"}) = (graphics.frame # None)
    BY <1>1 DEF IInv, Threads
  <2> QED
    BY <1>1, <2>1, <2>2, <2>3, <2>4 DEF IInv, Shapes, TypeOK
<1> QED
  BY <1>1, FramesConsistent, PTL

\* Two sequences without repetition, one after the other.
LEMMA Joined ==
  ASSUME NEW S, NEW s \in Seq(S), NEW t \in Seq(S)
  PROVE  /\ s \o t \in Seq(S)
         /\ \A y : y \in Range(s \o t) <=> y \in Range(s) \/ y \in Range(t)
         /\ IsInjective(s) /\ IsInjective(t) /\ (\A y \in Range(s) : y \notin Range(t))
              => IsInjective(s \o t)
<1> DEFINE m == Len(s)
           n == Len(t)
           q == s \o t
<1>1. /\ m \in Nat /\ n \in Nat /\ DOMAIN s = 1 .. m /\ DOMAIN t = 1 .. n
      /\ \A i \in 1 .. m : s[i] \in Range(s)
      /\ \A i \in 1 .. n : t[i] \in Range(t)
  BY Members
<1>2. /\ q \in Seq(S) /\ Len(q) = m + n
      /\ \A i \in 1 .. m + n : q[i] = IF i <= m THEN s[i] ELSE t[i - m]
  BY ConcatProperties
<1> HIDE DEF q, m, n
<1>3. DOMAIN q = 1 .. m + n
  BY <1>2, Members
<1>4. /\ \A i \in 1 .. m + n : IF i <= m THEN i \in 1 .. m ELSE i - m \in 1 .. n
      /\ \A i \in 1 .. m : i \in 1 .. m + n /\ i <= m
      /\ \A i \in 1 .. n : i + m \in 1 .. m + n /\ ~(i + m <= m) /\ (i + m) - m = i
  BY <1>1
<1>5. ASSUME NEW y PROVE y \in Range(q) <=> y \in Range(s) \/ y \in Range(t)
  <2>1. /\ y \in Range(q) <=> \E i \in 1 .. m + n : q[i] = y
        /\ y \in Range(s) <=> \E i \in 1 .. m : s[i] = y
        /\ y \in Range(t) <=> \E i \in 1 .. n : t[i] = y
    BY <1>1, <1>3 DEF Range
  <2>2. ASSUME NEW i \in 1 .. m, s[i] = y PROVE y \in Range(q)
    BY <1>2, <1>4, <2>1, <2>2
  <2>3. ASSUME NEW i \in 1 .. n, t[i] = y PROVE y \in Range(q)
    <3>1. i + m \in 1 .. m + n /\ q[i + m] = y
      BY <1>2, <1>4, <2>3
    <3> QED
      BY <2>1, <3>1
  <2>4. ASSUME NEW i \in 1 .. m + n, q[i] = y PROVE y \in Range(s) \/ y \in Range(t)
    BY <1>1, <1>2, <1>4, <2>4
  <2> QED
    BY <2>1, <2>2, <2>3, <2>4
<1>6. ASSUME IsInjective(s), IsInjective(t), \A y \in Range(s) : y \notin Range(t)
      PROVE  IsInjective(q)
  <2>1. SUFFICES ASSUME NEW i \in 1 .. m + n, NEW j \in 1 .. m + n, q[i] = q[j]
                 PROVE  i = j
    BY <1>3 DEF IsInjective
  <2>2. CASE i <= m /\ j <= m
    BY <1>1, <1>2, <1>4, <1>6, <2>1, <2>2 DEF IsInjective
  <2>3. CASE ~(i <= m) /\ ~(j <= m)
    <3>1. i - m = j - m
      BY <1>1, <1>2, <1>4, <1>6, <2>1, <2>3 DEF IsInjective
    <3> QED
      BY <1>1, <3>1
  <2>4. CASE (i <= m) # (j <= m)
    BY <1>1, <1>2, <1>4, <1>6, <2>1, <2>4
  <2> QED
    BY <2>2, <2>3, <2>4
<1> QED
  BY <1>2, <1>5, <1>6 DEF q

LEMMA KnownIs ==
  ASSUME NEW f \in Frames \cup {None}
  PROVE  /\ Known(f) \in Seq(Frames) /\ IsInjective(Known(f))
         /\ \A y : y \in Range(Known(f)) <=> y = f /\ f # None
<1>1. CASE f = None
  BY <1>1, NoMembers DEF Known
<1>2. CASE f # None
  <2>1. Known(f) = <<f>> /\ f \in Frames
    BY <1>2 DEF Known
  <2>2. <<f>> \in Seq(Frames) /\ DOMAIN <<f>> = {1} /\ <<f>>[1] = f
    BY <2>1
  <2> QED
    BY <1>2, <2>1, <2>2 DEF Range, IsInjective
<1> QED
  BY <1>1, <1>2

\* A set whose members are all the same.
LEMMA CountIs ==
  ASSUME NEW I, \A i, j \in I : i = j
  PROVE  Cardinality(I) = One(I # {})
<1>1. CASE I = {}
  BY <1>1, FS_EmptySet DEF One
<1>2. CASE I # {}
  <2>1. PICK i \in I : TRUE
    BY <1>2
  <2>2. I = {i}
    BY <2>1
  <2> QED
    BY <1>2, <2>2, FS_Singleton DEF One
<1> QED
  BY <1>1, <1>2

\* Who uses a frame, as FramesOwned says it.
LEMMA InUseIs ==
  ASSUME IInv
  PROVE  /\ IsInjective(InUse)
         /\ \A f : f \in Range(InUse) <=>
              \/ f # None /\ (f = source.frame \/ f = cur_async_frame \/ f = graphics.frame)
              \/ f \in Range(async_frames) \/ f \in Range(filter.held)
<1> DEFINE a == Known(source.frame)
           b == async_frames
           c == Known(cur_async_frame)
           d == Known(graphics.frame)
           e == filter.held
<1>1. /\ a \in Seq(Frames) /\ IsInjective(a)
      /\ \A y : y \in Range(a) <=> y = source.frame /\ source.frame # None
  BY Facts, KnownIs
<1>2. /\ c \in Seq(Frames) /\ IsInjective(c)
      /\ \A y : y \in Range(c) <=> y = cur_async_frame /\ cur_async_frame # None
  <2>1. cur_async_frame \in Frames \cup {None}
    BY DEF IInv, Shapes
  <2> QED
    BY <2>1, KnownIs
<1>3. /\ d \in Seq(Frames) /\ IsInjective(d)
      /\ \A y : y \in Range(d) <=> y = graphics.frame /\ graphics.frame # None
  BY Facts, KnownIs
<1>4. /\ b \in Seq(Frames) /\ IsInjective(b) /\ e \in Seq(Frames) /\ IsInjective(e)
      /\ Range(b) \subseteq Frames /\ Range(e) \subseteq Frames
  BY Facts DEF IInv, Owners
<1>5. ASSUME NEW f \in Frames
      PROVE  /\ ~(source.frame = f /\ f \in Range(b))
             /\ ~((source.frame = f \/ f \in Range(b)) /\ cur_async_frame = f)
             /\ ~((source.frame = f \/ f \in Range(b) \/ cur_async_frame = f)
                    /\ graphics.frame = f)
             /\ ~((source.frame = f \/ f \in Range(b) \/ cur_async_frame = f
                    \/ graphics.frame = f) /\ f \in Range(e))
  BY DEF IInv, Owners, Users, One
<1>6. source.frame \in Frames \cup {None} /\ Range(a) \subseteq Frames
      /\ Range(c) \subseteq Frames /\ Range(d) \subseteq Frames
  <2>1. Range(a) \subseteq Frames /\ Range(c) \subseteq Frames /\ Range(d) \subseteq Frames
    BY <1>1, <1>2, <1>3, Members
  <2> QED
    BY <2>1, Facts
<1> HIDE DEF a, b, c, d, e
<1> DEFINE ab   == a \o b
           abc  == ab \o c
           abcd == abc \o d
           all  == abcd \o e
<1>7. /\ ab \in Seq(Frames) /\ IsInjective(ab)
      /\ \A y : y \in Range(ab) <=> y \in Range(a) \/ y \in Range(b)
  <2>1. \A y \in Range(a) : y \notin Range(b)
    BY <1>1, <1>5, <1>6
  <2> QED
    BY <1>1, <1>4, <2>1, Joined
<1> HIDE DEF ab
<1>8. /\ abc \in Seq(Frames) /\ IsInjective(abc)
      /\ \A y : y \in Range(abc) <=> y \in Range(ab) \/ y \in Range(c)
  <2>1. \A y \in Range(ab) : y \notin Range(c)
    BY <1>1, <1>2, <1>5, <1>6, <1>7
  <2> QED
    BY <1>2, <1>7, <2>1, Joined
<1> HIDE DEF abc
<1>9. /\ abcd \in Seq(Frames) /\ IsInjective(abcd)
      /\ \A y : y \in Range(abcd) <=> y \in Range(abc) \/ y \in Range(d)
  <2>1. \A y \in Range(abc) : y \notin Range(d)
    BY <1>1, <1>2, <1>3, <1>5, <1>6, <1>7, <1>8
  <2> QED
    BY <1>3, <1>8, <2>1, Joined
<1> HIDE DEF abcd
<1>10. /\ IsInjective(all)
       /\ \A y : y \in Range(all) <=> y \in Range(abcd) \/ y \in Range(e)
  <2>1. \A y \in Range(abcd) : y \notin Range(e)
    BY <1>1, <1>2, <1>3, <1>4, <1>5, <1>7, <1>8, <1>9
  <2> QED
    BY <1>4, <1>9, <2>1, Joined
<1>11. InUse = all
  BY DEF InUse, all, abcd, abc, ab, a, b, c, d, e
<1> HIDE DEF all
<1>12. \A f : f \in Range(InUse) <=> f \in Range(a) \/ f \in Range(b) \/ f \in Range(c)
                                     \/ f \in Range(d) \/ f \in Range(e)
  BY <1>7, <1>8, <1>9, <1>10, <1>11
<1> QED
  BY <1>1, <1>2, <1>3, <1>10, <1>11, <1>12 DEF b, e

LEMMA BorrowedIs ==
  ASSUME IInv
  PROVE  Range(Borrowed) \subseteq Cached(async_cache)
<1> DEFINE a == IF source.pc = "push" THEN Known(source.frame) ELSE <<>>
           c == Known(cur_async_frame)
<1>1. /\ a \in Seq(Frames)
      /\ \A y : y \in Range(a) => y = source.frame /\ y # None /\ source.pc = "push"
  <2>1. CASE source.pc = "push"
    BY <2>1, Facts, KnownIs
  <2>2. CASE source.pc # "push"
    BY <2>2, NoMembers
  <2> QED
    BY <2>1, <2>2
<1>2. /\ c \in Seq(Frames)
      /\ \A y : y \in Range(c) => y = cur_async_frame /\ y # None
  <2>1. cur_async_frame \in Frames \cup {None}
    BY DEF IInv, Shapes
  <2> QED
    BY <2>1, KnownIs
<1>3. async_frames \in Seq(Frames)
  BY Facts
<1> HIDE DEF a, c
<1>4. /\ a \o async_frames \in Seq(Frames)
      /\ \A y : y \in Range(a \o async_frames) <=> y \in Range(a) \/ y \in Range(async_frames)
  BY <1>1, <1>3, Joined
<1>5. /\ a \o async_frames \o c \in Seq(Frames)
      /\ \A y : y \in Range(a \o async_frames \o c)
                  <=> y \in Range(a \o async_frames) \/ y \in Range(c)
  BY <1>2, <1>4, Joined
<1>6. Borrowed = a \o async_frames \o c
  BY DEF Borrowed, a, c
<1>7. ASSUME NEW f \in Range(Borrowed) PROVE f \in Cached(async_cache)
  <2>1. Lent(f)
    BY <1>1, <1>2, <1>4, <1>5, <1>6 DEF Lent
  <2>2. f \in Frames
    BY <1>5, <1>6, Members
  <2> QED
    BY <2>1, <2>2 DEF IInv, Owners
<1> QED
  BY <1>7

\* The references of a frame, counted over cache and filter.
LEMMA OwedIs ==
  ASSUME IInv, NEW f \in Frames
  PROVE  Owed(f) = Claims(f)
<1> DEFINE I == {i \in DOMAIN async_cache : async_cache[i].frame = f}
           J == {i \in DOMAIN filter.held : filter.held[i] = f}
<1>1. Cardinality(I) = One(f \in Cached(async_cache))
  <2>1. \A i, j \in I : i = j
    BY DEF IInv, Cache
  <2>2. I # {} <=> f \in Cached(async_cache)
    BY DEF Cached
  <2> HIDE DEF I
  <2> QED
    BY <2>1, <2>2, CountIs DEF One
<1>2. Cardinality(J) = One(f \in Range(filter.held))
  <2>1. \A i, j \in J : i = j
    BY DEF IInv, Owners, IsInjective
  <2>2. J # {} <=> f \in Range(filter.held)
    BY DEF Range
  <2> HIDE DEF J
  <2> QED
    BY <2>1, <2>2, CountIs DEF One
<1>3. Owed(f) = Cardinality(I) + One(source.pc = "copy" /\ source.frame = f)
                + One(graphics.frame = f) + Cardinality(J) + One(f \in lost)
  BY DEF Owed, One
<1> HIDE DEF I, J
<1> QED
  BY <1>1, <1>2, <1>3 DEF Claims

\* No picture is copied over another one in use or into freed memory: whoever the
\* users of the frames are, each frame has one at most, and its references are those
\* that will be given back.
THEOREM FramesOwnedHolds == Spec => []FramesOwned
<1>1. ASSUME IInv PROVE FramesOwned
  <2>1. \A f \in Frames : refs[f] = Owed(f)
    BY <1>1, OwedIs DEF IInv, Owners
  <2>2. ASSUME NEW x \in Range(async_cache)
        PROVE  x.used = (x.frame \in Range(InUse) \cup lost)
    <3>1. PICK i \in DOMAIN async_cache : async_cache[i] = x
      BY <2>2 DEF Range
    <3> DEFINE f == x.frame
    <3>2. x \in Entry /\ f \in Frames /\ None \notin Frames
      BY <1>1, <3>1, Facts DEF Entry
    <3>3. x.used <=> Users(f) # 0
      BY <1>1, <3>1 DEF IInv, Cache
    <3> HIDE DEF f
    <3>4. f \in Range(InUse) <=>
              \/ f = source.frame \/ f = cur_async_frame \/ f = graphics.frame
              \/ f \in Range(async_frames) \/ f \in Range(filter.held)
      BY <1>1, <3>2, InUseIs
    <3>5. Users(f) # 0 <=> f \in Range(InUse) \/ f \in lost
      BY <3>4 DEF Users, One
    <3>6. x.used <=> f \in Range(InUse) \cup lost
      BY <3>3, <3>5
    <3>7. x.used \in BOOLEAN
      BY <3>2 DEF Entry
    <3> QED
      BY <3>6, <3>7 DEF f
  <2>3. source.pc = "copy" => pic[source.frame].size = Picture.size
    BY <1>1 DEF IInv, Owners
  <2> QED
    BY <1>1, <2>1, <2>2, <2>3, InUseIs, BorrowedIs DEF FramesOwned
<1> QED
  BY <1>1, FramesConsistent, PTL


-----------------------------------------------------------------------------
(* What is on time.                                                        *)

\* While time stamps are steady the loop keeps the play time it begins with.
LEMMA SteadyTime ==
  ASSUME IInv, NEW elapsed \in Ticks, Steady(async_frames)
  PROVE  \A i \in 1 .. Len(async_frames) :
           PlayTime(last_frame_ts, elapsed)[i] = (last_frame_ts + elapsed) % W
<1> DEFINE n     == Len(async_frames)
           t     == PlayTime(last_frame_ts, elapsed)
           first == (last_frame_ts + elapsed) % W
           N     == {i \in Nat : i \in 1 .. n => t[i] = first}
<1>1. /\ n \in Nat /\ (n # 0 => t[1] = first)
      /\ \A i \in 2 .. n : \/ Minus(Stamp(async_frames[i]), Stamp(async_frames[i - 1])) > MaxTsVar
                           \/ t[i] = t[i - 1]
  BY PlayTimeIs, Facts, Members
<1>2. \A i \in 1 .. n : Stamp(async_frames[i]) \in 0 .. W - 1
  BY Facts, Members DEF IInv, Shapes, Stamp
<1>3. ASSUME NEW i \in 2 .. n PROVE t[i] = t[i - 1]
  <2>1. i \in 1 .. n /\ i - 1 \in 1 .. n /\ i - 1 \in 1 .. n - 1 /\ (i - 1) + 1 = i
    BY <1>1
  <2> DEFINE a == Stamp(async_frames[i])  b == Stamp(async_frames[i - 1])
  <2>2. a \in 0 .. W - 1 /\ b \in 0 .. W - 1 /\ a - b \in 0 .. MaxTsVar
    BY <1>2, <2>1 DEF Steady
  <2>3. W \in Nat /\ W > 0 /\ MaxTsVar \in Nat
    BY AsyncAssumption
  <2>4. Minus(a, b) <= MaxTsVar /\ Minus(a, b) \in Int
    <3> HIDE DEF a, b
    <3>1. a - b \in 0 .. W - 1
      BY <2>2, <2>3
    <3>2. (a - b) % W = a - b
      BY <2>3, <3>1
    <3> QED
      BY <2>2, <2>3, <3>2 DEF Minus
  <2>5. ~(Minus(a, b) > MaxTsVar)
    <3> DEFINE m == Minus(a, b)
    <3>1. m <= MaxTsVar /\ m \in Int
      BY <2>4
    <3> HIDE DEF m
    <3>2. ~(m > MaxTsVar)
      BY <2>3, <3>1
    <3> QED
      BY <3>2 DEF m
  <2> QED
    BY <1>1, <2>5
<1> HIDE DEF t, first, n
<1>4. \A i \in Nat : i \in N
  <2>1. 0 \in N
    OBVIOUS
  <2>2. ASSUME NEW i \in Nat, i \in N PROVE i + 1 \in N
    <3>1. CASE i = 0
      BY <1>1, <3>1
    <3>2. CASE i # 0
      <4>1. i + 1 \in 1 .. n => i + 1 \in 2 .. n /\ i \in 1 .. n /\ (i + 1) - 1 = i
        BY <3>2, <1>1
      <4> QED
        BY <1>3, <2>2, <4>1
    <3> QED
      BY <3>1, <3>2
  <2> HIDE DEF N
  <2> QED
    BY <2>1, <2>2, Induction
<1> QED
  BY <1>1, <1>4 DEF t, first, n

\* What a tick takes when time stamps are steady: what is left is not due, and what is
\* taken is the first frame or one that the play time reaches in this tick.
LEMMA TickTakes ==
  ASSUME IInv, NEW elapsed \in Ticks, Steady(async_frames), ~unbuffered,
         NEW k, k = Taken(elapsed).count, NEW last, last = Taken(elapsed).last
  PROVE  /\ k < Len(async_frames) => ~Due(last, Stamp(async_frames[k + 1]))
         /\ k > 1 => Stamp(async_frames[k]) + Near <= last_frame_ts + elapsed
<1> DEFINE n    == Len(async_frames)
           ts(i) == Stamp(async_frames[i])
           t    == PlayTime(last_frame_ts, elapsed)
           c    == CountDue(t)
           now  == (last_frame_ts + elapsed) % W
           due  == {j \in 0 .. n : \A i \in 1 .. j : Due(t[i], ts(i))}
<1>1. /\ n \in Nat /\ last_frame_ts \in Nat /\ elapsed \in Nat /\ W \in Nat /\ W > 0
      /\ Near \in Nat /\ k \in 0 .. n
  BY Facts, Members, TakenIs, AsyncAssumption DEF IInv, Shapes
<1>2. \A i \in 1 .. n : t[i] = now
  BY SteadyTime
<1>3. /\ now \in Nat /\ now <= last_frame_ts + elapsed
      /\ \A i \in 1 .. n : ts(i) \in Nat
  <2>1. \A i \in 1 .. n : ts(i) \in 0 .. W - 1
    BY Facts, Members DEF IInv, Shapes, Stamp
  <2> DEFINE a == last_frame_ts + elapsed
  <2>2. a \in Nat
    BY <1>1
  <2>3. a % W \in Nat /\ a % W <= a
    <3> HIDE DEF a
    <3> QED
      BY <1>1, <2>2
  <2> QED
    BY <2>1, <2>3
<1> HIDE DEF t, ts, now
<1>4. c \in due /\ \A j \in due : j <= c
  <2>1. due \subseteq Nat /\ 0 \in due /\ \A j \in due : j <= n
    BY <1>1
  <2>2. CountDue(t) = CHOOSE j \in due : \A x \in due : x <= j
    BY DEF CountDue, ts
  <2> HIDE DEF due
  <2>3. \E j \in due : \A x \in due : x <= j
    BY <1>1, <2>1, GreatestNumber
  <2> QED
    BY <2>2, <2>3
<1> HIDE DEF c
<1>5. c < n => ~Due(t[c + 1], ts(c + 1))
  <2> SUFFICES ASSUME c < n, Due(t[c + 1], ts(c + 1)) PROVE FALSE
    OBVIOUS
  <2>1. c \in Nat /\ c + 1 \in 0 .. n /\ \A i \in 1 .. c + 1 : i \in 1 .. c \/ i = c + 1
    BY <1>1, <1>4
  <2>2. c + 1 \in due
    BY <1>4, <2>1
  <2>3. c + 1 <= c
    BY <1>4, <2>2
  <2> QED
    BY <2>1, <2>3
<1>6. c > 1 => ts(c) + Near <= last_frame_ts + elapsed
  <2> SUFFICES ASSUME c > 1 PROVE ts(c) + Near <= last_frame_ts + elapsed
    OBVIOUS
  <2>1. c \in 1 .. c /\ c \in 1 .. n
    BY <1>1, <1>4
  <2>2. Due(now, ts(c))
    BY <1>2, <1>4, <2>1
  <2> DEFINE x == ts(c)
  <2>3. x \in Nat /\ now - x >= Near
    BY <1>3, <2>1, <2>2 DEF Due
  <2> HIDE DEF x
  <2>4. x + Near <= last_frame_ts + elapsed
    BY <1>1, <1>3, <2>3
  <2> QED
    BY <2>4 DEF x
<1> DEFINE result ==
        CASE n = 0                            -> [count |-> 0, last |-> last_frame_ts]
        [] n # 0 /\ last_frame_ts = 0       -> [count |-> 1, last |-> ts(1)]
        [] n # 0 /\ last_frame_ts # 0 /\ unbuffered
                                            -> [count |-> n, last |-> last_frame_ts]
        [] n # 0 /\ last_frame_ts # 0 /\ ~unbuffered
             /\ OutOfBounds(last_frame_ts, ts(1))
                                            -> [count |-> 1, last |-> ts(1)]
        [] OTHER -> [count |-> c, last |-> IF c = n THEN t[n] ELSE t[c + 1]]
<1>7. Taken(elapsed) = result
  BY DEF Taken, t, c, ts
<1>8. \/ k = 0 /\ n = 0
      \/ k = 1 /\ n # 0 /\ last = ts(1)
      \/ k = c /\ (c # n => last = t[c + 1])
  <2>1. CASE n = 0
    BY <1>7, <2>1
  <2>2. CASE n # 0 /\ last_frame_ts = 0
    BY <1>7, <2>2
  <2>3. CASE n # 0 /\ last_frame_ts # 0 /\ ~unbuffered /\ OutOfBounds(last_frame_ts, ts(1))
    BY <1>7, <2>3
  <2>4. CASE n # 0 /\ last_frame_ts # 0 /\ ~unbuffered /\ ~OutOfBounds(last_frame_ts, ts(1))
    BY <1>7, <2>4
  <2> QED
    BY <2>1, <2>2, <2>3, <2>4
<1> HIDE DEF result
<1>9. CASE k = 0 /\ n = 0
  BY <1>9, <1>1 DEF n
<1>10. CASE k = 1 /\ n # 0 /\ last = ts(1)
  <2>1. ASSUME 1 < n PROVE ts(2) - ts(1) \in Nat
    <3>1. 1 \in 1 .. n - 1 /\ 1 + 1 = 2
      BY <1>1, <2>1
    <3> QED
      BY <3>1, AsyncAssumption DEF Steady, ts
  <2>2. 1 < n => ~Due(ts(1), ts(2))
    <3> SUFFICES ASSUME 1 < n PROVE ~Due(ts(1), ts(2))
      OBVIOUS
    <3> DEFINE x == ts(1)  y == ts(2)
    <3>1. x \in Nat /\ y \in Nat /\ y - x \in Nat
      BY <1>1, <1>3, <2>1
    <3> HIDE DEF x, y
    <3>2. ~(x > y)
      BY <3>1
    <3> QED
      BY <3>2 DEF Due, x, y
  <2> QED
    BY <1>10, <2>2 DEF n, ts
<1>11. CASE k = c /\ (c # n => last = t[c + 1])
  <2>1. c < n => c # n
    BY <1>1, <1>4
  <2> QED
    BY <1>5, <1>6, <1>11, <2>1 DEF n, ts
<1> QED
  BY <1>8, <1>9, <1>10, <1>11

-----------------------------------------------------------------------------
(* In which order pictures are shown.                                      *)

\* Pictures are numbered as they are delivered.
No(f) == pic[f].n

\* The frames that a tick has still to take or has just taken, those that the filter
\* keeps or the graphics thread has in hand, and those that may be shown.
Held   == Range(filter.held)
InHand == {graphics.frame} \ {None}
Coming == Range(async_frames) \cup ({cur_async_frame} \ {None})
Going  == Held \cup InHand
ToShow == Coming \cup InHand \cup {f \in Held : filter.on}

\* The pictures of s come one after the other.
Rising(s, p) == \A i, j \in 1 .. Len(s) : i < j => p[s[i]].n < p[s[j]].n

\* What is shown comes before what is to be shown, in the order of the ways through the
\* queue and the filter; what is delivered comes last.
Ordered ==
  /\ shown \in Nat /\ shown <= source.n /\ (source.pc # "idle" => shown < source.n)
  /\ Rising(async_frames, pic) /\ Rising(filter.held, pic)
  /\ cur_async_frame # None =>
       \A f \in Range(async_frames) : No(cur_async_frame) < No(f)
  /\ \A f \in Going, g \in Coming : No(f) < No(g)
  /\ graphics.pc = "filter" =>
       filter.on /\ \A f \in Held : No(f) < No(graphics.frame)
  /\ graphics.pc = "upload" /\ filter.on =>
       \A f \in Held : No(graphics.frame) < No(f)
  /\ \A f \in ToShow : shown < No(f)
  /\ \A f \in Going \cup Coming :
       No(f) <= source.n /\ (source.pc # "idle" => No(f) < source.n)
  /\ source.pc = "push" => No(source.frame) = source.n

LEMMA RisingAppended ==
  ASSUME NEW s \in Seq(Frames), NEW p, Rising(s, p), NEW x \in Frames,
         \A y \in Range(s) : p[y].n < p[x].n
  PROVE  Rising(Append(s, x), p)
<1> DEFINE r == Append(s, x)
           n == Len(s)
<1>1. /\ n \in Nat /\ Len(r) = n + 1 /\ r[n + 1] = x
      /\ \A i \in 1 .. n : r[i] = s[i] /\ s[i] \in Range(s)
  BY AppendProperties, Members
<1> SUFFICES ASSUME NEW i \in 1 .. Len(r), NEW j \in 1 .. Len(r), i < j
             PROVE  p[r[i]].n < p[r[j]].n
  BY DEF Rising
<1>2. i \in 1 .. n /\ (j \in 1 .. n \/ j = n + 1)
  BY <1>1
<1>3. CASE j \in 1 .. n
  <2>1. p[s[i]].n < p[s[j]].n
    BY <1>2, <1>3 DEF Rising
  <2> QED
    BY <1>1, <1>2, <1>3, <2>1
<1>4. CASE j = n + 1
  BY <1>1, <1>2, <1>4
<1> QED
  BY <1>2, <1>3, <1>4

\* What is left of a queue when k frames have left it.
LEMMA RisingLeft ==
  ASSUME NEW s \in Seq(Frames), NEW p, Rising(s, p), NEW k \in 0 .. Len(s)
  PROVE  LET q == SubSeq(s, k + 1, Len(s))
         IN  /\ Rising(q, p) /\ Range(q) \subseteq Range(s)
             /\ k # 0 => s[k] \in Range(s) /\ \A y \in Range(q) : p[s[k]].n < p[y].n
<1> DEFINE q == SubSeq(s, k + 1, Len(s))
           n == Len(s)
<1>1. /\ n \in Nat /\ q \in Seq(Frames) /\ Len(q) = n - k
      /\ \A i \in 1 .. n - k : q[i] = s[k + i]
  BY Dropped, Members, SubSeqProperties
<1>2. \A i \in 1 .. n - k : k + i \in 1 .. n /\ (k # 0 => k \in 1 .. n /\ k < k + i)
  BY <1>1
<1>3. Rising(q, p)
  <2> SUFFICES ASSUME NEW i \in 1 .. Len(q), NEW j \in 1 .. Len(q), i < j
               PROVE  p[q[i]].n < p[q[j]].n
    BY DEF Rising
  <2>1. k + i < k + j /\ k + i \in 1 .. n /\ k + j \in 1 .. n
    BY <1>1, <1>2
  <2>2. p[s[k + i]].n < p[s[k + j]].n
    BY <2>1 DEF Rising
  <2> QED
    BY <1>1, <2>2
<1>4. ASSUME NEW y \in Range(q)
      PROVE  y \in Range(s) /\ (k # 0 => p[s[k]].n < p[y].n)
  <2>1. PICK i \in 1 .. n - k : q[i] = y
    <3>1. \E i \in 1 .. Len(q) : q[i] = y
      <4> HIDE DEF q
      <4> QED
        BY <1>1, Members
    <3> QED
      BY <1>1, <3>1
  <2>2. y = s[k + i] /\ k + i \in 1 .. n
    BY <1>1, <1>2, <2>1
  <2>3. k # 0 => p[s[k]].n < p[s[k + i]].n
    BY <1>2, <2>1, <2>2 DEF Rising
  <2> QED
    BY <2>2, <2>3, Members
<1>5. k # 0 => s[k] \in Range(s)
  <2>1. k # 0 => k \in 1 .. n
    BY <1>1
  <2> QED
    BY <2>1, Members
<1> QED
  BY <1>3, <1>4, <1>5

\* The same when the first one has left.
LEMMA RisingTail ==
  ASSUME NEW s \in Seq(Frames), s # <<>>, NEW p, Rising(s, p)
  PROVE  /\ Rising(Tail(s), p) /\ Range(Tail(s)) \subseteq Range(s)
         /\ s[1] = Head(s) /\ s[1] \in Range(s)
         /\ \A y \in Range(Tail(s)) : p[s[1]].n < p[y].n
<1>1. 1 \in 0 .. Len(s) /\ Tail(s) = SubSeq(s, 1 + 1, Len(s))
  BY EmptySeq, LenProperties, HeadTailProperties
<1>2. Head(s) = s[1]
  BY HeadTailProperties
<1> DEFINE q == SubSeq(s, 1 + 1, Len(s))
<1>3. /\ Rising(q, p) /\ Range(q) \subseteq Range(s)
      /\ s[1] \in Range(s) /\ \A y \in Range(q) : p[s[1]].n < p[y].n
  BY <1>1, RisingLeft
<1> HIDE DEF q
<1>4. Tail(s) = q
  BY <1>1 DEF q
<1> QED
  BY <1>2, <1>3, <1>4

\* Nothing changes for frames whose pictures stay.
LEMMA RisingStays ==
  ASSUME NEW s \in Seq(Frames), NEW p, NEW r, Rising(s, p),
         \A y \in Range(s) : r[y].n = p[y].n
  PROVE  Rising(s, r)
<1>1. \A i \in 1 .. Len(s) : s[i] \in Range(s)
  BY Members
<1> QED
  BY <1>1 DEF Rising

LEMMA OrderTypes ==
  ASSUME IInv
  PROVE  /\ Held \subseteq Frames /\ Range(async_frames) \subseteq Frames
         /\ Going \subseteq Frames /\ Coming \subseteq Frames
         /\ \A f \in Frames : No(f) \in Nat
         /\ source.n \in Nat /\ None \notin Frames
         /\ filter.held \in Seq(Frames) /\ async_frames \in Seq(Frames)
<1>1. Held \subseteq Frames /\ Range(async_frames) \subseteq Frames
  BY Facts DEF Held
<1>2. Going \subseteq Frames /\ Coming \subseteq Frames
  BY <1>1, Facts DEF Going, Coming, InHand, IInv, Shapes
<1> QED
  BY <1>1, <1>2, Facts DEF IInv, Shapes, Threads, No

\* What the source fills belongs to nobody else.
LEMMA Apart ==
  ASSUME IInv, source.frame # None
  PROVE  source.frame \in Frames /\ source.frame \notin Going \cup Coming
<1>1. source.frame \in Frames /\ Users(source.frame) <= 1
  BY Facts DEF IInv, Owners
<1>2. /\ source.frame \notin Range(async_frames) /\ cur_async_frame # source.frame
      /\ graphics.frame # source.frame /\ source.frame \notin Range(filter.held)
  BY <1>1 DEF Users, One
<1> QED
  BY <1>1, <1>2 DEF Going, Coming, Held, InHand

LEMMA FilledApart ==
  ASSUME IInv', source'.frame # None
  PROVE  source'.frame \in Frames /\ source'.frame \notin (Going \cup Coming)'
<1>1. source'.frame \in Frames /\ Users(source.frame)' <= 1
  BY AsyncAssumption DEF IInv, Threads, Owners
<1>2. /\ source'.frame \notin Range(async_frames') /\ cur_async_frame' # source'.frame
      /\ graphics'.frame # source'.frame /\ source'.frame \notin Range(filter'.held)
  BY <1>1 DEF Users, One
<1> QED
  BY <1>1, <1>2 DEF Going, Coming, Held, InHand

LEMMA NotRenderedOrder == ASSUME IInv, Ordered, NotRendered PROVE Ordered'
<1>1. /\ graphics.pc = "render" /\ graphics' = [graphics EXCEPT !.pc = "tick"]
      /\ UNCHANGED <<async_frames, cur_async_frame, pic, source, filter, shown>>
  BY DEF NotRendered, queue, memory
<1>2. graphics'.pc = "tick" /\ graphics'.frame = graphics.frame
  BY <1>1 DEF IInv, Threads
<1> QED
  BY <1>1, <1>2 DEF Ordered, Going, Coming, Held, InHand, ToShow, No

LEMMA UserOrder ==
  ASSUME IInv, Ordered, SetFlags \/ AddFilter \/ RemoveFilter PROVE Ordered'
<1>1. UNCHANGED <<async_frames, cur_async_frame, pic, source, graphics, shown>>
  BY DEF SetFlags, AddFilter, RemoveFilter, queue, memory
<1>2. \/ filter' = filter
      \/ filter'.held = filter.held /\ Held = {} /\ graphics.pc # "filter"
      \/ filter'.held = filter.held /\ ~filter'.on /\ graphics.pc # "filter"
  BY DEF SetFlags, AddFilter, RemoveFilter, NewFilter, IInv, Threads, Held, Range
<1> QED
  BY <1>1, <1>2 DEF Ordered, Going, Coming, Held, InHand, ToShow, No

LEMMA UploadFailsOrder == ASSUME IInv, Ordered, UploadFails PROVE Ordered'
<1>1. /\ graphics' = [pc |-> "tick", frame |-> None]
      /\ UNCHANGED <<async_frames, cur_async_frame, pic, source, filter, shown>>
  BY DEF UploadFails, queue, memory
<1>2. graphics'.pc = "tick" /\ InHand' = {} /\ Held' = Held /\ Coming' = Coming
  BY <1>1 DEF InHand, Held, Coming
<1> QED
  BY <1>1, <1>2 DEF Ordered, Going, ToShow, No

LEMMA DropPictureOrder == ASSUME IInv, Ordered, DropPicture PROVE Ordered'
<1>1. /\ source.pc = "idle" /\ source' = [source EXCEPT !.n = @ + 1]
      /\ async_frames' = <<>> /\ cur_async_frame' = None
      /\ UNCHANGED <<pic, graphics, filter, shown>>
  BY DEF DropPicture, Deliverable
<1>2. source'.pc = "idle" /\ source'.n = source.n + 1
  BY <1>1 DEF IInv, Threads
<1>3. /\ Coming' = {} /\ Held' = Held /\ InHand' = InHand /\ Rising(async_frames', pic')
      /\ Range(async_frames') = {}
  BY <1>1 DEF Coming, Held, InHand, Rising, Range
<1>4. \A f \in Going : No(f) <= source.n + 1
  BY OrderTypes DEF Ordered
<1>5. shown \in Nat /\ shown <= source.n + 1
  BY OrderTypes DEF Ordered
<1> QED
  BY <1>1, <1>2, <1>3, <1>4, <1>5 DEF Ordered, Going, ToShow, No

\* The picture that is delivered next comes after all others, and its frame is nobody's.
LEMMA CacheVideoOrder == ASSUME IInv, IInv', Ordered, CacheVideo PROVE Ordered'
<1> DEFINE f == source'.frame
<1>1. /\ source.pc = "idle" /\ source'.pc = "copy" /\ source'.n = source.n + 1
      /\ async_frames' = async_frames \/ async_frames' = <<>>
      /\ cur_async_frame' = cur_async_frame \/ cur_async_frame' = None
      /\ UNCHANGED <<graphics, filter, shown>>
      /\ \A g \in Frames \ {f} : pic'[g] = pic[g]
  <2> DEFINE size  == NextPicture.size
             fresh == TextureChanged(size)
             old   == IF fresh THEN <<>> ELSE async_cache
             i     == FreeEntry(old)
             new   == IF i # 0 THEN [pic[f] EXCEPT !.n = 0, !.ts = 0]
                      ELSE [n |-> 0, ts |-> 0, size |-> size]
  <2>1. /\ source.pc = "idle" /\ source'.pc = "copy" /\ source'.n = source.n + 1
        /\ pic' = [pic EXCEPT ![f] = new]
        /\ async_frames' = IF fresh THEN <<>> ELSE async_frames
        /\ cur_async_frame' = IF fresh THEN None ELSE cur_async_frame
        /\ UNCHANGED <<graphics, filter, shown>>
    BY DEF CacheVideo, Deliverable
  <2> HIDE DEF fresh, new, f
  <2>2. pic \in [Frames -> [n : Nat, ts : 0 .. W - 1, size : Sizes]]
    BY DEF IInv, Shapes
  <2> QED
    BY <2>1, <2>2
<1>2. f # None /\ f \notin (Going \cup Coming)'
  <2>1. f # None
    BY <1>1 DEF IInv, Threads
  <2> QED
    BY <2>1, FilledApart
<1>3. /\ Held' = Held /\ InHand' = InHand /\ Coming' \subseteq Coming
      /\ Range(async_frames') \subseteq Range(async_frames)
      /\ Range(async_frames') \subseteq Coming' /\ Held \subseteq Going'
      /\ InHand \subseteq Going' /\ Going' = Going
      /\ cur_async_frame' # None =>
           cur_async_frame' \in Coming' /\ cur_async_frame' = cur_async_frame
      /\ graphics.frame # None => graphics.frame \in InHand
  BY <1>1 DEF Held, InHand, Coming, Going, Range
<1>4. \A g \in Going' \cup Coming' : No(g)' = No(g) /\ g \in Going \cup Coming
  BY <1>1, <1>2, <1>3, OrderTypes DEF No
<1>5. /\ \A g \in Going \cup Coming : No(g) < source.n + 1
      /\ shown \in Nat /\ shown < source.n + 1
  BY OrderTypes DEF Ordered
<1>6. Rising(async_frames', pic') /\ Rising(filter'.held, pic')
  <2>1. Rising(<<>>, pic')
    BY DEF Rising
  <2>2. ASSUME async_frames' = async_frames PROVE Rising(async_frames, pic')
    <3>1. \A g \in Range(async_frames) : pic'[g].n = pic[g].n
      BY <1>3, <1>4, <2>2 DEF No
    <3> QED
      BY <3>1, OrderTypes, RisingStays DEF Ordered
  <2>3. \A g \in Range(filter.held) : pic'[g].n = pic[g].n
    BY <1>3, <1>4 DEF No, Held
  <2>4. Rising(filter.held, pic')
    BY <2>3, OrderTypes, RisingStays DEF Ordered
  <2> QED
    BY <1>1, <2>1, <2>2, <2>4
<1>7. ToShow' \subseteq ToShow /\ ToShow' \subseteq Going' \cup Coming'
  BY <1>1, <1>3 DEF ToShow, Going
<1>8. graphics.pc \in {"filter", "upload"} => graphics.frame \in InHand
  BY DEF IInv, Threads, InHand
<1> HIDE DEF f
<1>9. /\ cur_async_frame' # None =>
          \A g \in Range(async_frames') : No(cur_async_frame)' < No(g)'
      /\ \A g \in Going', h \in Coming' : No(g)' < No(h)'
  <2>1. \A g \in Going, h \in Coming : No(g) < No(h)
    BY DEF Ordered
  <2>2. cur_async_frame # None => \A g \in Range(async_frames) : No(cur_async_frame) < No(g)
    BY DEF Ordered
  <2> QED
    BY <1>3, <1>4, <2>1, <2>2 DEF No
<1>10. /\ graphics'.pc = "filter" =>
           filter'.on /\ \A g \in Held' : No(g)' < No(graphics.frame)'
       /\ graphics'.pc = "upload" /\ filter'.on =>
            \A g \in Held' : No(graphics.frame)' < No(g)'
  <2>1. \A g \in Held \cup InHand : No(g)' = No(g)
    BY <1>3, <1>4
  <2> QED
    BY <1>1, <1>3, <1>8, <2>1 DEF Ordered, No
<1>11. /\ \A g \in ToShow' : shown' < No(g)'
       /\ \A g \in (Going \cup Coming)' : No(g)' < source'.n
       /\ shown' \in Nat /\ shown' < source'.n
  BY <1>1, <1>4, <1>5, <1>7 DEF Ordered
<1>12. /\ shown' <= source'.n
       /\ \A g \in (Going \cup Coming)' : No(g)' <= source'.n
  BY <1>1, <1>3, <1>4, <1>5, <1>11, OrderTypes DEF No
<1> QED
  BY <1>1, <1>6, <1>9, <1>10, <1>11, <1>12 DEF Ordered

LEMMA EndCopyOrder == ASSUME IInv, Ordered, EndCopy PROVE Ordered'
<1> DEFINE f == source.frame
<1>1. /\ source.pc = "copy" /\ source'.n = source.n
      /\ \/ source'.pc = "idle"
         \/ source'.pc = "push" /\ source'.frame = f
      /\ UNCHANGED <<async_frames, cur_async_frame, graphics, filter, shown>>
      /\ \A g \in Frames \ {f} : pic'[g] = pic[g]
  BY DEF EndCopy, queue, IInv, Threads, Shapes
<1>2. f \in Frames /\ f \notin Going \cup Coming
  BY <1>1, Apart DEF IInv, Threads
<1>3. pic'[f].n = source.n
  BY <1>1, <1>2 DEF EndCopy, IInv, Shapes
<1>4. /\ Held' = Held /\ InHand' = InHand /\ Coming' = Coming /\ Going' = Going
      /\ ToShow' = ToShow /\ ToShow \subseteq Going \cup Coming
      /\ Range(async_frames) \subseteq Coming /\ Held \subseteq Going /\ InHand \subseteq Going
      /\ cur_async_frame # None => cur_async_frame \in Coming
  BY <1>1 DEF Held, InHand, Coming, Going, ToShow
<1>5. \A g \in Going \cup Coming : No(g)' = No(g)
  BY <1>1, <1>2, OrderTypes DEF No
<1>6. Rising(async_frames, pic') /\ Rising(filter.held, pic')
  <2>1. /\ \A g \in Range(async_frames) : pic'[g].n = pic[g].n
        /\ \A g \in Range(filter.held) : pic'[g].n = pic[g].n
    BY <1>4, <1>5 DEF No, Held
  <2> QED
    BY <2>1, OrderTypes, RisingStays DEF Ordered
<1>7. graphics.pc \in {"filter", "upload"} => graphics.frame \in InHand
  BY DEF IInv, Threads, InHand
<1>8. source'.pc = "push" => pic'[source'.frame].n = source'.n
  BY <1>1, <1>3
<1> HIDE DEF f
<1>9. /\ cur_async_frame' # None =>
          \A g \in Range(async_frames') : No(cur_async_frame)' < No(g)'
      /\ \A g \in Going', h \in Coming' : No(g)' < No(h)'
  BY <1>1, <1>4, <1>5 DEF Ordered
<1>10. /\ graphics'.pc = "filter" =>
           filter'.on /\ \A g \in Held' : No(g)' < No(graphics.frame)'
       /\ graphics'.pc = "upload" /\ filter'.on =>
            \A g \in Held' : No(graphics.frame)' < No(g)'
  BY <1>1, <1>4, <1>5, <1>7 DEF Ordered
<1>11. /\ \A g \in ToShow' : shown' < No(g)'
       /\ \A g \in (Going \cup Coming)' :
            No(g)' <= source'.n /\ (source'.pc # "idle" => No(g)' < source'.n)
       /\ shown' \in Nat /\ shown' <= source'.n /\ (source'.pc # "idle" => shown' < source'.n)
  BY <1>1, <1>4, <1>5 DEF Ordered
<1> QED
  BY <1>6, <1>8, <1>9, <1>10, <1>11, <1>1 DEF Ordered, No

LEMMA PushFrameOrder == ASSUME IInv, Ordered, PushFrame PROVE Ordered'
<1> DEFINE f == source.frame
<1>1. /\ source.pc = "push" /\ source'.pc = "idle" /\ source'.n = source.n
      /\ async_frames' = Append(async_frames, f)
      /\ UNCHANGED <<cur_async_frame, graphics, filter, pic, shown>>
  BY DEF PushFrame, memory, IInv, Threads
<1>2. f \in Frames /\ f # None
  BY <1>1, Facts DEF IInv, Threads
<1>3. /\ \A g : g \in Range(async_frames') <=> g \in Range(async_frames) \/ g = f
  BY <1>1, <1>2, OrderTypes, Added
<1>4. No(f) = source.n /\ \A g \in Going \cup Coming : No(g) < No(f)
  BY <1>1 DEF Ordered
<1>5. /\ Held' = Held /\ InHand' = InHand /\ Going' = Going /\ Coming' = Coming \cup {f}
      /\ ToShow' = ToShow \cup {f}
      /\ Range(async_frames) \subseteq Coming
      /\ cur_async_frame # None => cur_async_frame \in Coming
  BY <1>1, <1>3 DEF Held, InHand, Going, Coming, ToShow
<1>6. \A g : No(g)' = No(g)
  BY <1>1 DEF No
<1>7. Rising(async_frames', pic')
  <2>1. \A g \in Range(async_frames) : pic[g].n < pic[f].n
    BY <1>4, <1>5 DEF No
  <2> QED
    BY <1>1, <1>2, <2>1, OrderTypes, RisingAppended DEF Ordered
<1>8. \A g \in Going \cup Coming \cup {f} : No(g) <= source.n
  BY <1>2, <1>4, OrderTypes DEF Ordered
<1> HIDE DEF f
<1>9. /\ cur_async_frame' # None =>
          \A g \in Range(async_frames') : No(cur_async_frame)' < No(g)'
      /\ \A g \in Going', h \in Coming' : No(g)' < No(h)'
      /\ \A g \in ToShow' : shown' < No(g)'
  <2>1. shown < No(f)
    BY <1>1, <1>4 DEF Ordered
  <2>2. \A g \in Range(async_frames') : g \in Range(async_frames) \/ g = f
    BY <1>3
  <2>3. \A g \in Going, h \in Coming : No(g) < No(h)
    BY DEF Ordered
  <2>4. cur_async_frame # None => \A g \in Range(async_frames) : No(cur_async_frame) < No(g)
    BY DEF Ordered
  <2>5. \A g \in ToShow : shown < No(g)
    BY DEF Ordered
  <2> QED
    BY <1>1, <1>4, <1>5, <1>6, <2>1, <2>2, <2>3, <2>4, <2>5
<1>10. /\ graphics'.pc = "filter" =>
           filter'.on /\ \A g \in Held' : No(g)' < No(graphics.frame)'
       /\ graphics'.pc = "upload" /\ filter'.on =>
            \A g \in Held' : No(graphics.frame)' < No(g)'
  BY <1>1, <1>5, <1>6 DEF Ordered, No
<1>11. \A g \in (Going \cup Coming)' : No(g)' <= source'.n
  BY <1>1, <1>5, <1>6, <1>8
<1> QED
  BY <1>1, <1>7, <1>9, <1>10, <1>11 DEF Ordered

\* A tick takes frames from the head of the queue, the last of them to be shown.
LEMMA VideoTickOrder == ASSUME IInv, Ordered, VideoTick PROVE Ordered'
<1>1. PICK elapsed \in Ticks :
        /\ cur_async_frame' = IF Taken(elapsed).count = 0 THEN None
                              ELSE async_frames[Taken(elapsed).count]
        /\ async_frames' = SubSeq(async_frames, Taken(elapsed).count + 1, Len(async_frames))
  BY DEF VideoTick
<1>2. /\ graphics'.pc = "render" /\ graphics'.frame = graphics.frame
      /\ UNCHANGED <<pic, source, filter, shown>>
  BY DEF VideoTick, memory, IInv, Threads
<1> DEFINE k == Taken(elapsed).count
<1>3. k \in 0 .. Len(async_frames)
  BY TakenIs
<1> HIDE DEF k
<1>4. /\ cur_async_frame' = IF k = 0 THEN None ELSE async_frames[k]
      /\ async_frames' = SubSeq(async_frames, k + 1, Len(async_frames))
  BY <1>1 DEF k
<1>5. /\ Rising(async_frames', pic) /\ Range(async_frames') \subseteq Range(async_frames)
      /\ k # 0 => /\ async_frames[k] \in Range(async_frames)
                  /\ \A y \in Range(async_frames') : pic[async_frames[k]].n < pic[y].n
  <2> DEFINE q == SubSeq(async_frames, k + 1, Len(async_frames))
  <2>1. /\ Rising(q, pic) /\ Range(q) \subseteq Range(async_frames)
        /\ k # 0 => /\ async_frames[k] \in Range(async_frames)
                    /\ \A y \in Range(q) : pic[async_frames[k]].n < pic[y].n
    BY <1>3, OrderTypes, RisingLeft DEF Ordered
  <2> HIDE DEF q
  <2>2. async_frames' = q
    BY <1>4 DEF q
  <2> QED
    BY <2>1, <2>2
<1>6. cur_async_frame' # None =>
        /\ cur_async_frame' \in Range(async_frames)
        /\ \A g \in Range(async_frames') : No(cur_async_frame)' < No(g)'
  BY <1>2, <1>4, <1>5 DEF No
<1>7. /\ Held' = Held /\ InHand' = InHand /\ Going' = Going /\ Coming' \subseteq Coming
      /\ ToShow' \subseteq ToShow
  BY <1>2, <1>5, <1>6 DEF Held, InHand, Going, Coming, ToShow
<1> QED
  BY <1>2, <1>5, <1>6, <1>7 DEF Ordered, No

\* The current frame comes after those the filter keeps and before those that wait.
LEMMA GetFrameOrder == ASSUME IInv, Ordered, GetFrame PROVE Ordered'
<1>1. /\ graphics.pc = "render" /\ cur_async_frame' = None /\ graphics.frame = None
      /\ UNCHANGED <<async_frames, pic, source, filter, shown>>
      /\ None \notin Frames
  BY Facts DEF GetFrame, IInv, Threads
<1>2. CASE cur_async_frame = None
  <2>1. graphics'.pc = "tick" /\ graphics'.frame = None
    BY <1>1, <1>2 DEF GetFrame, IInv, Threads
  <2>2. Held' = Held /\ InHand' = InHand /\ Coming' = Coming
    BY <1>1, <1>2, <2>1 DEF Held, InHand, Coming
  <2> QED
    BY <1>1, <2>1, <2>2 DEF Ordered, Going, ToShow, No
<1>3. CASE cur_async_frame # None
  <2> DEFINE f == cur_async_frame
  <2>1. /\ graphics'.frame = f
        /\ graphics'.pc = IF filter.on THEN "filter" ELSE "upload"
    BY <1>1, <1>3 DEF GetFrame
  <2>2. /\ Held' = Held /\ InHand = {} /\ InHand' = {f} /\ f \in Coming
        /\ Coming' = Range(async_frames) /\ Coming' \subseteq Coming
        /\ Going' = Held \cup {f} /\ Going = Held
    BY <1>1, <1>3, <2>1 DEF Held, InHand, Coming, Going
  <2>3. ToShow' \subseteq ToShow
    BY <1>1, <2>2 DEF ToShow
  <2>4. /\ \A g \in Range(async_frames) : No(f) < No(g)
        /\ \A g \in Held, h \in Coming : No(g) < No(h)
    BY <1>3, <2>2 DEF Ordered
  <2>5. \A g : No(g)' = No(g)
    BY <1>1 DEF No
  <2>6. /\ \A g \in Going', h \in Coming' : No(g)' < No(h)'
        /\ \A g \in Held' : No(g)' < No(f)
    BY <2>2, <2>4, <2>5
  <2>7. /\ graphics'.pc = "filter" =>
             filter'.on /\ \A g \in Held' : No(g)' < No(graphics.frame)'
        /\ ~(graphics'.pc = "upload" /\ filter'.on)
    BY <1>1, <2>1, <2>5, <2>6 DEF No
  <2>8. \A g \in ToShow' : shown' < No(g)'
    BY <1>1, <2>3, <2>5 DEF Ordered
  <2>9. \A g \in (Going \cup Coming)' :
          No(g)' <= source'.n /\ (source'.pc # "idle" => No(g)' < source'.n)
    BY <1>1, <2>2, <2>5 DEF Ordered
  <2>10. /\ shown' \in Nat /\ shown' <= source'.n /\ (source'.pc # "idle" => shown' < source'.n)
         /\ Rising(async_frames', pic') /\ Rising(filter'.held, pic')
         /\ source'.pc = "push" => No(source.frame)' = source'.n
    BY <1>1 DEF Ordered, No
  <2> HIDE DEF f
  <2> QED
    BY <1>1, <2>6, <2>7, <2>8, <2>9, <2>10 DEF Ordered, No
<1> QED
  BY <1>2, <1>3

\* The oldest frame of the filter goes; the others stay in their order.
LEMMA FilterFreeOrder == ASSUME IInv, Ordered, FilterFree \/ FilterRemoved PROVE Ordered'
<1>1. /\ filter.held # <<>> /\ filter'.held = Tail(filter.held) /\ filter'.on = filter.on
      /\ UNCHANGED <<async_frames, cur_async_frame, pic, source, graphics, shown>>
  BY DEF FilterFree, FilterRemoved, IInv, Threads
<1>2. Rising(filter'.held, pic) /\ Held' \subseteq Held
  BY <1>1, OrderTypes, RisingTail DEF Ordered, Held
<1>3. /\ InHand' = InHand /\ Coming' = Coming /\ Going' \subseteq Going
      /\ ToShow' \subseteq ToShow
  BY <1>1, <1>2 DEF InHand, Coming, Going, ToShow
<1> QED
  BY <1>1, <1>2, <1>3 DEF Ordered, No

\* The frame in hand is the newest; the oldest goes on if the delay is reached.
LEMMA FilterVideoOrder == ASSUME IInv, Ordered, FilterVideo PROVE Ordered'
<1> DEFINE f    == graphics.frame
           held == Append(filter.held, f)
<1>1. /\ graphics.pc = "filter" /\ filter'.on = filter.on
      /\ \/ /\ filter'.held = held
            /\ graphics'.pc = "tick" /\ graphics'.frame = None
         \/ /\ filter'.held = Tail(held)
            /\ graphics'.pc = "upload" /\ graphics'.frame = held[1]
      /\ UNCHANGED <<async_frames, cur_async_frame, pic, source, shown>>
  BY DEF FilterVideo, queue, memory, IInv, Threads
<1>2. f \in Frames /\ f # None /\ None \notin Frames /\ InHand = {f}
  BY <1>1, Facts DEF IInv, Threads, InHand
<1>3. /\ held \in Seq(Frames) /\ Len(held) = Len(filter.held) + 1
      /\ \A g : g \in Range(held) <=> g \in Held \/ g = f
  BY <1>2, OrderTypes, Added DEF Held
<1>4. held # <<>>
  <2>1. Len(filter.held) \in Nat
    BY OrderTypes, LenProperties
  <2> HIDE DEF held
  <2> QED
    BY <1>3, <2>1, EmptySeq
<1>5. filter.on /\ \A g \in Held : No(g) < No(f)
  BY <1>1 DEF Ordered
<1>6. Rising(held, pic)
  BY <1>2, <1>5, OrderTypes, RisingAppended DEF Ordered, Held, No
<1> HIDE DEF held
<1>7. Going = Range(held) /\ ToShow = Coming \cup Range(held)
  BY <1>2, <1>3, <1>5 DEF Going, ToShow
<1>8. \A g : No(g)' = No(g)
  BY <1>1 DEF No
<1>9. Coming' = Coming
  BY <1>1 DEF Coming
<1> HIDE DEF f
<1>10. CASE filter'.held = held /\ graphics'.pc = "tick" /\ graphics'.frame = None
  <2>1. Held' = Range(held) /\ InHand' = {} /\ Going' = Going /\ ToShow' \subseteq ToShow
    BY <1>7, <1>9, <1>10 DEF Held, InHand, Going, ToShow
  <2> QED
    BY <1>1, <1>6, <1>8, <1>9, <1>10, <2>1 DEF Ordered, No
<1>11. CASE filter'.held = Tail(held) /\ graphics'.pc = "upload" /\ graphics'.frame = held[1]
  <2>1. /\ Rising(Tail(held), pic) /\ Range(Tail(held)) \subseteq Range(held)
        /\ held[1] \in Range(held)
        /\ \A y \in Range(Tail(held)) : pic[held[1]].n < pic[y].n
    BY <1>3, <1>4, <1>6, RisingTail
  <2>2. /\ Held' = Range(Tail(held)) /\ InHand' = {held[1]} \ {None}
        /\ Going' \subseteq Going /\ ToShow' \subseteq ToShow
    BY <1>7, <1>9, <1>11, <2>1 DEF Held, InHand, Going, ToShow
  <2>3. \A g \in Held' : No(graphics.frame)' < No(g)'
    BY <1>1, <1>11, <2>1, <2>2 DEF No
  <2> QED
    BY <1>1, <1>8, <1>9, <1>11, <2>1, <2>2, <2>3 DEF Ordered, No
<1> QED
  BY <1>1, <1>10, <1>11

\* The picture that is shown comes after the last one and before the others.
LEMMA UploadOrder == ASSUME IInv, Ordered, Upload PROVE Ordered' /\ shown' > shown
<1> DEFINE f == graphics.frame
<1>1. /\ graphics.pc = "upload" /\ shown' = No(f)
      /\ graphics'.pc = "tick" /\ graphics'.frame = None
      /\ UNCHANGED <<async_frames, cur_async_frame, pic, source, filter>>
  BY DEF Upload, No
<1>2. f \in Frames /\ f # None /\ InHand = {f} /\ f \in Going /\ f \in ToShow
  BY <1>1, Facts DEF IInv, Threads, InHand, Going, ToShow
<1>3. /\ Held' = Held /\ InHand' = {} /\ Coming' = Coming /\ Going' \subseteq Going
      /\ ToShow' = Coming \cup {g \in Held : filter.on}
  BY <1>1 DEF Held, InHand, Coming, Going, ToShow
<1>4. /\ shown' \in Nat /\ shown' <= source.n /\ (source.pc # "idle" => shown' < source.n)
      /\ shown < shown' /\ shown \in Nat
  BY <1>1, <1>2, OrderTypes DEF Ordered
<1>5. \A g \in ToShow' : shown' < No(g)
  BY <1>1, <1>2, <1>3 DEF Ordered
<1> HIDE DEF f
<1>6. shown' > shown
  BY <1>4
<1> QED
  BY <1>1, <1>3, <1>4, <1>5, <1>6 DEF Ordered, No

LEMMA InitOrdered == Init => Ordered
<1> SUFFICES ASSUME Init PROVE Ordered
  OBVIOUS
<1>1. /\ async_frames = <<>> /\ filter.held = <<>> /\ cur_async_frame = None
      /\ graphics.frame = None /\ graphics.pc = "tick"
      /\ source.pc = "idle" /\ source.n = 0 /\ shown = 0
  BY DEF Init, NewFilter
<1>2. Going = {} /\ Coming = {} /\ ToShow = {} /\ Held = {} /\ Range(async_frames) = {}
  BY <1>1, NoMembers DEF Going, Coming, ToShow, Held, InHand
<1>3. Rising(async_frames, pic) /\ Rising(filter.held, pic)
  BY <1>1 DEF Rising
<1> QED
  BY <1>1, <1>2, <1>3 DEF Ordered

LEMMA NextOrdered == IInv /\ IInv' /\ Ordered /\ [Next]_vars => Ordered'
<1> SUFFICES ASSUME IInv, IInv', Ordered, [Next]_vars PROVE Ordered'
  OBVIOUS
<1>1. CASE DropPicture
  BY <1>1, DropPictureOrder
<1>2. CASE CacheVideo
  BY <1>2, CacheVideoOrder
<1>3. CASE EndCopy
  BY <1>3, EndCopyOrder
<1>4. CASE PushFrame
  BY <1>4, PushFrameOrder
<1>5. CASE VideoTick
  BY <1>5, VideoTickOrder
<1>6. CASE NotRendered
  BY <1>6, NotRenderedOrder
<1>7. CASE GetFrame
  BY <1>7, GetFrameOrder
<1>8. CASE FilterFree \/ FilterRemoved
  BY <1>8, FilterFreeOrder
<1>9. CASE FilterVideo
  BY <1>9, FilterVideoOrder
<1>10. CASE Upload
  BY <1>10, UploadOrder
<1>11. CASE UploadFails
  BY <1>11, UploadFailsOrder
<1>12. CASE SetFlags \/ AddFilter \/ RemoveFilter
  BY <1>12, UserOrder
<1>13. CASE UNCHANGED vars
  <2>1. UNCHANGED <<async_frames, cur_async_frame, pic, source, graphics, filter, shown>>
    BY <1>13 DEF vars, queue, memory
  <2>2. Held' = Held /\ InHand' = InHand /\ Coming' = Coming
    BY <2>1 DEF Held, InHand, Coming
  <2> QED
    BY <2>1, <2>2 DEF Ordered, Going, ToShow, No
<1> QED
  BY <1>1, <1>2, <1>3, <1>4, <1>5, <1>6, <1>7, <1>8, <1>9, <1>10, <1>11, <1>12, <1>13
     DEF Next, Deliver, Render, User

LEMMA LongestIs == \A t \in Ticks : t \in Nat /\ LongestTick \in Nat /\ t <= LongestTick
<1> SUFFICES ASSUME NEW t \in Ticks PROVE t \in Nat /\ LongestTick \in Nat /\ t <= LongestTick
  OBVIOUS
<1>1. Ticks \subseteq Nat /\ W \in Nat /\ \A u \in Ticks : u <= W
  BY AsyncAssumption
<1>2. \E m \in Ticks : \A u \in Ticks : u <= m
  BY <1>1, GreatestNumber
<1>3. LongestTick \in Ticks /\ \A u \in Ticks : u <= LongestTick
  BY <1>2 DEF LongestTick
<1> QED
  BY <1>1, <1>3

\* What a tick takes is on time.
LEMMA TickOnTime ==
  ASSUME IInv, VideoTick, ~unbuffered, Steady(async_frames)
  PROVE  /\ async_frames' # <<>> => ~Due(last_frame_ts', Stamp(async_frames'[1]))
         /\ cur_async_frame' # None =>
              \/ cur_async_frame' = async_frames[1]
              \/ Stamp(cur_async_frame') + Near <= last_frame_ts + LongestTick
<1>1. PICK elapsed \in Ticks :
        /\ cur_async_frame' = IF Taken(elapsed).count = 0 THEN None
                              ELSE async_frames[Taken(elapsed).count]
        /\ async_frames' = SubSeq(async_frames, Taken(elapsed).count + 1, Len(async_frames))
        /\ last_frame_ts' = Taken(elapsed).last
  BY DEF VideoTick
<1> DEFINE k == Taken(elapsed).count
           n == Len(async_frames)
<1>2. /\ k < n => ~Due(last_frame_ts', Stamp(async_frames[k + 1]))
      /\ k > 1 => Stamp(async_frames[k]) + Near <= last_frame_ts + elapsed
  BY <1>1, TickTakes
<1>3. k \in 0 .. n /\ n \in Nat
  BY TakenIs, OrderTypes, LenProperties
<1>4. /\ cur_async_frame' = IF k = 0 THEN None ELSE async_frames[k]
      /\ async_frames' = SubSeq(async_frames, k + 1, n)
  BY <1>1
<1>5. ASSUME async_frames' # <<>>
      PROVE  k < n /\ async_frames'[1] = async_frames[k + 1]
  <2> DEFINE q == SubSeq(async_frames, k + 1, n)
  <2> HIDE DEF k
  <2>1. q \in Seq(Frames) /\ Len(q) = n - k /\ q # <<>>
    BY <1>3, <1>4, <1>5, OrderTypes, Dropped
  <2>2. Len(q) # 0
    <3> HIDE DEF q
    <3> QED
      BY <2>1, EmptySeq
  <2>3. k < n
    BY <1>3, <2>1, <2>2
  <2>4. \A i \in k + 1 .. n : async_frames[i] \in Frames
    <3>1. \A i \in k + 1 .. n : i \in 1 .. n
      BY <1>3
    <3> QED
      BY <3>1, OrderTypes, Members
  <2>5. q[1] = async_frames[(k + 1) + 1 - 1]
    <3>1. 1 \in 1 .. n - (k + 1) + 1 /\ k + 1 \in Nat
      BY <1>3, <2>3
    <3> HIDE DEF n
    <3> QED
      BY <1>3, <2>4, <3>1, SubSeqProperties
  <2>6. (k + 1) + 1 - 1 = k + 1
    BY <1>3
  <2> QED
    BY <1>4, <2>3, <2>5, <2>6
<1>6. ASSUME k > 1
      PROVE  Stamp(async_frames[k]) + Near <= last_frame_ts + LongestTick
  <2> DEFINE a == Stamp(async_frames[k])
  <2>1. a \in Nat
    <3>1. k \in 1 .. n
      BY <1>3, <1>6
    <3>2. async_frames[k] \in Frames
      BY <3>1, OrderTypes, Members
    <3> DEFINE f == async_frames[k]
    <3>3. f \in Frames
      BY <3>2
    <3> HIDE DEF f
    <3>4. pic[f].ts \in 0 .. W - 1 /\ W \in Nat
      BY <3>3, AsyncAssumption DEF IInv, Shapes
    <3>5. pic[f].ts \in Nat
      BY <3>4
    <3> QED
      BY <3>5 DEF Stamp, f
  <2>2. /\ elapsed \in Nat /\ LongestTick \in Nat /\ elapsed <= LongestTick
        /\ last_frame_ts \in Nat /\ Near \in Nat
    BY LongestIs, AsyncAssumption DEF IInv, Shapes
  <2>3. a + Near <= last_frame_ts + elapsed
    BY <1>2, <1>6
  <2> HIDE DEF a
  <2>4. a + Near <= last_frame_ts + LongestTick
    BY <2>1, <2>2, <2>3
  <2> QED
    BY <2>4 DEF a
<1> HIDE DEF k
<1>7. k = 0 \/ k = 1 \/ k > 1
  BY <1>3
<1> QED
  BY <1>2, <1>4, <1>5, <1>6, <1>7

\* Pictures are shown in the order of their delivery, and with steady time stamps what
\* waits after a tick is not due and what it takes is the first frame or one whose time
\* has come: the play time moves by what elapsed and no more.
THEOREM TimelyHolds == Spec => Timely
<1> DEFINE Step ==
      /\ shown' # shown => shown' > shown
      /\ (graphics.pc = "tick" /\ graphics'.pc = "render"
            /\ ~unbuffered /\ Steady(async_frames)) =>
           /\ async_frames' # <<>> =>
                ~Due(last_frame_ts', Stamp(async_frames'[1]))
           /\ cur_async_frame' # None =>
                \/ cur_async_frame' = async_frames[1]
                \/ Stamp(cur_async_frame') + Near <= last_frame_ts + LongestTick
<1>1. ASSUME IInv, Ordered, Next PROVE Step
  <2>1. CASE Upload
    <3>1. shown' > shown /\ graphics.pc = "upload"
      BY <1>1, <2>1, UploadOrder DEF Upload
    <3> QED
      BY <3>1
  <2>2. CASE VideoTick
    <3>1. shown' = shown
      BY <2>2 DEF VideoTick
    <3> QED
      BY <1>1, <2>2, <3>1, TickOnTime
  <2>3. ASSUME ~Upload, ~VideoTick
        PROVE  shown' = shown /\ ~(graphics.pc = "tick" /\ graphics'.pc = "render")
    <3>1. CASE DropPicture
      BY <3>1 DEF DropPicture
    <3>2. CASE CacheVideo
      <4>1. UNCHANGED <<graphics, shown>>
        BY <3>2 DEF CacheVideo
      <4> QED
        BY <4>1
    <3>3. CASE EndCopy \/ PushFrame
      BY <3>3 DEF EndCopy, PushFrame
    <3>4. CASE NotRendered \/ GetFrame
      BY <3>4 DEF NotRendered, GetFrame
    <3>5. CASE FilterFree \/ FilterRemoved
      BY <3>5 DEF FilterFree, FilterRemoved
    <3>6. CASE FilterVideo
      <4>1. graphics.pc = "filter" /\ shown' = shown
        BY <3>6 DEF FilterVideo
      <4> QED
        BY <4>1
    <3>7. CASE UploadFails
      BY <3>7 DEF UploadFails
    <3>8. CASE SetFlags \/ AddFilter \/ RemoveFilter
      BY <3>8 DEF SetFlags, AddFilter, RemoveFilter
    <3> QED
      BY <1>1, <2>3, <3>1, <3>2, <3>3, <3>4, <3>5, <3>6, <3>7, <3>8
         DEF Next, Deliver, Render, User
  <2>4. ASSUME ~Upload, ~VideoTick PROVE Step
    BY <2>3, <2>4
  <2> QED
    BY <2>1, <2>2, <2>4
<1>2. Spec => [](IInv /\ Ordered)
  <2>1. Init => IInv /\ Ordered
    BY InitIInv, InitOrdered
  <2>2. (IInv /\ Ordered) /\ [Next]_vars => (IInv /\ Ordered)'
    BY NextIInv, NextOrdered
  <2> QED
    BY <2>1, <2>2, PTL DEF Spec
<1>3. IInv /\ Ordered /\ [Next]_vars => [Step]_vars
  BY <1>1
<1> HIDE DEF Step
<1>4. Spec => [][Step]_vars
  BY <1>2, <1>3, PTL DEF Spec
<1> QED
  BY <1>4 DEF Timely, Step

=============================================================================
