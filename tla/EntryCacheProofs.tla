-------------------------- MODULE EntryCacheProofs --------------------------
(***************************************************************************)
(* Proofs about the two objects that read attributes through an EntryCache *)
(* and keep them in it.                                                    *)
(*   RecursiveIteration, for every tree, every set of options and whatever *)
(* other programs remove or close: that it implements Traversal, that its  *)
(* stack is the path to the entry it stands at, that its errors have       *)
(* causes, and that it is complete where no links are.                     *)
(*   DirectoryEntry, for every set of paths and objects and any number of  *)
(* versions.  A query works on the cache alone, so the proof has two       *)
(* parts: what a filler and a getter do to any cache no iteration has      *)
(* touched (the lemmas), and that the steps keep the inductive invariant.  *)
(***************************************************************************)
EXTENDS RecursiveIteration, DirectoryEntry, TLAPS


-----------------------------------------------------------------------------
(* The cache inside a stream.                                              *)

(* A cache that is never EMPTY, and that holds the type readdir() gave     *)
(* unless it takes the entry for a link, which it does not where none is.  *)
Fits(n, c) ==
  /\ c \in CachedData(Stamps)
  /\ c.cache_type # "EMPTY"
  /\ c.symlink => \E m \in Nodes : IsLink(m)
  /\ ~c.symlink => c.type = get_file_type(n) /\ ~(DTypes /\ IsLink(n))

(* What a query may do to such a cache.                                    *)
Kept(c, d) ==
  /\ d \in CachedData(Stamps)
  /\ d.cache_type # "EMPTY"
  /\ d.symlink = c.symlink
  /\ ~c.symlink => d.type = c.type

Calls == [cache : CachedData(Stamps), mode : Modes, err : Errors,
          failed : BOOLEAN, type : FileTypes, stamp : Stamps]

(* What stat() may return.                                                 *)
Results == [type : FileTypes, err : Errors, stamp : Stamps]

(* A query keeps what a cache fits.                                        *)
LEMMA KeptFits ==
  ASSUME NEW n, NEW c, NEW d, Fits(n, c), Kept(c, d)
  PROVE  Fits(n, d)
BY DEF Fits, Kept

(* What is kept twice is kept.                                             *)
LEMMA KeptTrans ==
  ASSUME NEW c, NEW d, NEW e, Kept(c, d), Kept(d, e)
  PROVE  Kept(c, e)
BY DEF Kept

(* A filler and a query on a cache that is not EMPTY.                      *)
Keeps(k, r) == r \in Calls /\ Kept(k.cache, r.cache)

(* Reading basic information again resolves a link, no more.               *)
LEMMA BasicKeeps ==
  ASSUME NEW k \in Calls, k.cache.cache_type # "EMPTY", NEW st \in Results,
         NEW follow \in BOOLEAN
  PROVE  Keeps(k, UpdateBasicFileInformation(k, st, follow))
<1> DEFINE c == k.cache
           d == IF c.symlink /\ follow THEN ResolveLink(c, st) ELSE c
           e == [d EXCEPT !.size = IF st.type = "regular" THEN st.stamp ELSE @,
                          !.write_time = IF Exists(st.type) THEN st.stamp ELSE @,
                          !.cache_type = "FULL"]
<1>1. c \in CachedData(Stamps)
  BY DEF Calls
<1>2. /\ d \in CachedData(Stamps) /\ d.symlink = c.symlink
      /\ ~c.symlink => d.type = c.type
  BY <1>1 DEF ResolveLink, CachedData, Results
<1> HIDE DEF d
<1>3. e \in CachedData(Stamps) /\ Kept(d, e)
  BY <1>2 DEF CachedData, Results, CacheTypes, Kept
<1>4. Kept(c, e)
  BY <1>2, <1>3 DEF Kept
<1>5. UpdateBasicFileInformation(k, st, follow) = [k EXCEPT !.err = "ok", !.cache = e]
  BY DEF UpdateBasicFileInformation, d
<1> HIDE DEF e
<1> QED BY <1>3, <1>4, <1>5 DEF Keeps, Calls, Errors

(* The two later fillers resolve a link, no more.                          *)
LEMMA FillMoreKeeps ==
  ASSUME NEW k \in Calls, k.cache.cache_type # "EMPTY", NEW st \in Results,
         NEW follow \in BOOLEAN, NEW resolved \in BOOLEAN,
         NEW next \in {"EXTRA", "FULL"}
  PROVE  Keeps(k, FillMore(k, st, follow, resolved, next))
<1> DEFINE m == [k EXCEPT !.err = "ok", !.failed = @ \/ k.cache.cache_type # "FULL"]
           b == IF k.cache.symlink /\ follow /\ ~resolved
                THEN UpdateBasicFileInformation(m, st, TRUE) ELSE m
           r == [b EXCEPT !.cache.cache_type = next]
<1>1. m \in Calls /\ m.cache = k.cache
  BY DEF Calls, Errors
<1>2. Keeps(k, k)
  BY DEF Keeps, Kept, Calls
<1>7. FillMore(k, st, follow, resolved, next) \in {k, b, r}
  BY DEF FillMore
<1> HIDE DEF m
<1>8. Keeps(m, m) /\ Keeps(m, UpdateBasicFileInformation(m, st, TRUE))
  BY <1>1, BasicKeeps DEF Keeps, Kept, Calls
<1>3. Keeps(k, b)
  BY <1>1, <1>8 DEF Keeps
<1> HIDE DEF b
<1>4. r \in Calls /\ r.cache = [b.cache EXCEPT !.cache_type = next]
  BY <1>3 DEF Keeps, Calls, CachedData, CacheTypes
<1>5. Kept(b.cache, r.cache)
  BY <1>3, <1>4 DEF Keeps, Kept, Calls, CachedData
<1>6. Keeps(k, r)
  BY <1>3, <1>4, <1>5, KeptTrans DEF Keeps
<1> QED BY <1>2, <1>3, <1>6, <1>7

(* Keeping is for good.                                                    *)
LEMMA KeepsTrans ==
  ASSUME NEW k, NEW m, NEW r, Keeps(k, m), Keeps(m, r)
  PROVE  Keeps(k, r)
BY KeptTrans DEF Keeps

(* An answer changes nothing in the cache.                                 *)
LEMMA AnswersKeep ==
  ASSUME NEW k, NEW r, Keeps(k, r)
  PROVE  /\ Keeps(k, AnswerType(r))
         /\ \A a \in Attributes : Keeps(k, AnswerStamp(r, a))
         /\ \A e \in Errors : Keeps(k, Report(r, e))
<1>1. r.cache.type \in FileTypes /\ \A a \in Attributes : r.cache[a] \in Stamps
  BY DEF Keeps, Calls, CachedData, Attributes
<1> QED BY <1>1 DEF AnswerType, AnswerStamp, Report, Keeps, Calls, FileTypes, Stamps

(* is_directory().                                                         *)
LEMMA FileTypeKeeps ==
  ASSUME NEW k \in Calls, k.cache.cache_type # "EMPTY", NEW st \in Results
  PROVE  Keeps(k, GetFileType(k, st))
<1>1. Keeps(k, k)
  BY DEF Keeps, Kept, Calls
<1>2. Keeps(k, UpdateBasicFileInformation(k, st, TRUE))
  BY BasicKeeps
<1> QED BY <1>1, <1>2, AnswersKeep DEF GetFileType, Errors

(* file_size().                                                            *)
LEMMA SizeKeeps ==
  ASSUME NEW k \in Calls, k.cache.cache_type # "EMPTY", NEW st \in Results
  PROVE  Keeps(k, GetSize(k, st))
<1>1. BasicIfEmpty(k, st, TRUE) = k /\ Keeps(k, k) /\ k.cache.extra_resolved \in BOOLEAN
  BY DEF BasicIfEmpty, Keeps, Kept, Calls, CachedData
<1>2. Keeps(k, UpdateExtraFileInformation(k, st, TRUE))
  BY <1>1, FillMoreKeeps DEF UpdateExtraFileInformation
<1>3. Keeps(k, ExtraOnce(k, st))
  BY <1>1, <1>2 DEF ExtraOnce
<1>4. GetSize(k, st) = IF Thrown(ExtraOnce(k, st)) THEN ExtraOnce(k, st)
                       ELSE AnswerStamp(ExtraOnce(k, st), "size")
  BY DEF GetSize
<1> QED BY <1>3, <1>4, AnswersKeep DEF Attributes

(* status().                                                               *)
LEMMA StatusKeeps ==
  ASSUME NEW k \in Calls, k.cache.cache_type # "EMPTY", NEW st \in Results
  PROVE  Keeps(k, GetStatus(k, st))
<1> DEFINE extra == IF k.cache.cache_type \in {"EMPTY", "BASIC"}
                    THEN UpdateExtraFileInformation(k, st, FALSE) ELSE k
           done == UpdatePermissionsInformation(extra, st, TRUE)
<1>1. BasicIfEmpty(k, st, TRUE) = k /\ Keeps(k, k) /\ k.cache.extra_resolved \in BOOLEAN
  BY DEF BasicIfEmpty, Keeps, Kept, Calls, CachedData
<1>2. Keeps(k, extra)
  BY <1>1, FillMoreKeeps DEF UpdateExtraFileInformation
<1>3. Permissions(k, st, TRUE) = done
  BY <1>1 DEF Permissions
<1> HIDE DEF extra
<1>4. extra \in Calls /\ extra.cache.cache_type # "EMPTY"
      /\ extra.cache.perms_resolved \in BOOLEAN
  BY <1>2 DEF Keeps, Kept, CachedData
<1>5. Keeps(k, done)
  BY <1>2, <1>4, FillMoreKeeps, KeepsTrans DEF UpdatePermissionsInformation
<1>6. \A r : Keeps(k, r) => Keeps(k, AnswerStamp(AnswerType(r), "non_symlink_perms"))
  BY AnswersKeep DEF Attributes
<1> QED BY <1>1, <1>3, <1>5, <1>6 DEF GetStatus

(* A cache of a stream makes a call, and stat() of an entry a result.      *)
LEMMA CallsAndResults ==
  ASSUME WorldTypeOK, NEW n \in Nodes, NEW m \in Nodes, NEW c, Fits(m, c),
         NEW mode \in Modes
  PROVE  /\ Call(c, mode) \in Calls
         /\ Call(c, mode).cache = c
         /\ Stat(n) \in Results
  BY DEF Fits, Call, Calls, Errors, FileTypes, Stamps, Stat, FileStatus, Results,
     Exists, StatusKnown, Unset

(* What TryRecursion() makes of an entry: the cache is kept, and an entry  *)
(* that is descended into is a directory, not a link.  With follow_... it  *)
(* learns nothing, and otherwise it fails exactly for an unknown type.     *)
LEMMA Classified ==
  ASSUME WorldTypeOK, stack # << >>, stack \in Seq(Streams), Current \in Nodes,
         Fits(Current, Top.cache)
  PROVE  LET c == Classify IN
         /\ Fits(Current, c.cache)
         /\ Descends(c) => kind[Current] = "directory" /\ DTypes
         /\ ClassifyError(c) \in {"ok", "ENOENT"}
         /\ DTypes => ClassifyError(c) = "ok"
         /\ (~Follows /\ ~Top.cache.symlink /\ ClassifyError(c) = "ok"
              /\ kind[Current] = "directory") => Descends(c)
<1> DEFINE k == Call(Top.cache, "ec")
           st == Stat(Current)
           n == Current
<1>1. k \in Calls /\ k.cache = Top.cache /\ st \in Results /\ k.cache.cache_type # "EMPTY"
      /\ k.err = "ok" /\ k.type = "none"
  BY CallsAndResults DEF Modes, Fits, Call
<1>2. k.mode = "ec"
  BY DEF Call
<1> HIDE DEF k, st
<1>3. CASE Follows
  <2>1. Classify = GetFileType(k, st)
    BY <1>3 DEF Classify, k, st
  <2>2. Keeps(k, Classify)
    BY <1>1, <2>1, FileTypeKeeps
  <2>3. Classify \in {k, UpdateBasicFileInformation(k, st, TRUE)}
    BY <1>2, <2>1 DEF GetFileType
  <2>4. Classify.err = "ok" /\ Classify.type = "none"
    BY <1>1, <2>3 DEF UpdateBasicFileInformation, Calls
  <2>5. Fits(n, Classify.cache)
    BY <1>1, <2>2, KeptFits DEF Keeps
  <2> QED BY <1>3, <2>4, <2>5 DEF ClassifyError, Descends, StatusKnown
<1>4. CASE ~Follows
  <2>1. Classify = GetSymLinkFileType(k, st)
    BY <1>4 DEF Classify, k, st
  <2>2. BasicIfEmpty(k, st, FALSE) = k /\ ~Thrown(k)
    BY <1>1, <1>2 DEF BasicIfEmpty, Thrown
  <2>3. Classify = IF k.cache.symlink THEN [k EXCEPT !.type = "symlink"]
                   ELSE IF Exists(k.cache.type) THEN AnswerType(k)
                   ELSE [Report(k, "ENOENT") EXCEPT !.type = k.cache.type]
    BY <1>1, <2>1, <2>2 DEF GetSymLinkFileType
  <2>4. kind[n] \in Kinds
    BY DEF WorldTypeOK
  <2>5. ~k.cache.symlink => k.cache.type \in {"none", "regular", "directory"}
                            /\ (DTypes => k.cache.type = kind[n])
                            /\ (~DTypes => k.cache.type = "none")
    BY <1>1, <2>4 DEF Fits, get_file_type, IsLink, Kinds
  <2>6. CASE k.cache.symlink
    <3>1. Classify.type = "symlink" /\ Classify.cache = k.cache /\ Classify.err = "ok"
      BY <1>1, <2>3, <2>6 DEF Calls
    <3> QED BY <1>1, <2>6, <3>1 DEF ClassifyError, Descends, StatusKnown
  <2>7. CASE ~k.cache.symlink /\ k.cache.type # "none"
    <3>1. Exists(k.cache.type)
      BY <2>5, <2>7 DEF Exists, StatusKnown
    <3>2. Classify.type = kind[n] /\ Classify.cache = k.cache /\ Classify.err = "ok"
      BY <1>1, <2>3, <2>5, <2>7, <3>1 DEF AnswerType, Calls
    <3>3. kind[n] # "none"
      BY <2>4 DEF Kinds
    <3> QED BY <1>1, <2>5, <2>7, <3>2, <3>3 DEF ClassifyError, Descends, StatusKnown
  <2>8. CASE ~k.cache.symlink /\ k.cache.type = "none"
    <3>1. ~Exists(k.cache.type)
      BY <2>8 DEF Exists, StatusKnown
    <3>2. Classify.type = "none" /\ Classify.cache = k.cache /\ Classify.err = "ENOENT"
      BY <1>1, <2>3, <2>8, <3>1 DEF Report, Calls
    <3>3. ~DTypes
      BY <2>4, <2>5, <2>8 DEF Kinds
    <3> QED BY <1>1, <3>2, <3>3 DEF ClassifyError, Descends, StatusKnown
  <2> QED BY <2>6, <2>7, <2>8
<1> QED BY <1>3, <1>4

-----------------------------------------------------------------------------
(* The stack.                                                              *)

(* A stack is the way to its last entry: every stream was opened on the    *)
(* entry the one below stands at, which is a directory, and no two on the  *)
(* same; a stream has left only entries that have not been visited.        *)
Trail(s, v) ==
  /\ s \in Seq(Streams)
  /\ \A i \in 1..Len(s) :
       /\ s[i].root = (IF i = 1 THEN Root ELSE s[i-1].entry)
       /\ s[i].entry \in Children(s[i].root) \cap v
       /\ s[i].left \subseteq Children(s[i].root) \ v
       /\ Fits(s[i].entry, s[i].cache)
       /\ i # 1 => kind[s[i].root] = "directory"
  /\ \A i, j \in 1..Len(s) : s[i].root = s[j].root => i = j

(* Nothing is visited before the directory it is in.                       *)
Closed(v) == v \subseteq Nodes /\ \A n \in v : Parent[n] \in v \cup {Root}

(* Nothing below the last entry has been visited.                          *)
Fresh(s, v) == \A n \in v : Parent[n] # s[Len(s)].entry

(* What holds of a stack with t on top when its entry is visited for the   *)
(* first time.                                                             *)
Arrives(r, t, v) ==
  /\ r # << >> /\ r[Len(r)] = t
  /\ t.entry \in Nodes \ v
  /\ Parent[t.entry] \in v \cup {Root}
  /\ Trail(r, v \cup {t.entry})
  /\ Closed(v \cup {t.entry})
  /\ Fresh(r, v \cup {t.entry})

(* The next entry of a stream, and what is left of it.                     *)
LEMMA NextEntry ==
  ASSUME WorldTypeOK, NEW r \in Streams, r.cache.cache_type \in CacheTypes,
         r.cache.symlink => \E m \in Nodes : IsLink(m),
         NEW t \in NextEntries(r), r.left \subseteq Children(r.root)
  PROVE  /\ t \in Streams
         /\ t.root = r.root
         /\ t.entry \in r.left
         /\ t.left = r.left \ {t.entry}
         /\ Fits(t.entry, t.cache)
<1>1. PICK n \in r.left :
        t = [r EXCEPT !.left = @ \ {n}, !.entry = n,
                      !.cache = AssignDirent(@, get_file_type(n))]
  BY DEF NextEntries
<1>2. n \in Nodes /\ kind[n] \in Kinds
  BY <1>1 DEF Children, WorldTypeOK
<1>3. get_file_type(n) \in FileTypes
  BY <1>2 DEF get_file_type, FileTypes, Kinds, IsLink
<1> DEFINE d == AssignDirent(r.cache, get_file_type(n))
<1>4. r.cache \in CachedData(Stamps)
  BY DEF Streams
<1>5. /\ d \in CachedData(Stamps)
      /\ d.cache_type = "BASIC"
      /\ d.type = get_file_type(n)
      /\ get_file_type(n) = "symlink" => d.symlink
      /\ d.symlink => r.cache.symlink \/ get_file_type(n) = "symlink"
  BY <1>3, <1>4 DEF AssignDirent, CachedData, CacheTypes
<1>6. DTypes /\ IsLink(n) => get_file_type(n) = "symlink"
  BY DEF get_file_type
<1>11. get_file_type(n) = "symlink" => IsLink(n)
  BY <1>2 DEF get_file_type, Kinds, IsLink
<1>7. Fits(n, d)
  BY <1>2, <1>5, <1>6, <1>11 DEF Fits
<1> HIDE DEF d
<1>8. t = [r EXCEPT !.left = @ \ {n}, !.entry = n, !.cache = d]
  BY <1>1 DEF d
<1>9. t.root = r.root /\ t.entry = n /\ t.left = r.left \ {n} /\ t.cache = d
  BY <1>8 DEF Streams
<1>10. t \in Streams
  BY <1>2, <1>5, <1>8 DEF Streams, Directories
<1> QED BY <1>1, <1>7, <1>9, <1>10

(* Opening a directory.                                                    *)
LEMMA OpenedStream ==
  ASSUME WorldTypeOK, NEW d \in Directories, NEW t \in OpenStreams(d)
  PROVE  /\ t \in Streams
         /\ t.root = d
         /\ t.entry \in Children(d) \cap present
         /\ t.left = (Children(d) \cap present) \ {t.entry}
         /\ Fits(t.entry, t.cache)
<1> DEFINE r == NewStream(d)
<1>1. t \in NextEntries(r)
  BY DEF OpenStreams
<1>2. Reset \in CachedData(Stamps)
  BY DEF Reset, CachedData, CacheTypes, FileTypes, Stamps
<1>3. Children(d) \subseteq Nodes
  BY DEF Children
<1>4. /\ r \in Streams /\ r.root = d /\ r.left = Children(d) \cap present
      /\ r.cache = Reset
  BY <1>2, <1>3 DEF NewStream, Streams
<1>5. r.cache.cache_type \in CacheTypes /\ ~r.cache.symlink
  BY <1>4 DEF Reset, CacheTypes
<1> HIDE DEF r
<1> QED BY <1>1, <1>4, <1>5, NextEntry

(* The first k-1 streams.                                                  *)
LEMMA Prefix ==
  ASSUME NEW S, NEW s \in Seq(S), NEW k \in 1..Len(s)
  PROVE  LET q == SubSeq(s, 1, k-1) IN
         q \in Seq(S) /\ Len(q) = k-1 /\ \A i \in 1..k-1 : q[i] = s[i]
OBVIOUS

(* These with another stream on top.                                       *)
LEMMA Replaced ==
  ASSUME NEW S, NEW s \in Seq(S), NEW k \in 1..Len(s), NEW t \in S
  PROVE  LET r == Append(SubSeq(s, 1, k-1), t) IN
         /\ r \in Seq(S) /\ Len(r) = k /\ r # << >>
         /\ \A i \in 1..k-1 : r[i] = s[i]
         /\ r[k] = t
<1> DEFINE q == SubSeq(s, 1, k-1)
<1>1. q \in Seq(S) /\ Len(q) = k-1 /\ \A i \in 1..k-1 : q[i] = s[i]
  BY Prefix
<1>2. k \in Nat \ {0}
  OBVIOUS
<1> HIDE DEF q
<1>3. /\ Append(q, t) \in Seq(S) /\ Len(Append(q, t)) = k
      /\ \A i \in 1..k-1 : Append(q, t)[i] = s[i]
      /\ Append(q, t)[k] = t
  BY <1>1, <1>2
<1>4. Append(q, t) # << >>
  BY <1>2, <1>3
<1> QED BY <1>3, <1>4 DEF q

(* Going on in the k-th stream with its next entry: that entry has not     *)
(* been visited, its directory has, and nothing below it.                  *)
LEMMA MoveKeeps ==
  ASSUME WorldTypeOK, NEW v, Closed(v), NEW s, Trail(s, v),
         NEW k \in 1..Len(s), NEW t \in NextEntries(s[k])
  PROVE  Arrives(Append(SubSeq(s, 1, k-1), t), t, v)
<1> DEFINE r == Append(SubSeq(s, 1, k-1), t)
           n == t.entry
           w == v \cup {n}
<1>1. s \in Seq(Streams) /\ s[k] \in Streams /\ Len(s) \in Nat
  BY DEF Trail
<1>2. s[k].left \subseteq Children(s[k].root) \ v /\ Fits(s[k].entry, s[k].cache)
  BY DEF Trail
<1>3. /\ t \in Streams
      /\ t.root = s[k].root
      /\ t.entry \in s[k].left
      /\ t.left = s[k].left \ {n}
      /\ Fits(n, t.cache)
  BY <1>1, <1>2, NextEntry DEF Fits, CachedData
<1>4. /\ r \in Seq(Streams) /\ Len(r) = k /\ r # << >>
      /\ \A i \in 1..k-1 : r[i] = s[i]
      /\ r[k] = t
  BY <1>1, <1>3, Replaced
<1> HIDE DEF r
<1>5. n \in Nodes \ v /\ Parent[n] = t.root
  BY <1>2, <1>3 DEF Children
<1>6. Parent[n] \in v \cup {Root}
  <2>1. s[k].root = (IF k = 1 THEN Root ELSE s[k-1].entry)
    BY DEF Trail
  <2>2. CASE k = 1
    BY <1>3, <1>5, <2>1, <2>2
  <2>3. CASE k # 1
    <3>1. k-1 \in 1..Len(s)
      BY <1>1, <2>3
    <3> QED BY <1>3, <1>5, <2>1, <2>3, <3>1 DEF Trail
  <2> QED BY <2>2, <2>3
<1>7. Closed(w)
  BY <1>5, <1>6 DEF Closed
<1>8. \A m \in w : Parent[m] # n
  <2>1. n # Root
    BY <1>5, TreeAssumption
  <2> QED BY <1>5, <1>6, <2>1 DEF Closed
<1>9. Fresh(r, w)
  BY <1>4, <1>8 DEF Fresh
<1>10. \A i, j \in 1..Len(s) : s[i].root = s[j].root => i = j
  BY DEF Trail
<1>11. \A i \in 1..k : r[i].root = s[i].root
  BY <1>3, <1>4, <1>1
<1>12. ASSUME NEW i \in 1..Len(r)
       PROVE  /\ r[i].root = (IF i = 1 THEN Root ELSE r[i-1].entry)
              /\ r[i].entry \in Children(r[i].root) \cap w
              /\ r[i].left \subseteq Children(r[i].root) \ w
              /\ Fits(r[i].entry, r[i].cache)
              /\ i # 1 => kind[r[i].root] = "directory"
  <2>1. i \in 1..Len(s) /\ (i # 1 => i-1 \in 1..k-1)
    BY <1>1, <1>4
  <2>2. /\ s[i].root = (IF i = 1 THEN Root ELSE s[i-1].entry)
        /\ s[i].entry \in Children(s[i].root) \cap v
        /\ s[i].left \subseteq Children(s[i].root) \ v
        /\ Fits(s[i].entry, s[i].cache)
        /\ i # 1 => kind[s[i].root] = "directory"
    BY <2>1 DEF Trail
  <2>3. r[i].root = (IF i = 1 THEN Root ELSE r[i-1].entry)
    BY <1>4, <1>11, <2>1, <2>2
  <2>4. i # 1 => kind[r[i].root] = "directory"
    BY <1>4, <1>11, <2>2
  <2>5. CASE i = k
    <3>1. r[i] = t
      BY <1>4, <2>5
    <3>2. n \in Children(t.root) /\ t.left \subseteq Children(t.root) \ w
      BY <1>2, <1>3
    <3> QED BY <1>3, <2>3, <2>4, <3>1, <3>2
  <2>6. CASE i # k
    <3>1. i \in 1..k-1 /\ r[i] = s[i]
      BY <1>4, <2>6
    <3>2. s[i].root # s[k].root
      BY <1>10, <2>1, <2>6
    <3>3. n \notin s[i].left
      BY <1>3, <1>5, <2>2, <3>2 DEF Children
    <3> QED BY <2>2, <2>3, <2>4, <3>1, <3>3
  <2> QED BY <2>5, <2>6
<1>13. \A i, j \in 1..Len(r) : r[i].root = r[j].root => i = j
  BY <1>1, <1>4, <1>10, <1>11
<1>14. Trail(r, w)
  BY <1>4, <1>12, <1>13 DEF Trail
<1> QED BY <1>4, <1>5, <1>6, <1>7, <1>9, <1>14 DEF r, Arrives

(* Opening the last entry, a directory below which nothing was visited.    *)
LEMMA PushKeeps ==
  ASSUME WorldTypeOK, NEW v, Closed(v), NEW s, s # << >>, Trail(s, v), Fresh(s, v),
         kind[s[Len(s)].entry] = "directory", NEW t \in OpenStreams(s[Len(s)].entry)
  PROVE  Arrives(Append(s, t), t, v)
<1> DEFINE r == Append(s, t)
           w == v \cup {t.entry}
           n == t.entry
           e == s[Len(s)].entry
           l == Len(s)
<1>1. s \in Seq(Streams) /\ Len(s) \in Nat \ {0} /\ Len(s) \in 1..Len(s)
  BY DEF Trail
<1>2. e \in Nodes \cap v /\ e \in Children(s[l].root)
  BY <1>1 DEF Trail, Children
<1>3. /\ t \in Streams
      /\ t.root = e
      /\ n \in Children(e) \cap present
      /\ t.left = (Children(e) \cap present) \ {n}
      /\ Fits(n, t.cache)
  BY <1>2, OpenedStream DEF Directories
<1>4. /\ r \in Seq(Streams) /\ Len(r) = l + 1 /\ r # << >>
      /\ \A i \in 1..l : r[i] = s[i]
      /\ r[l + 1] = t
  BY <1>1, <1>3
<1> HIDE DEF r, e, l
<1>5. Children(e) \cap v = {}
  BY DEF Fresh, Children, e
<1>6. n \in Nodes \ v /\ Parent[n] = e
  BY <1>3, <1>5 DEF Children
<1>7. Closed(w)
  BY <1>2, <1>6 DEF Closed
<1>8. \A m \in w : Parent[m] # n
  <2>1. n # Root
    BY <1>6, TreeAssumption
  <2> QED BY <1>2, <1>6, <2>1 DEF Closed
<1>9. Fresh(r, w)
  BY <1>4, <1>8 DEF Fresh
<1>10. ASSUME NEW i \in 1..l
       PROVE  s[i].root # e
  <2>1. e # Root
    BY <1>2, TreeAssumption
  <2>2. CASE i = 1
    BY <1>1, <2>1, <2>2 DEF Trail, l
  <2>3. CASE i # 1
    <3>1. i-1 \in 1..l /\ i \in 1..l /\ l \in 1..l /\ i-1 # l
      BY <1>1, <2>3 DEF l
    <3>2. s[i].root = s[i-1].entry /\ s[i-1].entry \in Children(s[i-1].root)
      BY <2>3, <3>1 DEF Trail, l
    <3>3. s[i-1].root # s[l].root
      BY <3>1 DEF Trail, l
    <3> QED BY <1>2, <3>2, <3>3 DEF Children
  <2> QED BY <2>2, <2>3
<1>11. ASSUME NEW i \in 1..Len(r)
       PROVE  /\ r[i].root = (IF i = 1 THEN Root ELSE r[i-1].entry)
              /\ r[i].entry \in Children(r[i].root) \cap w
              /\ r[i].left \subseteq Children(r[i].root) \ w
              /\ Fits(r[i].entry, r[i].cache)
              /\ i # 1 => kind[r[i].root] = "directory"
  <2>1. CASE i = l + 1
    <3>1. r[i] = t /\ i # 1 /\ r[i-1] = s[l] /\ s[l].entry = e
      BY <1>1, <1>4, <2>1 DEF l, e
    <3>2. t.left \subseteq Children(e) \ w
      BY <1>3, <1>5
    <3> QED BY <1>3, <3>1, <3>2 DEF e
  <2>2. CASE i # l + 1
    <3>1. i \in 1..l /\ r[i] = s[i] /\ (i # 1 => i-1 \in 1..l /\ r[i-1] = s[i-1])
      BY <1>1, <1>4, <2>2 DEF l
    <3>2. /\ s[i].root = (IF i = 1 THEN Root ELSE s[i-1].entry)
          /\ s[i].entry \in Children(s[i].root) \cap v
          /\ s[i].left \subseteq Children(s[i].root) \ v
          /\ Fits(s[i].entry, s[i].cache)
          /\ i # 1 => kind[s[i].root] = "directory"
      BY <3>1 DEF Trail, l
    <3>3. n \notin s[i].left
      BY <1>6, <1>10, <3>1, <3>2 DEF Children
    <3> QED BY <3>1, <3>2, <3>3
  <2> QED BY <2>1, <2>2
<1>12. ASSUME NEW i \in 1..Len(r), NEW j \in 1..Len(r), r[i].root = r[j].root
       PROVE  i = j
  <2>1. \A m \in 1..Len(r) : m = l + 1 \/ (m \in 1..l /\ r[m] = s[m])
    BY <1>1, <1>4 DEF l
  <2>2. \A m, o \in 1..l : s[m].root = s[o].root => m = o
    BY DEF Trail, l
  <2>3. r[l + 1].root = e
    BY <1>3, <1>4
  <2> QED BY <1>10, <1>12, <2>1, <2>2, <2>3
<1>13. Trail(r, w)
  BY <1>4, <1>11, <1>12 DEF Trail
<1>14. r[Len(r)] = t
  BY <1>4
<1> QED BY <1>2, <1>4, <1>6, <1>7, <1>9, <1>13, <1>14 DEF r, Arrives

(* The stream on the root.                                                 *)
LEMMA FirstKeeps ==
  ASSUME WorldTypeOK, NEW t \in OpenStreams(Root)
  PROVE  Arrives(<<t>>, t, {})
<1>1. /\ t \in Streams
      /\ t.root = Root
      /\ t.entry \in Children(Root) \cap present
      /\ t.left = (Children(Root) \cap present) \ {t.entry}
      /\ Fits(t.entry, t.cache)
  BY OpenedStream DEF Directories
<1>2. t.entry \in Nodes /\ Parent[t.entry] = Root /\ t.entry # Root
  BY <1>1, TreeAssumption DEF Children
<1>3. <<t>> \in Seq(Streams) /\ Len(<<t>>) = 1 /\ <<t>>[1] = t
  BY <1>1
<1>4. \A i \in 1..1 : i = 1
  OBVIOUS
<1>5. Trail(<<t>>, {t.entry})
  <2>1. t.left \subseteq Children(Root) \ {t.entry}
    BY <1>1
  <2> QED BY <1>1, <1>3, <1>4, <2>1 DEF Trail
<1>6. Closed({t.entry}) /\ Fresh(<<t>>, {t.entry})
  BY <1>2, <1>3 DEF Closed, Fresh
<1>7. {} \cup {t.entry} = {t.entry} /\ <<t>> # << >>
  OBVIOUS
<1> QED BY <1>2, <1>3, <1>5, <1>6, <1>7 DEF Arrives

(* pop().                                                                  *)
LEMMA PopKeeps ==
  ASSUME NEW v, NEW s, s # << >>, Trail(s, v)
  PROVE  Trail(SubSeq(s, 1, Len(s) - 1), v)
<1> DEFINE q == SubSeq(s, 1, Len(s) - 1)
<1>1. s \in Seq(Streams) /\ Len(s) \in Nat \ {0}
  BY DEF Trail
<1>2. q \in Seq(Streams) /\ Len(q) = Len(s) - 1 /\ \A i \in 1..Len(s) - 1 : q[i] = s[i]
  <2>1. Len(s) \in 1..Len(s)
    BY <1>1
  <2> QED BY <1>1, <2>1, Prefix
<1> HIDE DEF q
<1>3. \A i \in 1..Len(q) : i \in 1..Len(s) /\ (i # 1 => q[i-1] = s[i-1])
  BY <1>1, <1>2
<1>4. Trail(q, v)
  BY <1>2, <1>3 DEF Trail
<1> QED BY <1>4 DEF q

(* Another cache in the last stream.                                       *)
LEMMA RememberKeeps ==
  ASSUME NEW v, stack # << >>, Trail(stack, v), NEW c, Fits(Current, c)
  PROVE  LET s == Remembering(c) IN
         /\ Trail(s, v) /\ s # << >> /\ Len(s) = Len(stack)
         /\ s[Len(s)].entry = Current
         /\ \A i \in 1..Len(s) : s[i].left = stack[i].left
<1> DEFINE s == Remembering(c)
           l == Len(stack)
<1>1. stack \in Seq(Streams) /\ l \in Nat \ {0} /\ l \in 1..l
  BY DEF Trail
<1>2. /\ s \in Seq(Streams) /\ Len(s) = l /\ s # << >>
      /\ s[l] = [stack[l] EXCEPT !.cache = c]
      /\ \A i \in 1..l : i # l => s[i] = stack[i]
  <2> DEFINE d == [stack[l] EXCEPT !.cache = c]
  <2>0. stack[l] \in Streams /\ c \in CachedData(Stamps)
    BY <1>1 DEF Fits
  <2> HIDE DEF l
  <2>1. d \in Streams
    BY <2>0 DEF Streams
  <2>2. s = [stack EXCEPT ![l] = d]
    BY DEF Remembering, s, l
  <2> HIDE DEF d
  <2>3. s \in Seq(Streams) /\ Len(s) = l /\ s[l] = d
        /\ \A i \in 1..l : i # l => s[i] = stack[i]
    BY <1>1, <2>1, <2>2 DEF l
  <2>4. s # << >>
    BY <1>1, <2>3
  <2> QED BY <2>3, <2>4 DEF d
<1> HIDE DEF s
<1>3. \A i \in 1..l : /\ s[i].root = stack[i].root
                      /\ s[i].entry = stack[i].entry
                      /\ s[i].left = stack[i].left
                      /\ Fits(s[i].entry, s[i].cache)
  <2>1. /\ s[l].root = stack[l].root /\ s[l].entry = stack[l].entry
        /\ s[l].left = stack[l].left /\ s[l].cache = c
    BY <1>1, <1>2 DEF Streams
  <2>2. \A i \in 1..l : Fits(stack[i].entry, stack[i].cache)
    BY DEF Trail
  <2>3. Fits(stack[l].entry, c)
    BY DEF Current, Top
  <2> QED BY <1>1, <1>2, <2>1, <2>2, <2>3
<1>4. \A i \in 1..l : i # 1 => i-1 \in 1..l
  BY <1>1
<1>5. Trail(s, v)
  BY <1>2, <1>3, <1>4 DEF Trail
<1> QED BY <1>1, <1>2, <1>3, <1>5 DEF s, Current, Top

-----------------------------------------------------------------------------
(* The invariant, and Traversal.                                           *)

IterInv ==
  /\ TypeOK
  /\ (pc = "live") <=> (stack # << >>)
  /\ Trail(stack, visited)
  /\ Closed(visited)
  /\ stack # << >> => Fresh(stack, visited)
  /\ pc = "new" => visited = {} /\ recursion

traversal == <<visited, IF stack = << >> THEN Root ELSE Current, pc = "end">>
StepsOn == [Promise!Next]_traversal

(* The trail depends on what the nodes are, and that does not change.      *)
LEMMA SameTrail ==
  ASSUME UNCHANGED kind, Trail(stack', visited')
  PROVE  Trail(stack, visited)'
BY DEF Trail, Fits, get_file_type, IsLink

(* Standing at an entry for the first time.                                *)
LEMMA StandKeeps ==
  ASSUME IterInv, UNCHANGED world, recursion' \in BOOLEAN, pruned' \in BOOLEAN,
         pc # "end", NEW r, NEW t, Arrives(r, t, visited), StandAt(r)
  PROVE  IterInv' /\ StepsOn
<1>0. Trail(r, visited \cup {t.entry}) /\ r # << >>
  BY DEF Arrives
<1>1. /\ stack' = r /\ visited' = visited \cup {t.entry} /\ pc' = "live"
      /\ err' = "ok" /\ kind' = kind
  BY DEF StandAt, world, Arrives
<1>2. Trail(stack, visited)'
  BY <1>0, <1>1, SameTrail
<1>3. Closed(visited)' /\ Fresh(stack, visited)'
  BY <1>1 DEF Arrives, Closed, Fresh
<1>4. TypeOK'
  BY <1>0, <1>1, <1>3 DEF IterInv, TypeOK, WorldTypeOK, world, Trail, Closed, IterationErrors
<1>5. Promise!Visit(t.entry) /\ t.entry \in Nodes
  BY <1>1 DEF Arrives, Promise!Visit, Current, Top
<1> QED BY <1>0, <1>1, <1>2, <1>3, <1>4, <1>5 DEF IterInv, StepsOn, Promise!Next

(* The end.                                                                *)
LEMMA FinishKeeps ==
  ASSUME IterInv, UNCHANGED world, recursion' \in BOOLEAN, pruned' \in BOOLEAN,
         NEW e \in IterationErrors, Finish(e)
  PROVE  IterInv' /\ StepsOn
<1>1. stack' = << >> /\ visited' = visited /\ pc' = "end" /\ err' = e /\ kind' = kind
  BY DEF Finish, world
<1>2. << >> \in Seq(Streams) /\ 1..Len(<< >>) = {}
  OBVIOUS
<1>3. Trail(stack, visited)'
  BY <1>1, <1>2 DEF Trail
<1>4. TypeOK' /\ Closed(visited)'
  BY <1>1, <1>2 DEF IterInv, TypeOK, WorldTypeOK, world, Closed
<1>5. Promise!End
  BY <1>1 DEF Promise!End
<1> QED BY <1>1, <1>3, <1>4, <1>5 DEF IterInv, StepsOn, Promise!Next

(* Advance() from a stack whose last entry is dealt with.                  *)
LEMMA AdvanceKeeps ==
  ASSUME IterInv, UNCHANGED world, recursion' \in BOOLEAN, pruned' \in BOOLEAN,
         pc # "end", NEW s, Trail(s, visited), Advance(s)
  PROVE  IterInv' /\ StepsOn
<1>1. CASE \E e \in IterationErrors : Finish(e)
  BY <1>1, FinishKeeps
<1>2. ASSUME NEW k \in 1..Len(s), NEW t \in NextEntries(s[k]),
             StandAt(Append(SubSeq(s, 1, k-1), t))
      PROVE  IterInv' /\ StepsOn
  <2>1. WorldTypeOK /\ Closed(visited)
    BY DEF IterInv, TypeOK
  <2>2. Arrives(Append(SubSeq(s, 1, k-1), t), t, visited)
    BY <2>1, MoveKeeps
  <2> QED BY <1>2, <2>2, StandKeeps
<1>3. ReadErrors \cup {"ok"} \subseteq IterationErrors
  BY DEF ReadErrors, IterationErrors
<1> QED BY <1>1, <1>2, <1>3 DEF Advance

(* A query on the entry changes the cache of the last stream, no more.     *)
LEMMA AskKeeps ==
  ASSUME IterInv, pc = "live", NEW r, Keeps(Call(Top.cache, "throw"), r), Ask(r)
  PROVE  IterInv' /\ StepsOn
<1>1. stack # << >> /\ stack \in Seq(Streams) /\ Len(stack) \in 1..Len(stack)
  BY DEF IterInv, Trail
<1>2. Fits(Current, Top.cache)
  BY <1>1 DEF IterInv, Trail, Current, Top
<1>3. Fits(Current, r.cache)
  BY <1>2, KeptFits DEF Keeps, Call
<1>4. /\ stack' = Remembering(r.cache)
      /\ UNCHANGED <<world, recursion, pc, err, visited, pruned>>
  BY DEF Ask
<1>5. /\ Trail(stack', visited) /\ stack' # << >>
      /\ stack'[Len(stack')].entry = Current
  BY <1>1, <1>3, <1>4, RememberKeeps DEF IterInv
<1>6. Trail(stack, visited)'
  BY <1>4, <1>5, SameTrail DEF world
<1>7. TypeOK'
  BY <1>4, <1>5 DEF IterInv, TypeOK, WorldTypeOK, world, Trail
<1>8. Closed(visited)' /\ Fresh(stack, visited)'
  BY <1>1, <1>4, <1>5 DEF IterInv, Closed, Fresh, Current, Top
<1>9. UNCHANGED traversal
  BY <1>1, <1>4, <1>5 DEF traversal, Current, Top
<1> QED BY <1>4, <1>5, <1>6, <1>7, <1>8, <1>9 DEF IterInv, StepsOn

(* What an Increment that looks at the entry works with.                   *)
LEMMA IncrementLooks ==
  ASSUME IterInv, pc = "live"
  PROVE  LET c == Classify
             s == Remembering(c.cache)
         IN /\ WorldTypeOK
            /\ Trail(s, visited) /\ s # << >> /\ Fresh(s, visited)
            /\ s[Len(s)].entry = Current
            /\ Len(s) = Len(stack)
            /\ \A i \in 1..Len(s) : s[i].left = stack[i].left
            /\ Current \in Nodes \cap visited
            /\ Fits(Current, Top.cache)
            /\ Descends(c) => kind[Current] = "directory" /\ DTypes
            /\ ClassifyError(c) \in {"ok", "ENOENT"}
            /\ DTypes => ClassifyError(c) = "ok"
            /\ (~Follows /\ ~Top.cache.symlink /\ ClassifyError(c) = "ok"
                 /\ kind[Current] = "directory") => Descends(c)
<1>1. stack # << >> /\ stack \in Seq(Streams) /\ Len(stack) \in 1..Len(stack)
  BY DEF IterInv, Trail
<1>2. Fits(Current, Top.cache) /\ Current \in Nodes \cap visited
  BY <1>1 DEF IterInv, Trail, Current, Top, Children
<1>3. WorldTypeOK
  BY DEF IterInv, TypeOK
<1>4. LET c == Classify IN
      /\ Fits(Current, c.cache)
      /\ Descends(c) => kind[Current] = "directory" /\ DTypes
      /\ ClassifyError(c) \in {"ok", "ENOENT"}
      /\ DTypes => ClassifyError(c) = "ok"
      /\ (~Follows /\ ~Top.cache.symlink /\ ClassifyError(c) = "ok"
           /\ kind[Current] = "directory") => Descends(c)
  BY <1>1, <1>2, <1>3, Classified
<1>5. LET s == Remembering(Classify.cache) IN
      /\ Trail(s, visited) /\ s # << >> /\ Len(s) = Len(stack)
      /\ s[Len(s)].entry = Current
      /\ \A i \in 1..Len(s) : s[i].left = stack[i].left
  BY <1>1, <1>4, RememberKeeps DEF IterInv
<1>6. Fresh(Remembering(Classify.cache), visited)
  BY <1>1, <1>5 DEF IterInv, Fresh, Current, Top
<1> QED BY <1>2, <1>3, <1>4, <1>5, <1>6

(* Every step keeps the invariant, and is a step of Traversal.             *)
LEMMA Steps == IterInv /\ [Next]_vars => IterInv' /\ StepsOn
<1> SUFFICES ASSUME IterInv, [Next]_vars
             PROVE  IterInv' /\ StepsOn
  OBVIOUS
<1>0. WorldTypeOK /\ recursion \in BOOLEAN /\ pruned \in BOOLEAN
  BY DEF IterInv, TypeOK
<1>1. CASE Construct
  <2>1. recursion' \in BOOLEAN /\ pruned' \in BOOLEAN /\ UNCHANGED world /\ visited = {}
    BY <1>0, <1>1 DEF Construct, IterInv
  <2>2. ASSUME NEW t \in OpenStreams(Root), StandAt(<<t>>)
        PROVE  IterInv' /\ StepsOn
    <3>1. Arrives(<<t>>, t, visited) /\ pc # "end"
      BY <1>0, <1>1, <2>1, FirstKeeps DEF Construct
    <3> QED BY <2>1, <2>2, <3>1, StandKeeps
  <2>3. OpenErrors(Root) \subseteq IterationErrors
    BY DEF OpenErrors, ReadErrors, IterationErrors
  <2> QED BY <1>1, <2>1, <2>2, <2>3, FinishKeeps DEF Construct
<1>2. CASE Increment
  <2>0. recursion' \in BOOLEAN /\ pruned' \in BOOLEAN /\ UNCHANGED world
        /\ pc = "live" /\ pc # "end"
    BY <1>0, <1>2 DEF Increment
  <2>1. CASE ~recursion
    BY <1>2, <2>0, <2>1, AdvanceKeeps DEF Increment, IterInv
  <2>2. CASE recursion
    <3> DEFINE c == Classify
               s == Remembering(c.cache)
    <3>1. /\ Trail(s, visited) /\ s # << >> /\ Fresh(s, visited)
          /\ s[Len(s)].entry = Current
          /\ Descends(c) => kind[Current] = "directory"
          /\ ClassifyError(c) \in {"ok", "ENOENT"}
      BY <2>0, IncrementLooks
    <3>2. \/ /\ Descends(c)
             /\ \E t \in OpenStreams(Current) : StandAt(Append(s, t))
          \/ \E e \in RecursionErrors(c) :
               IF Tolerated(e) THEN Advance(s) ELSE Finish(e)
      BY <1>2, <2>2 DEF Increment
    <3> HIDE DEF s, c
    <3>3. CASE Descends(c) /\ \E t \in OpenStreams(Current) : StandAt(Append(s, t))
      <4>1. PICK t \in OpenStreams(Current) : StandAt(Append(s, t))
        BY <3>3
      <4>2. Arrives(Append(s, t), t, visited)
        BY <1>0, <3>1, <3>3, PushKeeps DEF IterInv
      <4> QED BY <2>0, <4>1, <4>2, StandKeeps
    <3>4. ASSUME NEW e \in RecursionErrors(c),
                 IF Tolerated(e) THEN Advance(s) ELSE Finish(e)
          PROVE  IterInv' /\ StepsOn
      <4>1. e \in IterationErrors
        BY <3>1 DEF RecursionErrors, OpenErrors, ReadErrors, IterationErrors
      <4> QED BY <2>0, <3>1, <3>4, <4>1, AdvanceKeeps, FinishKeeps
    <3> QED BY <3>2, <3>3, <3>4
  <2> QED BY <1>0, <2>1, <2>2
<1>3. CASE Pop
  <2>1. recursion' \in BOOLEAN /\ pruned' \in BOOLEAN /\ UNCHANGED world
        /\ pc # "end" /\ stack # << >>
    BY <1>0, <1>3 DEF Pop, IterInv
  <2> DEFINE s == SubSeq(stack, 1, Len(stack) - 1)
  <2>2. Trail(s, visited)
    BY <2>1, PopKeeps DEF IterInv
  <2>3. Finish("ok") \/ Advance(s)
    BY <1>3 DEF Pop
  <2> HIDE DEF s
  <2> QED BY <2>1, <2>2, <2>3, AdvanceKeeps, FinishKeeps DEF IterationErrors
<1>4. CASE DisableRecursionPending
  <2>1. UNCHANGED <<kind, stack, visited, pc>> /\ pc # "new"
    BY <1>4 DEF DisableRecursionPending, world
  <2>2. Trail(stack, visited)'
    BY <2>1, SameTrail DEF IterInv
  <2>3. TypeOK'
    BY <1>4 DEF DisableRecursionPending, IterInv, TypeOK, WorldTypeOK, world
  <2>4. Closed(visited)' /\ (stack # << >> => Fresh(stack, visited))'
    BY <2>1 DEF IterInv, Closed, Fresh
  <2>5. UNCHANGED traversal
    BY <2>1 DEF traversal, Current, Top
  <2> QED BY <2>1, <2>2, <2>3, <2>4, <2>5 DEF IterInv, StepsOn
<1>5. CASE IncrementAtEnd
  <2>1. UNCHANGED <<kind, stack, visited, pc>> /\ pc # "new"
    BY <1>5 DEF IncrementAtEnd, world
  <2>2. Trail(stack, visited)'
    BY <2>1, SameTrail DEF IterInv
  <2>3. TypeOK'
    BY <1>5 DEF IncrementAtEnd, IterInv, TypeOK, WorldTypeOK, world, IterationErrors
  <2>4. Closed(visited)' /\ (stack # << >> => Fresh(stack, visited))'
    BY <2>1 DEF IterInv, Closed, Fresh
  <2>5. UNCHANGED traversal
    BY <2>1 DEF traversal, Current, Top
  <2> QED BY <2>1, <2>2, <2>3, <2>4, <2>5 DEF IterInv, StepsOn
<1>6. CASE EntryIsDirectory \/ EntryFileSize \/ EntryStatus
  <2> DEFINE k == Call(Top.cache, "throw")
             st == Stat(Current)
  <2>1. pc = "live"
    BY <1>6 DEF EntryIsDirectory, EntryFileSize, EntryStatus
  <2>2. Fits(Current, Top.cache) /\ Current \in Nodes
    BY <2>1, IncrementLooks
  <2>3. k \in Calls /\ k.cache.cache_type # "EMPTY" /\ st \in Results
    BY <1>0, <2>2, CallsAndResults DEF Modes, Fits
  <2>4. Keeps(k, GetFileType(k, st)) /\ Keeps(k, GetSize(k, st)) /\ Keeps(k, GetStatus(k, st))
    BY <2>3, FileTypeKeeps, SizeKeeps, StatusKeeps
  <2>5. Ask(GetFileType(k, st)) \/ Ask(GetSize(k, st)) \/ Ask(GetStatus(k, st))
    BY <1>6 DEF EntryIsDirectory, EntryFileSize, EntryStatus
  <2> QED BY <2>1, <2>4, <2>5, AskKeeps
<1>7. CASE Environment
  <2>1. UNCHANGED <<kind, options, iterator, pruned>> /\ present' \subseteq present
        /\ denied' \subseteq Directories
    BY <1>0, <1>7 DEF Environment, Remove, Deny, WorldTypeOK, Directories
  <2>2. Trail(stack, visited)'
    BY <2>1, SameTrail DEF IterInv, iterator
  <2>3. TypeOK'
    BY <2>1 DEF IterInv, TypeOK, WorldTypeOK, iterator
  <2>4. Closed(visited)' /\ (stack # << >> => Fresh(stack, visited))'
    BY <2>1 DEF IterInv, Closed, Fresh, iterator
  <2>5. UNCHANGED traversal
    BY <2>1 DEF traversal, Current, Top, iterator
  <2> QED BY <2>1, <2>2, <2>3, <2>4, <2>5 DEF IterInv, StepsOn, iterator
<1>8. CASE UNCHANGED vars
  <2>1. UNCHANGED <<kind, present, denied, options, stack, visited, pc, err, recursion, pruned>>
    BY <1>8 DEF vars, world, iterator
  <2>2. Trail(stack, visited)'
    BY <2>1, SameTrail DEF IterInv
  <2>3. TypeOK'
    BY <2>1 DEF IterInv, TypeOK, WorldTypeOK
  <2>4. Closed(visited)' /\ (stack # << >> => Fresh(stack, visited))'
    BY <2>1 DEF IterInv, Closed, Fresh
  <2>5. UNCHANGED traversal
    BY <2>1 DEF traversal, Current, Top
  <2> QED BY <2>1, <2>2, <2>3, <2>4, <2>5 DEF IterInv, StepsOn
<1> QED BY <1>1, <1>2, <1>3, <1>4, <1>5, <1>6, <1>7, <1>8 DEF Next, Drive

(* The iterator before its constructor.                                    *)
LEMMA Start == Init => IterInv
<1> SUFFICES ASSUME Init PROVE IterInv
  OBVIOUS
<1>1. << >> \in Seq(Streams) /\ 1..Len(<< >>) = {}
  OBVIOUS
<1>2. Trail(<< >>, {})
  BY <1>1 DEF Trail
<1>3. WorldTypeOK
  BY StartAssumption DEF Init, WorldInit, WorldTypeOK
<1> QED BY <1>1, <1>2, <1>3 DEF Init, IterInv, TypeOK, Closed, IterationErrors

(* The invariant holds of every behaviour.                                 *)
LEMMA Invariance == Spec => []IterInv
<1>1. IterInv /\ [Next]_vars => IterInv'
  BY Steps
<1> QED BY <1>1, Start, PTL DEF Spec

(* The stack of a recursive_directory_iterator is always the path to its   *)
(* entry, and holds no stream opened on a link.                            *)
THEOREM StackStaysATrail == Spec => []StackIsTrail
<1>1. IterInv => StackIsTrail
  <2> SUFFICES ASSUME IterInv PROVE StackIsTrail
    OBVIOUS
  <2>1. \A i \in 2..Len(stack) : i \in 1..Len(stack) /\ i # 1
    BY DEF IterInv, Trail
  <2>2. \A i \in 2..Len(stack) : kind[stack[i].root] = "directory"
    BY <2>1 DEF IterInv, Trail
  <2>3. \A i \in 1..Len(stack) :
          /\ stack[i].root = (IF i = 1 THEN Root ELSE stack[i-1].entry)
          /\ stack[i].entry \in Children(stack[i].root)
    BY DEF IterInv, Trail
  <2> QED BY <2>2, <2>3 DEF StackIsTrail, IterInv
<1> QED BY <1>1, Invariance, PTL

(* A recursive_directory_iterator implements Traversal: it stands at each  *)
(* node at most once and after the directory the node is in, and the end   *)
(* is for good, whatever the program and others do.                        *)
THEOREM TraversalRefined == Spec => ImplementsTraversal
<1>1. Init => Promise!Init
  BY DEF Init, Promise!Init
<1>2. IterInv /\ [Next]_vars => [Promise!Next]_<<visited, IF stack = << >> THEN Root ELSE Current, pc = "end">>
  BY Steps DEF StepsOn, traversal
<1> QED BY <1>1, <1>2, Invariance, PTL DEF Spec, ImplementsTraversal, Promise!Spec

-----------------------------------------------------------------------------
(* Errors.                                                                 *)

(* An error that has a cause in the tree as it is now.                     *)
Justified(e) ==
  /\ present = Nodes /\ denied = {} => e \in {"ok", "EINVAL"} \cup ReadErrors
  /\ Skips => e # "EACCES"

(* An operation leaves the end with a justified error, or an entry.        *)
LEMMA JustifiedEnd ==
  ASSUME QuietSucceeds, UNCHANGED world,
         (\E r : StandAt(r)) \/ (\E e : Justified(e) /\ Finish(e))
  PROVE  QuietSucceeds'
<1>1. CASE \E r : StandAt(r)
  BY <1>1 DEF StandAt, QuietSucceeds, world
<1>2. CASE \E e : Justified(e) /\ Finish(e)
  BY <1>2 DEF Finish, Justified, QuietSucceeds, world, Skips, ReadErrors
<1> QED BY <1>1, <1>2

(* Advance() fails only where a read fails.                                *)
LEMMA AdvanceJustified ==
  ASSUME QuietSucceeds, UNCHANGED world, NEW s, Advance(s)
  PROVE  QuietSucceeds'
<1>1. Justified("ok") /\ \A e \in ReadErrors : Justified(e)
  BY DEF Justified, ReadErrors
<1> QED BY <1>1, JustifiedEnd DEF Advance

(* Opening what is a directory fails for a reason.                         *)
LEMMA OpenJustified ==
  ASSUME NEW d, d = Root \/ (d \in Nodes /\ kind[d] = "directory"),
         NEW e \in OpenErrors(d)
  PROVE  Justified(e)
BY DEF OpenErrors, Opens, Justified, ReadErrors

(* No step reports an error without a cause.                               *)
LEMMA QuietStep ==
  ASSUME DTypes
  PROVE  IterInv /\ QuietSucceeds /\ [Next]_vars => QuietSucceeds'
<1> SUFFICES ASSUME IterInv, QuietSucceeds, [Next]_vars
             PROVE  QuietSucceeds'
  OBVIOUS
<1>1. CASE Construct
  <2>1. UNCHANGED world
    BY <1>1 DEF Construct
  <2>2. \A e \in OpenErrors(Root) : Justified(e)
    BY OpenJustified
  <2> QED BY <1>1, <2>1, <2>2, JustifiedEnd DEF Construct
<1>2. CASE Increment
  <2>1. UNCHANGED world /\ pc = "live"
    BY <1>2 DEF Increment
  <2>2. CASE ~recursion
    BY <1>2, <2>1, <2>2, AdvanceJustified DEF Increment
  <2>3. CASE recursion
    <3> DEFINE c == Classify
               s == Remembering(c.cache)
    <3>1. /\ Current \in Nodes
          /\ Descends(c) => kind[Current] = "directory"
          /\ ClassifyError(c) = "ok"
      BY <2>1, IncrementLooks
    <3>2. \/ \E t \in OpenStreams(Current) : StandAt(Append(s, t))
          \/ \E e \in RecursionErrors(c) :
               IF Tolerated(e) THEN Advance(s) ELSE Finish(e)
      BY <1>2, <2>3 DEF Increment
    <3> HIDE DEF s, c
    <3>3. \A e \in RecursionErrors(c) : Justified(e)
      <4>1. CASE Descends(c)
        BY <3>1, <4>1, OpenJustified DEF RecursionErrors
      <4>2. CASE ~Descends(c)
        BY <3>1, <4>2 DEF RecursionErrors, Justified
      <4> QED BY <4>1, <4>2
    <3> QED BY <2>1, <3>2, <3>3, JustifiedEnd, AdvanceJustified
  <2> QED BY <2>2, <2>3 DEF IterInv, TypeOK
<1>3. CASE Pop
  <2> DEFINE s == SubSeq(stack, 1, Len(stack) - 1)
  <2>1. UNCHANGED world /\ (Finish("ok") \/ Advance(s))
    BY <1>3 DEF Pop
  <2>2. Justified("ok")
    BY DEF Justified
  <2> HIDE DEF s
  <2> QED BY <2>1, <2>2, JustifiedEnd, AdvanceJustified
<1>4. CASE DisableRecursionPending
  BY <1>4 DEF DisableRecursionPending, QuietSucceeds, world, Skips, ReadErrors
<1>5. CASE IncrementAtEnd
  BY <1>5 DEF IncrementAtEnd, QuietSucceeds, world, Skips, ReadErrors
<1>6. CASE EntryIsDirectory \/ EntryFileSize \/ EntryStatus
  BY <1>6 DEF EntryIsDirectory, EntryFileSize, EntryStatus, Ask, QuietSucceeds,
     world, Skips, ReadErrors
<1>7. CASE Environment
  <2>1. UNCHANGED <<options, pc, err>>
        /\ (present' = Nodes /\ denied' = {} => present = Nodes /\ denied = {})
    BY <1>7 DEF Environment, Remove, Deny, iterator, IterInv, TypeOK, WorldTypeOK
  <2> QED BY <2>1 DEF QuietSucceeds, Skips, ReadErrors
<1>8. CASE UNCHANGED vars
  BY <1>8 DEF vars, iterator, world, QuietSucceeds, Skips, ReadErrors
<1> QED BY <1>1, <1>2, <1>3, <1>4, <1>5, <1>6, <1>7, <1>8 DEF Next, Drive

(* Where readdir() knows the types of the entries, an iteration has no     *)
(* error without a cause, and an error ends it.                            *)
THEOREM ErrorsHaveReasons ==
  ASSUME DTypes
  PROVE  Spec => []QuietSucceeds
<1>1. Init => QuietSucceeds
  BY DEF Init, QuietSucceeds
<1>2. IterInv /\ QuietSucceeds /\ [Next]_vars => QuietSucceeds'
  BY QuietStep
<1> QED BY <1>1, <1>2, Invariance, PTL DEF Spec

-----------------------------------------------------------------------------
(* Completeness.                                                           *)

(* No link in the tree, and none would be followed.                        *)
Unlinked == ~Follows /\ \A n \in Nodes : ~IsLink(n)

(* A directory that is listed, or will be.                                 *)
Reached(d, v) == d \notin denied /\ (d = Root \/ (d \in v /\ kind[d] = "directory"))

(* What is still there in such a directory has been visited, is left to    *)
(* some stream, or is below an entry that is still to be opened.           *)
Covered(s, v, pending) ==
  \A n \in present :
    Reached(Parent[n], v) =>
      \/ n \in v
      \/ \E i \in 1..Len(s) : n \in s[i].left
      \/ Parent[n] \in pending

CompleteInv ==
  Unlinked /\ ~pruned =>
    /\ pc = "live" => recursion /\ Covered(stack, visited, {Current})
    /\ pc = "end" /\ err = "ok" => Covered(<< >>, visited, {})

(* Standing at an entry whose siblings are left, or at the end.            *)
LEMMA StandCovers ==
  ASSUME UNCHANGED world, NEW r, NEW t, Arrives(r, t, visited), StandAt(r), recursion',
         Unlinked /\ ~pruned' => Covered(r, visited \cup {t.entry}, {t.entry})
  PROVE  CompleteInv'
<1>1. /\ stack' = r /\ visited' = visited \cup {t.entry} /\ pc' = "live"
      /\ UNCHANGED <<kind, present, denied, options>>
  BY DEF StandAt, world, Arrives
<1>2. Current' = t.entry
  BY <1>1 DEF Current, Top, Arrives
<1> QED BY <1>1, <1>2 DEF CompleteInv, Unlinked, Covered, Reached, IsLink, Follows

(* At the end nothing is left.                                             *)
LEMMA FinishCovers ==
  ASSUME UNCHANGED world, NEW e, Finish(e),
         Unlinked /\ ~pruned' /\ e = "ok" => Covered(<< >>, visited, {})
  PROVE  CompleteInv'
<1>1. /\ visited' = visited /\ pc' = "end" /\ err' = e
      /\ UNCHANGED <<kind, present, denied, options>>
  BY DEF Finish, world
<1> QED BY <1>1 DEF CompleteInv, Unlinked, Covered, Reached, IsLink, Follows

(* Advance() leaves nothing out: the streams it pops have nothing left     *)
(* that is still there.                                                    *)
LEMMA AdvanceCovers ==
  ASSUME IterInv, UNCHANGED world, recursion', NEW s, Trail(s, visited), Advance(s),
         Unlinked /\ ~pruned' => Covered(s, visited, {})
  PROVE  CompleteInv'
<1>0. WorldTypeOK /\ Closed(visited) /\ s \in Seq(Streams) /\ Len(s) \in Nat
  BY DEF IterInv, TypeOK, Trail
<1>1. CASE (\A i \in 1..Len(s) : MayEnd(s[i])) /\ Finish("ok")
  <2>1. Unlinked /\ ~pruned' => Covered(<< >>, visited, {})
    BY <1>1 DEF Covered, MayEnd
  <2> QED BY <1>1, <2>1, FinishCovers
<1>2. ASSUME NEW k \in 1..Len(s), \A i \in k+1..Len(s) : MayEnd(s[i]),
             NEW t \in NextEntries(s[k]), StandAt(Append(SubSeq(s, 1, k-1), t))
      PROVE  CompleteInv'
  <2> DEFINE r == Append(SubSeq(s, 1, k-1), t)
             w == visited \cup {t.entry}
  <2>1. Arrives(r, t, visited)
    BY <1>0, MoveKeeps
  <2>2. s[k] \in Streams /\ s[k].left \subseteq Children(s[k].root)
        /\ Fits(s[k].entry, s[k].cache)
    BY <1>0 DEF Trail
  <2>3. t \in Streams /\ t.left = s[k].left \ {t.entry}
    BY <1>0, <2>2, NextEntry DEF Fits, CachedData
  <2>4. Len(r) = k /\ r[k] = t /\ \A i \in 1..k-1 : r[i] = s[i]
    BY <1>0, <2>3, Replaced
  <2>5. StandAt(r)
    BY <1>2
  <2> HIDE DEF r
  <2>6. ASSUME Unlinked, ~pruned', NEW n \in present, Reached(Parent[n], w)
        PROVE  \/ n \in w
               \/ \E i \in 1..Len(r) : n \in r[i].left
               \/ Parent[n] \in {t.entry}
    <3>1. CASE Parent[n] = t.entry
      BY <3>1
    <3>2. CASE Parent[n] # t.entry
      <4>1. n \in visited \/ \E i \in 1..Len(s) : n \in s[i].left
        BY <2>6, <3>2 DEF Reached, Covered
      <4>2. ASSUME NEW i \in 1..Len(s), n \in s[i].left
            PROVE  n \in w \/ \E j \in 1..Len(r) : n \in r[j].left
        <5>1. i \notin k+1..Len(s)
          BY <1>2, <2>6, <4>2 DEF MayEnd
        <5>2. i = k \/ i \in 1..k-1
          BY <1>0, <5>1
        <5>3. CASE i = k
          BY <2>3, <2>4, <4>2, <5>3
        <5>4. CASE i \in 1..k-1
          BY <2>4, <4>2, <5>4
        <5> QED BY <5>2, <5>3, <5>4
      <4> QED BY <4>1, <4>2
    <3> QED BY <3>1, <3>2
  <2>7. Unlinked /\ ~pruned' => Covered(r, w, {t.entry})
    BY <2>6 DEF Covered
  <2> QED BY <2>1, <2>5, <2>7, StandCovers
<1>3. ASSUME NEW e \in ReadErrors, Finish(e)
      PROVE  CompleteInv'
  <2>1. e # "ok"
    BY DEF ReadErrors
  <2> QED BY <1>3, <2>1, FinishCovers
<1> QED BY <1>1, <1>2, <1>3 DEF Advance

(* A directory that is not opened, and no error, has nothing to list.      *)
LEMMA NothingToList ==
  ASSUME WorldTypeOK, NEW d, d = Root \/ (d \in Nodes /\ kind[d] = "directory"),
         d \notin denied, NEW e \in OpenErrors(d), Tolerated(e),
         NEW n \in present, Parent[n] = d
  PROVE  FALSE
<1>1. n \in Children(d) \cap present
  BY DEF Children, WorldTypeOK
<1>2. ~MayEnd(NewStream(d))
  BY <1>1 DEF MayEnd, NewStream
<1>3. e \in {"ENOENT", "ENOTDIR"} \cup ReadErrors
  BY <1>2 DEF OpenErrors
<1> QED BY <1>3 DEF Tolerated, ReadErrors

(* An operation that goes on from an entry it need not descend into, or    *)
(* has descended into, leaves nothing out.                                 *)
LEMMA IncrementCovers ==
  ASSUME IterInv, CompleteInv, Increment
  PROVE  CompleteInv'
<1> DEFINE c == Classify
           s == Remembering(c.cache)
<1>1. /\ UNCHANGED world /\ UNCHANGED pruned /\ recursion' /\ pc = "live"
      /\ stack # << >> /\ WorldTypeOK /\ Closed(visited) /\ Trail(stack, visited)
  BY DEF Increment, IterInv, TypeOK
<1>2. Unlinked /\ ~pruned => recursion /\ Covered(stack, visited, {Current})
  BY <1>1 DEF CompleteInv
<1>3. CASE ~recursion
  <2>1. Advance(stack) /\ (Unlinked /\ ~pruned' => Covered(stack, visited, {}))
    BY <1>1, <1>2, <1>3 DEF Increment
  <2> QED BY <1>1, <2>1, AdvanceCovers
<1>4. CASE recursion
  <2>1. /\ Trail(s, visited) /\ s # << >> /\ Fresh(s, visited)
        /\ s[Len(s)].entry = Current
        /\ Len(s) = Len(stack)
        /\ \A i \in 1..Len(s) : s[i].left = stack[i].left
        /\ Current \in Nodes \cap visited
        /\ Fits(Current, Top.cache)
        /\ Descends(c) => kind[Current] = "directory"
        /\ ClassifyError(c) \in {"ok", "ENOENT"}
        /\ (~Follows /\ ~Top.cache.symlink /\ ClassifyError(c) = "ok"
             /\ kind[Current] = "directory") => Descends(c)
    BY <1>1, IncrementLooks
  <2>2. \/ Descends(c) /\ \E t \in OpenStreams(Current) : StandAt(Append(s, t))
        \/ \E e \in RecursionErrors(c) :
             IF Tolerated(e) THEN Advance(s) ELSE Finish(e)
    BY <1>4 DEF Increment
  <2>3. Unlinked /\ ~pruned' => Covered(s, visited, {Current})
    BY <1>1, <1>2, <2>1 DEF Covered
  <2> HIDE DEF s, c
  <2>4. ASSUME Descends(c), NEW t \in OpenStreams(Current), StandAt(Append(s, t))
        PROVE  CompleteInv'
    <3> DEFINE r == Append(s, t)
    <3>1. Arrives(r, t, visited)
      BY <1>1, <2>1, <2>4, PushKeeps
    <3>2. t \in Streams /\ t.left = (Children(Current) \cap present) \ {t.entry}
      BY <1>1, <2>1, OpenedStream DEF Directories
    <3>3. s \in Seq(Streams) /\ Len(s) \in Nat
      BY <2>1 DEF Trail
    <3>4. Len(r) = Len(s) + 1 /\ r[Len(s) + 1] = t /\ \A i \in 1..Len(s) : r[i] = s[i]
      BY <3>2, <3>3
    <3>5. StandAt(r)
      BY <2>4
    <3> HIDE DEF r
    <3>6. ASSUME Unlinked, ~pruned', NEW n \in present,
                 Reached(Parent[n], visited \cup {t.entry})
          PROVE  \/ n \in visited \cup {t.entry}
                 \/ \E i \in 1..Len(r) : n \in r[i].left
                 \/ Parent[n] \in {t.entry}
      <4>1. CASE Parent[n] = t.entry
        BY <4>1
      <4>2. CASE Parent[n] = Current
        <5>1. n \in Children(Current) \cap present
          BY <1>1, <4>2 DEF Children, WorldTypeOK
        <5>2. Len(r) \in 1..Len(r) /\ r[Len(r)] = t
          BY <3>3, <3>4
        <5> QED BY <3>2, <5>1, <5>2
      <4>3. CASE Parent[n] # t.entry /\ Parent[n] # Current
        <5>1. n \in visited \/ \E i \in 1..Len(s) : n \in s[i].left
          BY <2>3, <3>6, <4>3 DEF Reached, Covered
        <5>2. \A i \in 1..Len(s) : i \in 1..Len(r) /\ r[i] = s[i]
          BY <3>3, <3>4
        <5> QED BY <5>1, <5>2
      <4> QED BY <4>1, <4>2, <4>3
    <3>7. Unlinked /\ ~pruned' => Covered(r, visited \cup {t.entry}, {t.entry})
      BY <3>6 DEF Covered
    <3> QED BY <1>1, <3>1, <3>5, <3>7, StandCovers
  <2>5. ASSUME NEW e \in RecursionErrors(c), Tolerated(e), Advance(s)
        PROVE  CompleteInv'
    <3>1. ASSUME Unlinked, Reached(Current, visited), NEW n \in present, Parent[n] = Current
          PROVE  FALSE
      <4>1. kind[Current] = "directory" /\ Current \notin denied
        BY <2>1, <3>1, TreeAssumption DEF Reached
      <4>2. ~Top.cache.symlink /\ ~Follows
        BY <2>1, <3>1 DEF Fits, Unlinked
      <4>3. CASE Descends(c)
        BY <1>1, <2>1, <2>5, <3>1, <4>1, <4>3, NothingToList DEF RecursionErrors
      <4>4. CASE ~Descends(c)
        BY <2>1, <2>5, <4>1, <4>2, <4>4 DEF RecursionErrors, Tolerated
      <4> QED BY <4>3, <4>4
    <3>2. Unlinked /\ ~pruned' => Covered(s, visited, {})
      BY <2>3, <3>1 DEF Covered
    <3> QED BY <1>1, <2>1, <2>5, <3>2, AdvanceCovers
  <2>6. ASSUME NEW e \in RecursionErrors(c), ~Tolerated(e), Finish(e)
        PROVE  CompleteInv'
    <3>1. e # "ok"
      BY <2>6 DEF Tolerated
    <3> QED BY <1>1, <2>6, <3>1, FinishCovers
  <2> QED BY <2>2, <2>4, <2>5, <2>6
<1> QED BY <1>3, <1>4

(* The first directory is listed, or has nothing to list.                  *)
LEMMA ConstructCovers ==
  ASSUME IterInv, Construct
  PROVE  CompleteInv'
<1>1. /\ UNCHANGED world /\ recursion' /\ WorldTypeOK /\ visited = {}
  BY DEF Construct, IterInv, TypeOK
<1>2. ASSUME NEW t \in OpenStreams(Root), StandAt(<<t>>)
      PROVE  CompleteInv'
  <2> DEFINE r == <<t>>
  <2>1. Arrives(r, t, visited)
    BY <1>1, FirstKeeps
  <2>2. t.left = (Children(Root) \cap present) \ {t.entry}
    BY <1>1, OpenedStream DEF Directories
  <2>3. StandAt(r) /\ Len(r) = 1 /\ r[1] = t
    BY <1>2
  <2> HIDE DEF r
  <2>4. ASSUME NEW n \in present, Reached(Parent[n], visited \cup {t.entry})
        PROVE  \/ n \in visited \cup {t.entry}
               \/ \E i \in 1..Len(r) : n \in r[i].left
               \/ Parent[n] \in {t.entry}
    <3>1. CASE Parent[n] = Root
      <4>1. n \in Children(Root) \cap present
        BY <1>1, <3>1 DEF Children, WorldTypeOK
      <4> QED BY <2>2, <2>3, <4>1
    <3>2. CASE Parent[n] # Root
      BY <1>1, <2>4, <3>2 DEF Reached
    <3> QED BY <3>1, <3>2
  <2>5. Covered(r, visited \cup {t.entry}, {t.entry})
    BY <2>4 DEF Covered
  <2> QED BY <1>1, <1>2, <2>1, <2>3, <2>5, StandCovers
<1>3. ASSUME NEW e \in OpenErrors(Root), Finish(e)
      PROVE  CompleteInv'
  <2>1. e = "ok" => Covered(<< >>, visited, {})
    <3> SUFFICES ASSUME e = "ok", NEW n \in present, Reached(Parent[n], visited)
                 PROVE  FALSE
      BY DEF Covered
    <3>1. Parent[n] = Root /\ Root \notin denied
      BY <1>1 DEF Reached
    <3>2. e \in OpenErrors(Root) /\ Tolerated(e)
      BY <1>3 DEF Tolerated
    <3> QED BY <1>1, <3>1, <3>2, NothingToList
  <2> QED BY <1>1, <1>3, <2>1, FinishCovers
<1> QED BY <1>2, <1>3 DEF Construct

(* No step leaves anything out.                                            *)
LEMMA CompleteStep == IterInv /\ CompleteInv /\ [Next]_vars => CompleteInv'
<1> SUFFICES ASSUME IterInv, CompleteInv, [Next]_vars
             PROVE  CompleteInv'
  OBVIOUS
<1>1. CASE Construct
  BY <1>1, ConstructCovers
<1>2. CASE Increment
  BY <1>2, IncrementCovers
<1>3. CASE Pop \/ DisableRecursionPending
  BY <1>3 DEF Pop, DisableRecursionPending, CompleteInv
<1>4. CASE IncrementAtEnd
  BY <1>4 DEF IncrementAtEnd, CompleteInv
<1>5. CASE EntryIsDirectory \/ EntryFileSize \/ EntryStatus
  <2> DEFINE k == Call(Top.cache, "throw")
             st == Stat(Current)
  <2>1. pc = "live" /\ \E r : Ask(r) /\ r \in {GetFileType(k, st), GetSize(k, st), GetStatus(k, st)}
    BY <1>5 DEF EntryIsDirectory, EntryFileSize, EntryStatus
  <2>2. Fits(Current, Top.cache) /\ Current \in Nodes /\ WorldTypeOK
    BY <2>1, IncrementLooks
  <2>3. k \in Calls /\ k.cache = Top.cache /\ k.cache.cache_type # "EMPTY" /\ st \in Results
    BY <2>2, CallsAndResults DEF Modes, Fits
  <2> HIDE DEF k, st
  <2>4. PICK r : Ask(r) /\ Keeps(k, r)
    BY <2>1, <2>3, FileTypeKeeps, SizeKeeps, StatusKeeps
  <2>5. Fits(Current, r.cache)
    BY <2>2, <2>3, <2>4, KeptFits DEF Keeps
  <2>6. /\ stack' = Remembering(r.cache)
        /\ UNCHANGED <<world, recursion, pc, err, visited, pruned>>
    BY <2>4 DEF Ask
  <2>7. /\ Len(stack') = Len(stack)
        /\ stack'[Len(stack')].entry = Current
        /\ \A i \in 1..Len(stack') : stack'[i].left = stack[i].left
    BY <2>1, <2>5, <2>6, RememberKeeps DEF IterInv
  <2>8. Current' = Current
    BY <2>7 DEF Current, Top
  <2> QED BY <2>1, <2>6, <2>7, <2>8
      DEF CompleteInv, Unlinked, Covered, Reached, IsLink, Follows, world
<1>6. CASE Environment
  <2>1. UNCHANGED <<kind, options, stack, recursion, pc, err, visited, pruned>>
        /\ present' \subseteq present /\ denied \subseteq denied'
    BY <1>6 DEF Environment, Remove, Deny, iterator
  <2>2. Current' = Current
    BY <2>1 DEF Current, Top
  <2> QED BY <2>1, <2>2 DEF CompleteInv, Unlinked, Covered, Reached, IsLink, Follows
<1>7. CASE UNCHANGED vars
  <2>1. UNCHANGED <<kind, present, denied, options, stack, recursion, pc, err, visited, pruned>>
    BY <1>7 DEF vars, world, iterator
  <2>2. Current' = Current
    BY <2>1 DEF Current, Top
  <2> QED BY <2>1, <2>2 DEF CompleteInv, Unlinked, Covered, Reached, IsLink, Follows
<1> QED BY <1>1, <1>2, <1>3, <1>4, <1>5, <1>6, <1>7 DEF Next, Drive

(* In a tree without links an iteration that was not pruned, and ended     *)
(* without an error, stood at everything that is still there, although     *)
(* others removed and closed what they liked meanwhile.                    *)
THEOREM NothingIsLeftOut == Spec => []CompleteWithoutLinks
<1>1. Init => CompleteInv
  BY DEF Init, CompleteInv
<1>2. IterInv /\ CompleteInv => CompleteWithoutLinks
  <2> SUFFICES ASSUME CompleteInv, Unlinked, pc = "end", err = "ok", ~pruned,
                      NEW n \in present, Listable(Parent[n])
               PROVE  n \in visited
    BY DEF CompleteWithoutLinks, Complete, Unlinked
  <2>1. Reached(Parent[n], visited)
    BY DEF Listable, Reached, Unlinked
  <2>2. Covered(<< >>, visited, {}) /\ 1..Len(<< >>) = {}
    BY DEF CompleteInv
  <2> QED BY <2>1, <2>2 DEF Covered
<1> QED BY <1>1, <1>2, CompleteStep, Invariance, PTL DEF Spec

-----------------------------------------------------------------------------
(* DirectoryEntry: the cache of one entry.                                 *)

(* A cache that never held a directory entry read by an iterator: links    *)
(* were followed by stat(), and an empty cache holds nothing.              *)
Own(c) ==
  /\ c \in CachedData(EntryStamps)
  /\ ~c.symlink /\ ~c.type_resolved /\ ~c.extra_resolved /\ ~c.perms_resolved
  /\ c.cache_type # "BASIC"
  /\ c.cache_type = "EMPTY" => c.type = "none"
  /\ c.type = "none" => \A a \in Attributes : c[a] = Unset

(* The data of two caches agree; their bookkeeping need not.               *)
SameData(c, d) ==
  /\ d.type = c.type
  /\ \A a \in Attributes : d[a] = c[a]

(* The data of cache d is that of one successful stat().                   *)
ReadFrom(d, st) ==
  /\ st.err = "ok" 
  /\ d.type = st.type
  /\ d.write_time = st.stamp
  /\ d.size = IF st.type = "regular" THEN st.stamp ELSE Unset

(* What stat() can return: never a link, an error exactly for nothing.     *)
StatResult(st) ==
  /\ st \in [type : FileTypes, err : Errors, stamp : EntryStamps]
  /\ st.type # "symlink"
  /\ st.err = "ok" <=> Exists(st.type)

(* The records the operators of EntryCache pass on.                        *)
EntryCalls == [cache : CachedData(EntryStamps), mode : Modes, err : Errors,
          failed : BOOLEAN, type : FileTypes, stamp : EntryStamps]

(* Filling a cache that is empty reads one stat() or keeps the data; one   *)
(* that is not empty stays as it is.                                       *)
LEMMA FirstStat ==
  ASSUME NEW k \in EntryCalls, Own(k.cache), NEW st, StatResult(st),
         NEW follow \in BOOLEAN
  PROVE  LET r == BasicIfEmpty(k, st, follow) IN
         /\ r \in EntryCalls
         /\ Own(r.cache)
         /\ r.mode = k.mode
         /\ r.failed = k.failed
         /\ r.type = k.type
         /\ r.stamp = k.stamp
         /\ k.cache.cache_type # "EMPTY" => r = k
         /\ SameData(k.cache, r.cache) \/ (k.cache.cache_type = "EMPTY" /\ ReadFrom(r.cache, st))
<1> DEFINE r == BasicIfEmpty(k, st, follow)
<1>1. CASE k.cache.cache_type # "EMPTY"
  BY <1>1 DEF BasicIfEmpty, SameData
<1>2. CASE k.cache.cache_type = "EMPTY" /\ st.err # "ok"
  <2>1. r = [k EXCEPT !.err = st.err]
    BY <1>2 DEF BasicIfEmpty, UpdateBasicFileInformation
  <2> QED BY <1>2, <2>1 DEF EntryCalls, StatResult, SameData
<1>3. CASE k.cache.cache_type = "EMPTY" /\ st.err = "ok"
  <2> DEFINE c == k.cache
             d == [c EXCEPT !.symlink = FALSE, !.type = st.type,
                            !.size = IF st.type = "regular" THEN st.stamp ELSE @,
                            !.write_time = st.stamp, !.cache_type = "FULL"]
  <2>0. c \in CachedData(EntryStamps) /\ c.cache_type = "EMPTY" BY <1>3 DEF Own
  <2>1. r = [k EXCEPT !.err = "ok", !.cache = d]
    <3>1. FirstFill(c, st) = [c EXCEPT !.symlink = FALSE, !.type = st.type]
      BY <2>0 DEF FirstFill, StatResult, CachedData
    <3> QED BY <1>3, <3>1 DEF StatResult, BasicIfEmpty, UpdateBasicFileInformation,
       CachedData
  <2>2. d \in CachedData(EntryStamps)
    BY <2>0 DEF StatResult, CachedData, CacheTypes
  <2>3. Own(d)
    BY <2>0, <2>2, <1>3 DEF Own, StatResult, Exists, StatusKnown, CachedData
  <2>4. ReadFrom(d, st)
    BY <2>0, <1>3 DEF Own, StatResult, ReadFrom, Attributes, CachedData
  <2>5. r \in EntryCalls
    BY <2>1, <2>2 DEF EntryCalls, Errors
  <2> QED BY <2>1, <2>3, <2>4, <2>5, <1>3 DEF EntryCalls
<1> QED BY <1>1, <1>2, <1>3

(* The two later fillers change bookkeeping only, and are not asserted     *)
(* against when they start from FULL.                                      *)
LEMMA FillMoreKeepsOwn ==
  ASSUME NEW k \in EntryCalls, Own(k.cache), NEW st, StatResult(st),
         NEW follow \in BOOLEAN, NEW resolved \in BOOLEAN,
         NEW next \in {"EXTRA", "FULL"}
  PROVE  LET r == FillMore(k, st, follow, resolved, next) IN
         /\ r \in EntryCalls
         /\ Own(r.cache)
         /\ r.mode = k.mode
         /\ r.type = k.type
         /\ r.stamp = k.stamp
         /\ SameData(k.cache, r.cache)
         /\ Thrown(k) => r = k
         /\ ~Thrown(k) => ~Thrown(r) /\ r.cache.cache_type = next
         /\ k.cache.cache_type = "FULL" => r.failed = k.failed
<1> DEFINE r == FillMore(k, st, follow, resolved, next)
<1>1. CASE Thrown(k)
  BY <1>1 DEF FillMore, SameData
<1>2. CASE ~Thrown(k)
  <2> DEFINE d == [k.cache EXCEPT !.cache_type = next]
  <2>0. k.cache \in CachedData(EntryStamps) /\ ~k.cache.symlink
    BY DEF Own
  <2>1. r = [k EXCEPT !.err = "ok",
               !.failed = @ \/ k.cache.cache_type # "FULL", !.cache = d]
    BY <1>2, <2>0 DEF FillMore, Thrown, EntryCalls
  <2>2. d \in CachedData(EntryStamps)
    BY <2>0 DEF CachedData, CacheTypes
  <2>3. Own(d) /\ SameData(k.cache, d)
    BY <2>0, <2>2 DEF Own, SameData, Attributes, CachedData
  <2>4. r \in EntryCalls
    BY <2>1, <2>2 DEF EntryCalls, Errors
  <2>5. ~Thrown(r)
    BY <2>1 DEF Thrown, EntryCalls
  <2>6. k.cache.cache_type = "FULL" => r.failed = k.failed
    BY <2>1 DEF EntryCalls
  <2>7. r.cache = d /\ d.cache_type = next
    BY <2>0, <2>1 DEF EntryCalls, CachedData
  <2> QED BY <1>2, <2>1, <2>3, <2>4, <2>5, <2>6, <2>7 DEF EntryCalls
<1> QED BY <1>1, <1>2

(* What every getter guarantees of the cache: data is kept, or read in one *)
(* go when there was none, and a FULL cache stays FULL without a failure.  *)
KeepsOwn(k, r, st) ==
  /\ r \in EntryCalls
  /\ Own(r.cache)
  /\ \/ SameData(k.cache, r.cache)
     \/ k.cache.cache_type = "EMPTY" /\ ReadFrom(r.cache, st)
  /\ k.cache.cache_type = "FULL"
       => r.cache.cache_type = "FULL" /\ r.failed = k.failed

(* exists, is_directory ...: the cache is kept or read once; a throwing    *)
(* call that returns answers the type of an object that exists.            *)
LEMMA FileTypeKeepsOwn ==
  ASSUME NEW k \in EntryCalls, Own(k.cache), NEW st, StatResult(st)
  PROVE  LET r == GetFileType(k, st) IN
         /\ KeepsOwn(k, r, st)
         /\ r.mode = k.mode
         /\ r.mode = "throw" /\ r.err = "ok" => r.type = r.cache.type /\ Exists(r.type)
<1> DEFINE filled == BasicIfEmpty(k, st, TRUE)
           r == GetFileType(k, st)
<1>1. r = IF Thrown(filled) \/ k.mode = "ec" THEN filled
          ELSE IF Exists(filled.cache.type) THEN AnswerType(filled)
          ELSE Report(filled, "ENOENT")
  BY DEF GetFileType, BasicIfEmpty, Own
<1>2. /\ KeepsOwn(k, filled, st)
      /\ filled.mode = k.mode
  BY FirstStat DEF KeepsOwn
<1>3. filled.cache.type \in FileTypes
  BY <1>2 DEF KeepsOwn, EntryCalls, CachedData
<1>4. CASE Thrown(filled) \/ k.mode = "ec"
  BY <1>1, <1>2, <1>4 DEF Thrown
<1>5. CASE ~Thrown(filled) /\ k.mode # "ec" /\ Exists(filled.cache.type)
  BY <1>1, <1>2, <1>3, <1>5 DEF AnswerType, KeepsOwn, EntryCalls
<1>6. CASE ~Thrown(filled) /\ k.mode # "ec" /\ ~Exists(filled.cache.type)
  <2>1. r = Report(filled, "ENOENT")
    BY <1>1, <1>6
  <2> QED BY <2>1, <1>2 DEF Report, KeepsOwn, EntryCalls, Errors, FileTypes, EntryStamps
<1> QED BY <1>4, <1>5, <1>6

(* is_symlink: as for the other types, since stat() has followed the link. *)
LEMMA SymLinkTypeKeeps ==
  ASSUME NEW k \in EntryCalls, Own(k.cache), NEW st, StatResult(st)
  PROVE  KeepsOwn(k, GetSymLinkFileType(k, st), st)
<1> DEFINE filled == BasicIfEmpty(k, st, FALSE)
           r == GetSymLinkFileType(k, st)
           early == Thrown(filled) \/ (k.cache.cache_type = "EMPTY" /\ k.mode = "ec")
<1>2. /\ KeepsOwn(k, filled, st)
      /\ filled.mode = k.mode
  BY FirstStat DEF KeepsOwn
<1>3. filled.cache.type \in FileTypes
  BY <1>2 DEF KeepsOwn, EntryCalls, CachedData
<1>1. r = IF early THEN filled
          ELSE IF Exists(filled.cache.type) THEN AnswerType(filled)
          ELSE [Report(filled, "ENOENT") EXCEPT !.type = filled.cache.type]
  BY <1>2 DEF GetSymLinkFileType, KeepsOwn, Own
<1>4. CASE early
  BY <1>1, <1>2, <1>4 DEF Thrown
<1>5. CASE ~early /\ Exists(filled.cache.type)
  BY <1>1, <1>2, <1>3, <1>5 DEF AnswerType, KeepsOwn, EntryCalls
<1>6. CASE ~early /\ ~Exists(filled.cache.type)
  <2>1. r = [Report(filled, "ENOENT") EXCEPT !.type = filled.cache.type]
    BY <1>1, <1>6
  <2> QED BY <2>1, <1>2, <1>3 DEF Report, KeepsOwn, EntryCalls, Errors, FileTypes, EntryStamps
<1> QED BY <1>4, <1>5, <1>6

(* Answering from the cache, or an error in place of an answer, changes    *)
(* nothing in the cache.                                                   *)
LEMMA AnswersKeepOwn ==
  ASSUME NEW k \in EntryCalls, NEW r, NEW st, KeepsOwn(k, r, st)
  PROVE  /\ \A a \in Attributes : KeepsOwn(k, AnswerStamp(r, a), st)
         /\ KeepsOwn(k, AnswerType(r), st)
         /\ \A e \in Errors : KeepsOwn(k, Report(r, e), st)
<1>1. r.cache.type \in FileTypes
  BY DEF KeepsOwn, EntryCalls, CachedData
<1>2. \A a \in Attributes : r.cache[a] \in EntryStamps
  BY DEF KeepsOwn, EntryCalls, CachedData, Attributes
<1>3. ASSUME NEW a \in Attributes
      PROVE  KeepsOwn(k, AnswerStamp(r, a), st)
  BY <1>2 DEF AnswerStamp, KeepsOwn, EntryCalls
<1>4. KeepsOwn(k, AnswerType(r), st)
  BY <1>1 DEF AnswerType, KeepsOwn, EntryCalls
<1>5. ASSUME NEW e \in Errors
      PROVE  KeepsOwn(k, Report(r, e), st)
  BY DEF Report, KeepsOwn, EntryCalls, FileTypes, EntryStamps
<1> QED BY <1>3, <1>4, <1>5

(* Extra information on a cache that was not FULL, after filling it if it  *)
(* is empty.                                                               *)
LEMMA ExtraKeeps ==
  ASSUME NEW k \in EntryCalls, Own(k.cache), NEW st, StatResult(st),
         NEW f \in BOOLEAN, NEW g \in BOOLEAN, k.cache.cache_type # "FULL"
  PROVE  KeepsOwn(k, UpdateExtraFileInformation(BasicIfEmpty(k, st, f), st, g), st)
<1> DEFINE b == BasicIfEmpty(k, st, f)
           r == UpdateExtraFileInformation(b, st, g)
<1>1. /\ b \in EntryCalls
      /\ Own(b.cache)
      /\ \/ SameData(k.cache, b.cache)
         \/ k.cache.cache_type = "EMPTY" /\ ReadFrom(b.cache, st)
  BY FirstStat
<1>2. b.cache.extra_resolved \in BOOLEAN
  BY <1>1 DEF Own, CachedData
<1>3. r \in EntryCalls /\ Own(r.cache) /\ SameData(b.cache, r.cache)
  BY <1>1, <1>2, FillMoreKeepsOwn DEF UpdateExtraFileInformation
<1>4. \/ SameData(k.cache, r.cache)
      \/ k.cache.cache_type = "EMPTY" /\ ReadFrom(r.cache, st)
  BY <1>1, <1>3 DEF SameData, ReadFrom, Attributes
<1> QED BY <1>3, <1>4 DEF KeepsOwn

(* A query that does nothing keeps the cache.                              *)
LEMMA KeepsItself ==
  ASSUME NEW k \in EntryCalls, Own(k.cache), NEW st
  PROVE  KeepsOwn(k, k, st)
BY DEF KeepsOwn, SameData

(* The part file_size and last_write_time share keeps the cache.           *)
LEMMA ExtraOnceKeeps ==
  ASSUME NEW k \in EntryCalls, Own(k.cache), NEW st, StatResult(st)
  PROVE  KeepsOwn(k, ExtraOnce(k, st), st)
<1>1. CASE k.cache.cache_type = "EMPTY"
  BY <1>1, ExtraKeeps DEF ExtraOnce
<1>2. CASE k.cache.cache_type = "EXTRA"
  <2>1. BasicIfEmpty(k, st, TRUE) = k /\ k.cache.cache_type # "FULL"
    BY <1>2 DEF BasicIfEmpty
  <2>2. ExtraOnce(k, st) = UpdateExtraFileInformation(k, st, TRUE)
    BY <1>2 DEF ExtraOnce, Own
  <2> QED BY <2>1, <2>2, ExtraKeeps
<1>3. CASE k.cache.cache_type = "FULL"
  BY <1>3, KeepsItself DEF ExtraOnce
<1> QED BY <1>1, <1>2, <1>3 DEF Own, CachedData, CacheTypes

(* file_size keeps the cache.                                              *)
LEMMA SizeKeepsOwn ==
  ASSUME NEW k \in EntryCalls, Own(k.cache), NEW st, StatResult(st)
  PROVE  KeepsOwn(k, GetSize(k, st), st)
<1> DEFINE filled == BasicIfEmpty(k, st, TRUE)
           more == ExtraOnce(k, st)
<1>1. KeepsOwn(k, filled, st)
  BY FirstStat DEF KeepsOwn
<1>3. KeepsOwn(k, more, st)
  BY ExtraOnceKeeps
<1>2. /\ KeepsOwn(k, Report(filled, "EISDIR"), st)
      /\ KeepsOwn(k, Report(filled, "ENOTSUP"), st)
      /\ KeepsOwn(k, AnswerStamp(more, "size"), st)
  BY <1>1, <1>3, AnswersKeepOwn DEF Attributes, Errors
<1> QED BY <1>2, <1>3 DEF GetSize

(* hard_link_count keeps the cache.                                        *)
LEMMA HardLinkCountKeeps ==
  ASSUME NEW k \in EntryCalls, Own(k.cache), NEW st, StatResult(st)
  PROVE  KeepsOwn(k, GetHardLinkCount(k, st), st)
<1> DEFINE more == IF k.cache.cache_type \in {"EMPTY", "BASIC"}
                   THEN UpdateExtraFileInformation(
                          BasicIfEmpty(k, st, FALSE), st, FALSE)
                   ELSE k
<1>1. KeepsOwn(k, more, st)
  BY KeepsItself, ExtraKeeps
<1>2. KeepsOwn(k, AnswerStamp(more, "nlink"), st)
  BY <1>1, AnswersKeepOwn DEF Attributes
<1> QED BY <1>1, <1>2 DEF GetHardLinkCount

(* last_write_time keeps the cache.                                        *)
LEMMA LastWriteTimeKeeps ==
  ASSUME NEW k \in EntryCalls, Own(k.cache), NEW st, StatResult(st)
  PROVE  KeepsOwn(k, GetLastWriteTime(k, st), st)
<1> DEFINE more == ExtraOnce(k, st)
<1>1. KeepsOwn(k, more, st)
  BY ExtraOnceKeeps
<1>2. /\ KeepsOwn(k, AnswerStamp(more, "write_time"), st)
      /\ KeepsOwn(k, Report(more, "EOVERFLOW"), st)
  BY <1>1, AnswersKeepOwn DEF Attributes, Errors
<1> QED BY <1>1, <1>2 DEF GetLastWriteTime

(* Extra information and then the permissions keep the cache.              *)
LEMMA PermissionsKeep ==
  ASSUME NEW k \in EntryCalls, Own(k.cache), NEW st, StatResult(st),
         NEW follow \in BOOLEAN
  PROVE  KeepsOwn(k, Permissions(k, st, follow), st)
<1> DEFINE extra == IF k.cache.cache_type \in {"EMPTY", "BASIC"}
                    THEN UpdateExtraFileInformation(
                           BasicIfEmpty(k, st, follow), st, FALSE)
                    ELSE k
           r == UpdatePermissionsInformation(extra, st, follow)
<1>1. KeepsOwn(k, extra, st)
  BY KeepsItself, ExtraKeeps
<1>7. k.cache.cache_type = "FULL" => extra = k
  OBVIOUS
<1> HIDE DEF extra
<1>2. /\ extra \in EntryCalls
      /\ Own(extra.cache)
  BY <1>1 DEF KeepsOwn
<1>6. extra.cache.perms_resolved \in BOOLEAN
  BY <1>2 DEF Own, CachedData
<1>3. /\ r \in EntryCalls
      /\ Own(r.cache)
      /\ SameData(extra.cache, r.cache)
      /\ Thrown(extra) => r = extra
      /\ ~Thrown(extra) => r.cache.cache_type = "FULL"
      /\ extra.cache.cache_type = "FULL" => r.failed = extra.failed
  BY <1>2, <1>6, FillMoreKeepsOwn DEF UpdatePermissionsInformation
<1>4. \/ SameData(k.cache, r.cache)
      \/ k.cache.cache_type = "EMPTY" /\ ReadFrom(r.cache, st)
  BY <1>1, <1>3 DEF KeepsOwn, SameData, ReadFrom, Attributes
<1>5. k.cache.cache_type = "FULL"
        => r.cache.cache_type = "FULL" /\ r.failed = k.failed
  BY <1>3, <1>7
<1> QED BY <1>3, <1>4, <1>5 DEF KeepsOwn, Permissions, extra

(* status and symlink_status keep the cache.                               *)
LEMMA StatusKeepsOwn ==
  ASSUME NEW k \in EntryCalls, Own(k.cache), NEW st, StatResult(st)
  PROVE  /\ KeepsOwn(k, GetStatus(k, st), st)
         /\ KeepsOwn(k, GetSymLinkStatus(k, st), st)
<1>1. ASSUME NEW r, KeepsOwn(k, r, st), NEW a \in Attributes
      PROVE  KeepsOwn(k, AnswerStamp(AnswerType(r), a), st)
  BY <1>1, AnswersKeepOwn
<1>2. KeepsOwn(k, Permissions(k, st, TRUE), st)
  BY PermissionsKeep
<1>3. KeepsOwn(k, Permissions(k, st, FALSE), st)
  BY PermissionsKeep
<1>4. KeepsOwn(k, GetStatus(k, st), st)
  BY <1>1, <1>2, KeepsItself DEF GetStatus, Attributes
<1>5. KeepsOwn(k, GetSymLinkStatus(k, st), st)
  BY <1>1, <1>3, KeepsItself DEF GetSymLinkStatus, Attributes
<1> QED BY <1>4, <1>5

-----------------------------------------------------------------------------
(* The inductive invariant.  OneSnapshot alone is not: a query may stat    *)
(* again, and it keeps the picture only because nothing an entry does      *)
(* marks its cache as a link or as BASIC.                                  *)
EntryInv ==
  /\ EntryTypeOK
  /\ Own(cache)
  /\ base <= Version(path)
  /\ OneSnapshot
  /\ ThrowingAnswersWereTrue

(* stat() of any version of a path is a StatResult with the stamp of that  *)
(* version.                                                                *)
LEMMA VersionsAreStats ==
  ASSUME EntryTypeOK, NEW p \in Paths, NEW v \in 1..Version(p)
  PROVE  /\ StatResult(StatAt(p, v))
         /\ StatAt(p, v).type = fs[p][v].stat
         /\ Exists(fs[p][v].stat) => StatAt(p, v).stamp = <<p, v>>
<1>1. v \in 1..MaxVersions /\ fs[p] \in Seq(Objects) /\ v \in DOMAIN fs[p]
  BY MaxVersionsAssumption DEF EntryTypeOK, Version
<1>2. fs[p][v] \in ObjectKinds
  BY <1>1, ObjectsAssumption
<1>3. fs[p][v].stat \in Plain \cup {"none"}
  BY <1>2 DEF ObjectKinds, Plain
<1>4. <<p, v>> \in EntryStamps
  BY <1>1 DEF EntryStamps
<1>5. Unset \in EntryStamps
  BY DEF EntryStamps
<1> DEFINE t == fs[p][v].stat
           s == <<p, v>>
<1> HIDE DEF t, s
<1>6. /\ StatResult(FileStatus(t, s))
      /\ FileStatus(t, s).type = t
      /\ Exists(t) => FileStatus(t, s).stamp = s
  BY <1>3, <1>4, <1>5 DEF t, s, StatResult, FileStatus, Plain, Exists, StatusKnown, FileTypes, Errors
<1> QED BY <1>6 DEF StatAt, t, s

(* The versions of a path are stamped by numbers in range.                 *)
LEMMA VersionInRange ==
  ASSUME EntryTypeOK, NEW p \in Paths
  PROVE  Version(p) \in 1..MaxVersions /\ Version(p) \in 1..Version(p)
BY MaxVersionsAssumption DEF EntryTypeOK

(* Construction and refresh: an empty cache, then one stat.                *)
LEMMA RefreshReads ==
  ASSUME NEW st, StatResult(st), NEW mode \in Modes
  PROVE  LET r == DoRefresh(st, mode) IN
         /\ r \in EntryCalls
         /\ Own(r.cache)
         /\ \/ r.cache.type = "none"
            \/ ReadFrom(r.cache, st)
<1> DEFINE k == Call(Reset, "ec")
           b == BasicIfEmpty(k, st, TRUE)
           r == DoRefresh(st, mode)
<1>1. /\ Reset \in CachedData(EntryStamps)
      /\ Own(Reset)
      /\ Reset.cache_type = "EMPTY"
      /\ Reset.type = "none"
  BY DEF Reset, CachedData, CacheTypes, FileTypes, EntryStamps, Own, Attributes
<1>2. k \in EntryCalls /\ k.cache = Reset
  BY <1>1 DEF Call, EntryCalls, Modes, Errors, FileTypes, EntryStamps
<1>3. b = UpdateBasicFileInformation(k, st, TRUE)
  BY <1>1, <1>2 DEF BasicIfEmpty
<1>4. /\ b \in EntryCalls
      /\ Own(b.cache)
      /\ b.cache.type = "none" \/ ReadFrom(b.cache, st)
  <2> HIDE DEF k
  <2> QED BY <1>1, <1>2, FirstStat DEF SameData
<1> HIDE DEF b
<1>5. r = [b EXCEPT !.mode = mode,
             !.err = IF mode = "throw" /\ @ = "ENOENT" THEN "ok" ELSE @]
  BY <1>3 DEF DoRefresh
<1>6. r \in EntryCalls /\ r.cache = b.cache
  BY <1>4, <1>5 DEF EntryCalls, Errors
<1> QED BY <1>4, <1>6

(* A cache that was read from one stat is a snapshot of that version.      *)
LEMMA ReadIsSnapshot ==
  ASSUME EntryTypeOK, NEW p \in Paths, NEW v \in 1..Version(p), NEW d,
         ReadFrom(d, StatAt(p, v))
  PROVE  /\ d.type = fs[p][v].stat
         /\ Exists(d.type)
         /\ d.write_time = <<p, v>>
         /\ d.size = IF d.type = "regular" THEN <<p, v>> ELSE Unset
BY VersionsAreStats DEF ReadFrom, StatResult

-----------------------------------------------------------------------------
(* The constructor establishes the invariant.                              *)
LEMMA InitEntryInv == EntryInit => EntryInv
<1> SUFFICES ASSUME EntryInit PROVE EntryInv
  OBVIOUS
<1>1. PICK found \in [Paths -> Objects] : fs = [p \in Paths |-> <<found[p]>>]
  BY DEF EntryInit
<1>2. fs \in [Paths -> Seq(Objects)] /\ \A p \in Paths : Version(p) = 1
  BY <1>1 DEF Version
<1>3. path \in Paths /\ base = 1 /\ failed = FALSE
  BY DEF EntryInit
<1>4. 1 \in 1..MaxVersions
  BY MaxVersionsAssumption
<1>5. StatResult(StatNow(path)) /\ StatNow(path) = StatAt(path, 1)
  <2>1. fs[path][1] \in ObjectKinds
    BY <1>1, <1>3, ObjectsAssumption
  <2>2. fs[path][1].stat \in Plain \cup {"none"}
    BY <2>1 DEF ObjectKinds, Plain
  <2>3. <<path, 1>> \in EntryStamps /\ Unset \in EntryStamps
    BY <1>3, <1>4 DEF EntryStamps
  <2> DEFINE t == fs[path][1].stat
             s == <<path, 1>>
  <2> HIDE DEF t, s
  <2>4. StatResult(FileStatus(t, s))
    BY <2>2, <2>3 DEF t, s, StatResult, FileStatus, Plain, Exists, StatusKnown, FileTypes, Errors
  <2> QED BY <2>4, <1>2, <1>3 DEF StatNow, StatAt, t, s
<1>6. LET r == DoRefresh(StatNow(path), "ec") IN
      r \in EntryCalls /\ Own(r.cache) /\ (r.cache.type = "none" \/ ReadFrom(r.cache, StatNow(path)))
  BY <1>5, RefreshReads DEF Modes
<1>7. Own(cache) /\ (cache.type = "none" \/ ReadFrom(cache, StatAt(path, 1)))
  BY <1>5, <1>6 DEF EntryInit
<1>8. EntryTypeOK
  <2>1. cache \in CachedData(EntryStamps)
    BY <1>7 DEF Own
  <2>2. call \in [op : Operations, mode : Modes, err : Errors,
                  type : FileTypes, stamp : EntryStamps]
    BY DEF EntryInit, Operations, Modes, Errors, FileTypes, EntryStamps
  <2> QED BY <1>2, <1>3, <1>4, <2>1, <2>2 DEF EntryTypeOK
<1>9. OneSnapshot
  <2>1. cache.type = "none" => \A a \in Attributes : cache[a] = Unset
    BY <1>7 DEF Own
  <2>2. ASSUME cache.type # "none" PROVE SnapshotOf(1)
    BY <2>2, <1>7, <1>8, <1>2, <1>3, ReadIsSnapshot DEF SnapshotOf
  <2> QED BY <2>1, <2>2, <1>2, <1>3 DEF OneSnapshot, Populated, Copied
<1>10. ThrowingAnswersWereTrue
  BY DEF EntryInit, ThrowingAnswersWereTrue
<1> QED BY <1>2, <1>3, <1>7, <1>8, <1>9, <1>10 DEF EntryInv

(* One query, whichever getter it is.                                      *)
QueryGuarantee(op, m, done) ==
  /\ KeepsOwn(Call(cache, m), done, StatNow(path))
  /\ (op = "file_type" /\ done.mode = "throw" /\ done.err = "ok")
       => done.type = done.cache.type /\ Exists(done.type)

(* A query starts from a cache and a stat() the lemmas above are about.    *)
LEMMA CallOfEntry ==
  ASSUME EntryInv, NEW m \in Modes
  PROVE  /\ Call(cache, m) \in EntryCalls
         /\ Call(cache, m).cache = cache
         /\ Call(cache, m).failed = FALSE
         /\ Own(Call(cache, m).cache)
         /\ StatResult(StatNow(path))
<1>1. Call(cache, m) \in EntryCalls /\ Call(cache, m).cache = cache
        /\ Call(cache, m).failed = FALSE
  BY DEF EntryInv, Own, Call, EntryCalls, Errors, FileTypes, EntryStamps
<1>2. StatResult(StatNow(path))
  BY VersionInRange, VersionsAreStats DEF EntryInv, EntryTypeOK, StatNow
<1> QED BY <1>1, <1>2 DEF EntryInv

(* A query with the guarantee above preserves the invariant, keeps what    *)
(* was cached and trips no assertion from FULL.                            *)
LEMMA QueryStep ==
  ASSUME EntryInv, NEW op \in Getters, NEW m \in Modes, NEW done,
         QueryGuarantee(op, m, done), Query(op, done)
  PROVE  /\ EntryInv'
         /\ Populated => SameData(cache, cache')
         /\ cache.cache_type = "FULL" => cache'.cache_type = "FULL" /\ failed' = failed
<1> DEFINE v == Version(path)
<1>1. /\ done \in EntryCalls
      /\ Own(done.cache)
      /\ SameData(cache, done.cache)
           \/ (cache.cache_type = "EMPTY" /\ ReadFrom(done.cache, StatNow(path)))
      /\ cache.cache_type = "FULL"
           => done.cache.cache_type = "FULL" /\ done.failed = FALSE
  BY CallOfEntry DEF QueryGuarantee, KeepsOwn
<1>2. /\ cache' = done.cache
      /\ UNCHANGED <<fs, path, base>>
      /\ failed' = (failed \/ done.failed)
      /\ call' = Outcome(op, done)
  BY DEF Query
<1>3. v \in 1..v /\ v \in base..v /\ path \in Paths
  BY VersionInRange DEF EntryInv, EntryTypeOK
<1>4. EntryTypeOK'
  <2>1. done.mode \in Modes /\ done.err \in Errors /\ done.failed \in BOOLEAN
          /\ done.type \in FileTypes /\ done.stamp \in EntryStamps
    BY <1>1 DEF EntryCalls
  <2>2. call' \in [op : Operations, mode : Modes, err : Errors,
                   type : FileTypes, stamp : EntryStamps]
    BY <1>2, <2>1 DEF Outcome, Operations
  <2>3. cache' \in CachedData(EntryStamps)
    BY <1>1, <1>2 DEF Own
  <2>4. failed' \in BOOLEAN
    BY <1>2, <2>1 DEF EntryInv, EntryTypeOK
  <2> QED BY <1>2, <2>2, <2>3, <2>4 DEF EntryInv, EntryTypeOK, Version
<1>5. Own(cache')
  BY <1>1, <1>2
<1>6. OneSnapshot'
  <2>1. CASE SameData(cache, done.cache)
    <3>1. Populated' => \E w \in base..Version(path) : SnapshotOf(w)'
      <4> SUFFICES ASSUME Populated' PROVE \E w \in base..Version(path) : SnapshotOf(w)'
        OBVIOUS
      <4>1. Populated
        BY <1>2, <2>1 DEF SameData, Populated
      <4>2. PICK w \in base..Version(path) : SnapshotOf(w)
        BY <4>1 DEF EntryInv, OneSnapshot
      <4> QED BY <4>2, <1>2, <2>1 DEF SnapshotOf, SameData, Attributes
    <3>2. ~Populated' => \A a \in Attributes : ~Copied(a)'
      BY <1>2, <2>1 DEF EntryInv, OneSnapshot, SameData, Populated, Copied
    <3> QED BY <3>1, <3>2, <1>2 DEF OneSnapshot, Version
  <2>2. CASE cache.cache_type = "EMPTY" /\ ReadFrom(done.cache, StatNow(path))
    <3>1. SnapshotOf(v)' /\ Populated'
      <4>1. /\ done.cache.type = fs[path][v].stat
            /\ Exists(done.cache.type)
            /\ done.cache.write_time = <<path, v>>
            /\ done.cache.size = IF done.cache.type = "regular" THEN <<path, v>> ELSE Unset
        BY <2>2, <1>3, ReadIsSnapshot DEF EntryInv, StatNow
      <4> QED BY <4>1, <1>2 DEF SnapshotOf, Populated, Exists, StatusKnown, Version
    <3> QED BY <3>1, <1>2, <1>3 DEF OneSnapshot, Version
  <2> QED BY <1>1, <2>1, <2>2
<1>7. ThrowingAnswersWereTrue'
  <2> SUFFICES ASSUME (call.op = "file_type" /\ call.mode = "throw"
                         /\ call.err = "ok")'
               PROVE  \E w \in base..Version(path) :
                        fs[path][w].stat = call'.type /\ Exists(call'.type)
    BY <1>2 DEF ThrowingAnswersWereTrue, Version
  <2>1. call'.type = cache'.type /\ Exists(cache'.type)
    BY <1>1, <1>2 DEF Outcome, EntryCalls, QueryGuarantee
  <2>2. Populated'
    BY <2>1 DEF Populated, Exists, StatusKnown
  <2>3. PICK w \in base..Version(path) : SnapshotOf(w)'
    BY <1>6, <2>2, <1>2 DEF OneSnapshot, Version
  <2> QED BY <2>1, <2>3, <1>2 DEF SnapshotOf
<1>8. Populated => SameData(cache, cache')
  BY <1>1, <1>2 DEF EntryInv, Own, Populated
<1>9. cache.cache_type = "FULL" => cache'.cache_type = "FULL" /\ failed' = failed
  BY <1>1, <1>2 DEF EntryInv, EntryTypeOK
<1> QED BY <1>2, <1>4, <1>5, <1>6, <1>7, <1>8, <1>9 DEF EntryInv, Version

(* Each getter is such a query.                                            *)
LEMMA EveryQuery ==
  ASSUME EntryInv, NEW m \in Modes,
         \/ FileType(m) \/ SymLinkType(m) \/ FileSize(m) \/ HardLinkCount(m)
         \/ LastWriteTime(m) \/ Status(m) \/ SymLinkStatus(m)
  PROVE  \E op \in Getters : \E done : QueryGuarantee(op, m, done) /\ Query(op, done)
<1> DEFINE k == Call(cache, m)
           st == StatNow(path)
<1>0. k \in EntryCalls /\ Own(k.cache) /\ StatResult(st)
  BY CallOfEntry
<1> HIDE DEF k, st
<1>1. CASE FileType(m)
  <2>1. QueryGuarantee("file_type", m, GetFileType(k, st))
    BY <1>0, FileTypeKeepsOwn DEF QueryGuarantee, k, st
  <2> QED BY <1>1, <2>1 DEF FileType, Getters, k, st
<1>2. CASE SymLinkType(m)
  <2>1. QueryGuarantee("symlink_type", m, GetSymLinkFileType(k, st))
    BY <1>0, SymLinkTypeKeeps DEF QueryGuarantee, k, st
  <2> QED BY <1>2, <2>1 DEF SymLinkType, Getters, k, st
<1>3. CASE FileSize(m)
  <2>1. QueryGuarantee("file_size", m, GetSize(k, st))
    BY <1>0, SizeKeepsOwn DEF QueryGuarantee, k, st
  <2> QED BY <1>3, <2>1 DEF FileSize, Getters, k, st
<1>4. CASE HardLinkCount(m)
  <2>1. QueryGuarantee("hard_link_count", m, GetHardLinkCount(k, st))
    BY <1>0, HardLinkCountKeeps DEF QueryGuarantee, k, st
  <2> QED BY <1>4, <2>1 DEF HardLinkCount, Getters, k, st
<1>5. CASE LastWriteTime(m)
  <2>1. QueryGuarantee("last_write_time", m, GetLastWriteTime(k, st))
    BY <1>0, LastWriteTimeKeeps DEF QueryGuarantee, k, st
  <2> QED BY <1>5, <2>1 DEF LastWriteTime, Getters, k, st
<1>6. CASE Status(m)
  <2>1. QueryGuarantee("status", m, GetStatus(k, st))
    BY <1>0, StatusKeepsOwn DEF QueryGuarantee, k, st
  <2> QED BY <1>6, <2>1 DEF Status, Getters, k, st
<1>7. CASE SymLinkStatus(m)
  <2>1. QueryGuarantee("symlink_status", m, GetSymLinkStatus(k, st))
    BY <1>0, StatusKeepsOwn DEF QueryGuarantee, k, st
  <2> QED BY <1>7, <2>1 DEF SymLinkStatus, Getters, k, st
<1> QED BY <1>1, <1>2, <1>3, <1>4, <1>5, <1>6, <1>7

(* A refresh or an assignment re-establishes the invariant from nothing.   *)
LEMMA AssignStep ==
  ASSUME EntryInv, NEW q \in Paths, NEW m \in Modes, Assign(q, m)
  PROVE  EntryInv'
<1> DEFINE done == DoRefresh(StatNow(q), m)
           v == Version(q)
<1>1. StatResult(StatNow(q)) /\ v \in 1..MaxVersions /\ v \in 1..v
  BY VersionInRange, VersionsAreStats DEF EntryInv, StatNow
<1>2. /\ done \in EntryCalls
      /\ Own(done.cache)
      /\ done.cache.type = "none" \/ ReadFrom(done.cache, StatNow(q))
  BY <1>1, RefreshReads
<1>3. /\ path' = q
      /\ cache' = done.cache
      /\ base' = v
      /\ call' = Outcome("refresh", done)
      /\ UNCHANGED <<fs, failed>>
  BY DEF Assign
<1> HIDE DEF done
<1>4. EntryTypeOK'
  <2>1. call' \in [op : Operations, mode : Modes, err : Errors,
                   type : FileTypes, stamp : EntryStamps]
    BY <1>2, <1>3 DEF Outcome, Operations, EntryCalls
  <2> QED BY <1>1, <1>2, <1>3, <2>1 DEF EntryInv, EntryTypeOK, Own, Version
<1>5. OneSnapshot'
  <2>1. cache'.type = "none" => \A a \in Attributes : cache'[a] = Unset
    BY <1>2, <1>3 DEF Own
  <2>2. ASSUME cache'.type # "none" PROVE SnapshotOf(v)'
    <3>1. ReadFrom(done.cache, StatAt(q, v))
      BY <2>2, <1>2, <1>3 DEF StatNow
    <3>2. /\ done.cache.type = fs[q][v].stat
          /\ Exists(done.cache.type)
          /\ done.cache.write_time = <<q, v>>
          /\ done.cache.size = IF done.cache.type = "regular" THEN <<q, v>> ELSE Unset
      BY <1>1, <3>1, ReadIsSnapshot DEF EntryInv
    <3> QED BY <3>2, <1>3 DEF SnapshotOf, Version
  <2> QED BY <1>1, <1>3, <2>1, <2>2 DEF OneSnapshot, Populated, Copied, Version
<1>6. ThrowingAnswersWereTrue'
  BY <1>3 DEF ThrowingAnswersWereTrue, Outcome
<1> QED BY <1>1, <1>2, <1>3, <1>4, <1>5, <1>6 DEF EntryInv, Version

(* Another program only appends to the history of a path.                  *)
LEMMA ReplaceStep ==
  ASSUME EntryInv, NEW p \in Paths, Replace(p)
  PROVE  EntryInv'
<1>1. PICK o \in Objects : fs' = [fs EXCEPT ![p] = Append(@, o)]
  BY DEF Replace
<1>2. UNCHANGED <<path, cache, base, call, failed>> /\ Version(p) < MaxVersions
  BY DEF Replace
<1>3. fs \in [Paths -> Seq(Objects)] /\ path \in Paths
        /\ base \in 1..MaxVersions /\ base <= Version(path)
  BY DEF EntryInv, EntryTypeOK
<1>4. \A q \in Paths : /\ Version(q) \in Nat
                       /\ Version(q)' = IF q = p THEN Version(q) + 1 ELSE Version(q)
                       /\ \A w \in 1..Version(q) : fs'[q][w] = fs[q][w]
  BY <1>1, <1>3 DEF Version
<1>5. EntryTypeOK'
  <2>1. fs' \in [Paths -> Seq(Objects)]
    BY <1>1, <1>3
  <2>2. \A q \in Paths : Version(q)' \in 1..MaxVersions
    BY <1>2, <1>4, MaxVersionsAssumption DEF EntryInv, EntryTypeOK
  <2> QED BY <1>2, <2>1, <2>2 DEF EntryInv, EntryTypeOK
<1>6. base..Version(path) \subseteq base..Version(path)'
        /\ \A w \in base..Version(path) : fs'[path][w] = fs[path][w]
  <2>1. /\ Version(path) \in Nat /\ Version(path)' \in Nat
        /\ Version(path) <= Version(path)'
        /\ \A w \in 1..Version(path) : fs'[path][w] = fs[path][w]
    BY <1>2, <1>3, <1>4
  <2>2. base \in Nat /\ 1 <= base
    BY <1>3, MaxVersionsAssumption
  <2> QED BY <2>1, <2>2
<1>7. OneSnapshot'
  <2>1. ASSUME Populated PROVE \E w \in (base..Version(path))' : SnapshotOf(w)'
    <3>1. PICK w \in base..Version(path) : SnapshotOf(w)
      BY <2>1 DEF EntryInv, OneSnapshot
    <3> QED BY <3>1, <1>2, <1>6 DEF SnapshotOf
  <2> QED BY <1>2, <2>1 DEF EntryInv, OneSnapshot, Populated, Copied
<1>8. ThrowingAnswersWereTrue'
  BY <1>2, <1>6 DEF EntryInv, ThrowingAnswersWereTrue
<1>9. base' <= Version(path)'
  BY <1>2, <1>3, <1>4
<1> QED BY <1>2, <1>5, <1>7, <1>8, <1>9 DEF EntryInv

(* Every step preserves the inductive invariant.                           *)
LEMMA NextEntryInv == EntryInv /\ [EntryNext]_entryVars => EntryInv'
<1> SUFFICES ASSUME EntryInv, [EntryNext]_entryVars PROVE EntryInv'
  OBVIOUS
<1>1. ASSUME NEW q \in Paths, NEW m \in Modes, Assign(q, m) PROVE EntryInv'
  BY <1>1, AssignStep
<1>2. ASSUME NEW m \in Modes,
             \/ FileType(m) \/ SymLinkType(m) \/ FileSize(m) \/ HardLinkCount(m)
             \/ LastWriteTime(m) \/ Status(m) \/ SymLinkStatus(m)
      PROVE  EntryInv'
  BY <1>2, EveryQuery, QueryStep
<1>3. ASSUME NEW p \in Paths, Replace(p) PROVE EntryInv'
  BY <1>3, ReplaceStep
<1>4. CASE UNCHANGED entryVars
  BY <1>4 DEF entryVars, EntryInv, EntryTypeOK, OneSnapshot, ThrowingAnswersWereTrue, Version,
     Populated, SnapshotOf, Copied
<1> QED BY <1>1, <1>2, <1>3, <1>4 DEF EntryNext

-----------------------------------------------------------------------------
(* The inductive invariant holds: EntryTypeOK and the two safety           *)
(* properties, with Own of the cache, which every getter relies on and no  *)
(* getter breaks.                                                          *)
THEOREM EntryInvariance == EntrySpec => []EntryInv
BY InitEntryInv, NextEntryInv, PTL DEF EntrySpec

(* Every variable keeps its type, in particular every cached attribute is  *)
(* unset or a stamp of a real version of a real path.                      *)
THEOREM EntryTypeCorrect == EntrySpec => []EntryTypeOK
BY EntryInvariance, PTL DEF EntryInv

(* The cache of an entry that is only refreshed, assigned and queried is   *)
(* one stat() of its own path since the last refresh (OneSnapshot).        *)
THEOREM Snapshot == EntrySpec => []OneSnapshot
BY EntryInvariance, PTL DEF EntryInv

(* What a throwing exists, is_directory ... answers was the type of what   *)
(* the path led to, links followed, at a moment since the last refresh.    *)
THEOREM ThrowingAnswers == EntrySpec => []ThrowingAnswersWereTrue
BY EntryInvariance, PTL DEF EntryInv

(* Queries never replace what has been read (StableUntilRefresh).          *)
THEOREM Stable == EntrySpec => StableUntilRefresh
<1>1. EntryInv /\ [EntryNext]_entryVars
        => [(Populated /\ call'.op \in Getters)
              => /\ cache'.type = cache.type
                 /\ \A a \in Attributes : cache'[a] = cache[a]]_entryVars
  <2> SUFFICES ASSUME EntryInv, [EntryNext]_entryVars, Populated, call'.op \in Getters
               PROVE  SameData(cache, cache')
    BY DEF SameData
  <2>1. ASSUME NEW q \in Paths, NEW m \in Modes, Assign(q, m) PROVE FALSE
    BY <2>1 DEF Assign, Outcome, Getters
  <2>2. ASSUME NEW m \in Modes,
               \/ FileType(m) \/ SymLinkType(m) \/ FileSize(m) \/ HardLinkCount(m)
               \/ LastWriteTime(m) \/ Status(m) \/ SymLinkStatus(m)
        PROVE  SameData(cache, cache')
    BY <2>2, EveryQuery, QueryStep
  <2>3. ASSUME NEW p \in Paths, Replace(p) PROVE cache' = cache
    BY <2>3 DEF Replace
  <2> QED BY <2>1, <2>2, <2>3 DEF EntryNext, entryVars, SameData
<1> QED BY <1>1, EntryInvariance, PTL DEF EntrySpec, StableUntilRefresh

(* From a FULL cache no query trips an ASAP_ASSERT (FullNeverAsserts).     *)
THEOREM NoAssertionOnceFull == EntrySpec => FullNeverAsserts
<1>1. EntryInv /\ [EntryNext]_entryVars
        => [(cache.cache_type = "FULL" /\ call'.op \in Getters)
              => cache'.cache_type = "FULL" /\ failed' = failed]_entryVars
  <2> SUFFICES ASSUME EntryInv, [EntryNext]_entryVars, cache.cache_type = "FULL", call'.op \in Getters
               PROVE  cache'.cache_type = "FULL" /\ failed' = failed
    OBVIOUS
  <2>1. ASSUME NEW q \in Paths, NEW m \in Modes, Assign(q, m) PROVE FALSE
    BY <2>1 DEF Assign, Outcome, Getters
  <2>2. ASSUME NEW m \in Modes,
               \/ FileType(m) \/ SymLinkType(m) \/ FileSize(m) \/ HardLinkCount(m)
               \/ LastWriteTime(m) \/ Status(m) \/ SymLinkStatus(m)
        PROVE  cache'.cache_type = "FULL" /\ failed' = failed
    BY <2>2, EveryQuery, QueryStep
  <2>3. ASSUME NEW p \in Paths, Replace(p) PROVE cache' = cache /\ failed' = failed
    BY <2>3 DEF Replace
  <2> QED BY <2>1, <2>2, <2>3 DEF EntryNext, entryVars
<1> QED BY <1>1, EntryInvariance, PTL DEF EntrySpec, FullNeverAsserts
=============================================================================
