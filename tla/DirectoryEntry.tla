--------------------------- MODULE DirectoryEntry ---------------------------
(***************************************************************************)
(* One directory_entry object, used as a program uses it: constructed from *)
(* a path, refreshed, assigned other paths and queried, while the objects  *)
(* the paths name are replaced by someone else between the calls.          *)
(*                                                                         *)
(* fs[p] is the history of the objects path p has named; the last one is   *)
(* there now.  A version is an index in that history, a stamp is a path    *)
(* and a version: the stat() result a cached attribute was copied from.    *)
(***************************************************************************)
EXTENDS EntryCache, Naturals, Sequences

CONSTANTS
  Paths,        \* the paths an entry may be given
  Objects,      \* what may be found at a path: [lstat |-> type, stat |-> type]
  MaxVersions   \* bound: objects one path names in a behaviour

Plain == {"not_found", "regular", "directory", "fifo"}

(* lstat sees the link, stat what it leads to; "none" is a failing stat.   *)
ObjectKinds ==
  {[lstat |-> t, stat |-> t] : t \in Plain \cup {"none"}}
    \cup {[lstat |-> "symlink", stat |-> t] : t \in Plain}

ASSUME ObjectsAssumption == Objects \subseteq ObjectKinds
ASSUME MaxVersionsAssumption == MaxVersions \in Nat \ {0}

EntryStamps == {Unset} \cup (Paths \X (1..MaxVersions))

VARIABLES
  fs,       \* the file system: what each path has named so far
  path,     \* path_
  cache,    \* cached_data_
  base,     \* history: version of path at the last construction or refresh
  call,     \* history: the last call and its outcome
  failed    \* history: some ASAP_ASSERT was false

entryVars == <<fs, path, cache, base, call, failed>>

Version(p) == Len(fs[p])
Now(p) == fs[p][Version(p)]
StatAt(p, v) == FileStatus(fs[p][v].stat, <<p, v>>)
StatNow(p) == StatAt(p, Version(p))

Getters == {"file_type", "symlink_type", "file_size", "hard_link_count",
            "last_write_time", "status", "symlink_status"}
Operations == Getters \cup {"refresh"}

EntryTypeOK ==
  /\ fs \in [Paths -> Seq(Objects)]
  /\ \A p \in Paths : Version(p) \in 1..MaxVersions
  /\ path \in Paths
  /\ cache \in CachedData(EntryStamps)
  /\ base \in 1..MaxVersions
  /\ call \in [op : Operations, mode : Modes, err : Errors,
               type : FileTypes, stamp : EntryStamps]
  /\ failed \in BOOLEAN

-----------------------------------------------------------------------------
Outcome(op, done) ==
  [op |-> op, mode |-> done.mode, err |-> done.err,
   type |-> done.type, stamp |-> done.stamp]

(* explicit directory_entry(path): the error of the refresh is dropped.    *)
EntryInit ==
  /\ \E found \in [Paths -> Objects] : fs = [p \in Paths |-> <<found[p]>>]
  /\ path \in Paths
  /\ cache = DoRefresh(StatNow(path), "ec").cache
  /\ base = 1
  /\ call = [op |-> "refresh", mode |-> "ec", err |-> "ok",
             type |-> "none", stamp |-> Unset]
  /\ failed = FALSE

(* Mistake: the refresh does not reset the cache first.                    *)
AssignWithoutReset(q, mode) ==
  LET done == UpdateBasicFileInformation(Call(cache, "ec"), StatNow(q), TRUE) IN
  /\ path' = q
  /\ cache' = done.cache
  /\ base' = Version(q)
  /\ call' = Outcome("refresh", done)
  /\ UNCHANGED <<fs, failed>>

(* assign and replace_filename with q # path, refresh with q = path.       *)
Assign(q, mode) ==
  LET done == DoRefresh(StatNow(q), mode) IN
  /\ path' = q
  /\ cache' = done.cache
  /\ base' = Version(q)
  /\ call' = Outcome("refresh", done)
  /\ UNCHANGED <<fs, failed>>

Query(op, done) ==
  /\ cache' = done.cache
  /\ call' = Outcome(op, done)
  /\ failed' = (failed \/ done.failed)
  /\ UNCHANGED <<fs, path, base>>

(* exists, is_directory, is_regular_file, is_fifo ... all ask GetFileType; *)
(* is_symlink asks GetSymLinkFileType.                                     *)
FileType(m) == Query("file_type", GetFileType(Call(cache, m), StatNow(path)))
SymLinkType(m) ==
  Query("symlink_type", GetSymLinkFileType(Call(cache, m), StatNow(path)))
FileSize(m) == Query("file_size", GetSize(Call(cache, m), StatNow(path)))
HardLinkCount(m) ==
  Query("hard_link_count", GetHardLinkCount(Call(cache, m), StatNow(path)))
LastWriteTime(m) ==
  Query("last_write_time", GetLastWriteTime(Call(cache, m), StatNow(path)))
Status(m) == Query("status", GetStatus(Call(cache, m), StatNow(path)))
SymLinkStatus(m) ==
  Query("symlink_status", GetSymLinkStatus(Call(cache, m), StatNow(path)))

(* Another program replaces, removes or creates what p names.              *)
Replace(p) ==
  /\ Version(p) < MaxVersions
  /\ \E o \in Objects : fs' = [fs EXCEPT ![p] = Append(@, o)]
  /\ UNCHANGED <<path, cache, base, call, failed>>

EntryNext ==
  \/ \E q \in Paths, m \in Modes : Assign(q, m)
  \/ \E m \in Modes :
       \/ FileType(m) \/ SymLinkType(m) \/ FileSize(m) \/ HardLinkCount(m)
       \/ LastWriteTime(m) \/ Status(m) \/ SymLinkStatus(m)
  \/ \E p \in Paths : Replace(p)

EntrySpec == EntryInit /\ [][EntryNext]_entryVars

-----------------------------------------------------------------------------
(* Cached data that claims to describe an object: a type was recorded.     *)
Populated == cache.type # "none"

Copied(attribute) == cache[attribute] # Unset

(* The cache is a copy of what one stat() returned for version v.          *)
SnapshotOf(v) ==
  /\ cache.type = fs[path][v].stat
  /\ Exists(cache.type)
  /\ cache.write_time = <<path, v>>
  /\ cache.size = IF cache.type = "regular" THEN <<path, v>> ELSE Unset

(* Cached data is one coherent picture: type, size and time come from a    *)
(* single look at the entry's present path, not before the last refresh or *)
(* assignment, whatever mix of refreshes, assignments, queries and changes *)
(* of the file system went before; a cache with no type holds nothing.     *)
OneSnapshot ==
  /\ Populated => \E v \in base..Version(path) : SnapshotOf(v)
  /\ ~Populated => \A a \in Attributes : ~Copied(a)

(* What a throwing exists, is_directory, is_regular_file ... answers, all  *)
(* documented to follow links, was true of what the path led to at one     *)
(* moment since the last refresh or assignment, whatever other queries,    *)
(* with an error_code or without, filled the cache before; it never        *)
(* answers for "nothing".                                                  *)
ThrowingAnswersWereTrue ==
  (call.op = "file_type" /\ call.mode = "throw" /\ call.err = "ok")
  => \E v \in base..Version(path) :
       fs[path][v].stat = call.type /\ Exists(call.type)

(* A FULL cache is what every filler asserts it starts from: once a        *)
(* refresh has made it FULL no query trips one of the ASAP_ASSERTs of the  *)
(* fillers or leaves the cache in a state where a later one would.         *)
FullNeverAsserts ==
  [][(cache.cache_type = "FULL" /\ call'.op \in Getters)
       => cache'.cache_type = "FULL" /\ failed' = failed]_entryVars

(* What has been read stays until the next refresh or assignment: no query *)
(* replaces cached data by newer data, so answers do not change under a    *)
(* program that does not ask for it.                                       *)
StableUntilRefresh ==
  [][(Populated /\ call'.op \in Getters)
       => /\ cache'.type = cache.type
          /\ \A a \in Attributes : cache'[a] = cache[a]]_entryVars

-----------------------------------------------------------------------------
(* What the documentation says and the POSIX code does not do: neither     *)
(* holds, and the README says how to see it.                               *)

(* The error_code overloads of exists, is_directory, is_regular_file ...   *)
(* answer what the throwing ones do: with no error there is a type.        *)
ErrorCodeOverloadsAnswer ==
  (call.op = "file_type" /\ call.mode = "ec" /\ call.err = "ok")
  => Exists(call.type)

(* is_symlink() does not follow links: it says of an entry what lstat()    *)
(* would have said of the path at one moment since the last refresh.       *)
SymlinkQueriesSeeTheLink ==
  (call.op = "symlink_type" /\ call.mode = "throw" /\ call.err = "ok")
  => \E v \in base..Version(path) :
       fs[path][v].lstat = "symlink" <=> call.type = "symlink"
=============================================================================
