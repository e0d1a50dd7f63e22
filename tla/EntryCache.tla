----------------------------- MODULE EntryCache -----------------------------
(***************************************************************************)
(* What one call on a directory_entry does to the entry's cached_data_     *)
(* (include/filesystem/fs_dir.h, src/fs_dir_iterator.cpp, POSIX branch).   *)
(*                                                                         *)
(* Pure operators: a call is a record that carries the cache through the   *)
(* steps of the C++ function, with the error it reports (thrown or stored  *)
(* in *ec, according to "mode"), its answer and whether an ASAP_ASSERT was *)
(* false on the way.  A build without assertions goes on after a false one *)
(* and that is the build the operators describe; "failed" says where the   *)
(* other build would have stopped.                                         *)
(*                                                                         *)
(* The values an attribute may take (size, times, permissions, link count) *)
(* are abstracted to a stamp naming the stat() result it was copied from.  *)
(***************************************************************************)

FileTypes == {"none", "not_found", "regular", "directory", "symlink", "fifo"}
CacheTypes == {"EMPTY", "BASIC", "EXTRA", "FULL"}
Modes == {"ec", "throw"}
Errors == {"ok", "ENOENT", "EACCES", "EISDIR", "ENOTSUP", "EOVERFLOW"}

Unset == <<>>   \* uintmax_t(-1), file_time_type::min(), perms::unknown

Attributes == {"nlink", "size", "write_time",
               "symlink_perms", "non_symlink_perms"}

CachedData(Stamps) ==
  [cache_type : CacheTypes, symlink : BOOLEAN, type : FileTypes,
   type_resolved : BOOLEAN, extra_resolved : BOOLEAN, perms_resolved : BOOLEAN,
   nlink : Stamps, size : Stamps, write_time : Stamps,
   symlink_perms : Stamps, non_symlink_perms : Stamps]

(* Mistake: the size is not initialised.                                   *)
ResetWithoutSize ==
  [cache_type |-> "EMPTY", symlink |-> FALSE, type |-> "none",
   type_resolved |-> FALSE, extra_resolved |-> FALSE, perms_resolved |-> FALSE,
   nlink |-> Unset, size |-> <<"uninitialized">>, write_time |-> Unset,
   symlink_perms |-> Unset, non_symlink_perms |-> Unset]

Reset ==
  [cache_type |-> "EMPTY", symlink |-> FALSE, type |-> "none",
   type_resolved |-> FALSE, extra_resolved |-> FALSE, perms_resolved |-> FALSE,
   nlink |-> Unset, size |-> Unset, write_time |-> Unset,
   symlink_perms |-> Unset, non_symlink_perms |-> Unset]

StatusKnown(type) == type # "none"
Exists(type) == StatusKnown(type) /\ type # "not_found"

-----------------------------------------------------------------------------
(* GetFileStatus: stat(), links followed.  A missing object has both the   *)
(* type not_found and an error; any other failure has type none.           *)

FileStatus(type, stamp) ==
  [type |-> type,
   err |-> CASE type = "not_found" -> "ENOENT"
             [] type = "none" -> "EACCES"
             [] OTHER -> "ok",
   stamp |-> IF Exists(type) THEN stamp ELSE Unset]

Call(cache, mode) ==
  [cache |-> cache, mode |-> mode, err |-> "ok", failed |-> FALSE,
   type |-> "none", stamp |-> Unset]

(* An exception leaves the function; an error code does not.               *)
Thrown(call) == call.mode = "throw" /\ call.err # "ok"

(* ErrorHandler::report and directory_entry::HandleError: no value, error. *)
Report(call, err) == [call EXCEPT !.err = err, !.type = "none", !.stamp = Unset]

AnswerType(call) == [call EXCEPT !.type = call.cache.type]
AnswerStamp(call, attribute) == [call EXCEPT !.stamp = call.cache[attribute]]

-----------------------------------------------------------------------------
(* The three fillers.  Each has an ErrorHandler of its own whose           *)
(* constructor clears *ec, so an error an earlier filler stored is lost.   *)

FirstFill(cache, st) ==
  [cache EXCEPT
     !.symlink = (st.type = "symlink"),
     !.type = st.type,
     !.nlink = IF st.type = "symlink" THEN st.stamp ELSE @,
     !.symlink_perms = IF st.type = "symlink" THEN st.stamp ELSE @]

ResolveLink(cache, st) ==
  [cache EXCEPT !.type = st.type, !.non_symlink_perms = st.stamp,
                !.type_resolved = TRUE, !.extra_resolved = TRUE,
                !.perms_resolved = TRUE]

UpdateBasicFileInformation(call, st, follow) ==
  IF call.cache.cache_type = "EMPTY" /\ st.err # "ok"
  THEN [call EXCEPT !.err = st.err]
  ELSE LET filled == IF call.cache.cache_type = "EMPTY"
                     THEN FirstFill(call.cache, st) ELSE call.cache
           resolved == IF filled.symlink /\ follow
                       THEN ResolveLink(filled, st) ELSE filled
       IN [call EXCEPT
             !.err = "ok",
             !.cache = [resolved EXCEPT
                !.size = IF st.type = "regular" THEN st.stamp ELSE @,
                !.write_time = IF Exists(st.type) THEN st.stamp ELSE @,
                !.cache_type = "FULL"]]

(* Common shape of the two fillers that only follow a link that is not     *)
(* resolved yet; the asserted precondition is the same.                    *)
FillMore(call, st, follow, resolved, next) ==
  IF Thrown(call) THEN call
  ELSE LET checked == [call EXCEPT !.err = "ok",
             !.failed = @ \/ call.cache.cache_type # "FULL"]
           filled == IF call.cache.symlink /\ follow /\ ~resolved
                     THEN UpdateBasicFileInformation(checked, st, TRUE)
                     ELSE checked
       IN IF Thrown(filled) THEN filled
          ELSE [filled EXCEPT !.cache.cache_type = next]

UpdateExtraFileInformation(call, st, follow) ==
  FillMore(call, st, follow, call.cache.extra_resolved, "EXTRA")

(* Mistake: the cache is no more than EXTRA when the permissions are in.   *)
PermissionsLeaveExtra(call, st, follow) ==
  FillMore(call, st, follow, call.cache.perms_resolved, "EXTRA")

UpdatePermissionsInformation(call, st, follow) ==
  FillMore(call, st, follow, call.cache.perms_resolved, "FULL")

(* Mistake: data that is cached is read again.                             *)
BasicAlways(call, st, follow) == UpdateBasicFileInformation(call, st, follow)

BasicIfEmpty(call, st, follow) ==
  IF call.cache.cache_type = "EMPTY"
  THEN UpdateBasicFileInformation(call, st, follow) ELSE call

-----------------------------------------------------------------------------
(* The getters.                                                            *)

GetSymLinkFileType(call, st) ==
  LET empty == call.cache.cache_type = "EMPTY"
      filled == BasicIfEmpty(call, st, FALSE)
  IN IF Thrown(filled) \/ (empty /\ call.mode = "ec") THEN filled
     ELSE IF filled.cache.symlink THEN [filled EXCEPT !.type = "symlink"]
     ELSE IF Exists(filled.cache.type) THEN AnswerType(filled)
     ELSE [Report(filled, "ENOENT") EXCEPT !.type = filled.cache.type]

(* Mistake: the error of the stat() is dropped.                            *)
GetFileTypeUnchecked(call, st) ==
  IF call.cache.cache_type = "EMPTY"
  THEN AnswerType([UpdateBasicFileInformation(call, st, TRUE) EXCEPT !.err = "ok"])
  ELSE AnswerType(call)

GetFileType(call, st) ==
  LET cache == call.cache
      stale == \/ cache.cache_type = "EMPTY"
               \/ cache.cache_type = "BASIC" /\ ~cache.type_resolved
      filled == IF stale THEN UpdateBasicFileInformation(call, st, TRUE)
                ELSE call
  IN IF Thrown(filled) \/ call.mode = "ec" THEN filled
     ELSE IF Exists(filled.cache.type) THEN AnswerType(filled)
     ELSE Report(filled, "ENOENT")

(* The part file_size and last_write_time share: extra information, links  *)
(* followed, wanted once.                                                  *)
ExtraOnce(call, st) ==
  CASE call.cache.cache_type \in {"EMPTY", "BASIC"} ->
         UpdateExtraFileInformation(BasicIfEmpty(call, st, TRUE), st, TRUE)
    [] call.cache.cache_type = "EXTRA" /\ ~call.cache.extra_resolved ->
         UpdateExtraFileInformation(call, st, TRUE)
    [] OTHER -> call

GetSize(call, st) ==
  LET filled == BasicIfEmpty(call, st, TRUE)
      type == filled.cache.type
      more == ExtraOnce(call, st)
  IN IF /\ call.cache.cache_type = "EMPTY"
        /\ ~Thrown(filled)
        /\ Exists(type) /\ type # "regular"
     THEN Report(filled, IF type = "directory" THEN "EISDIR" ELSE "ENOTSUP")
     ELSE IF Thrown(more) THEN more ELSE AnswerStamp(more, "size")

GetHardLinkCount(call, st) ==
  LET more == IF call.cache.cache_type \in {"EMPTY", "BASIC"}
              THEN UpdateExtraFileInformation(BasicIfEmpty(call, st, FALSE),
                                              st, FALSE)
              ELSE call
  IN IF Thrown(more) THEN more ELSE AnswerStamp(more, "nlink")

GetLastWriteTime(call, st) ==
  LET more == ExtraOnce(call, st)
  IN IF Thrown(more) THEN more
     ELSE IF Exists(more.cache.type) /\ more.cache.write_time = Unset
     THEN Report(more, "EOVERFLOW")
     ELSE AnswerStamp(more, "write_time")

(* status() and symlink_status(): extra information without following the *)
(* link, then the permissions.                                             *)
Permissions(call, st, follow) ==
  LET extra == IF call.cache.cache_type \in {"EMPTY", "BASIC"}
               THEN UpdateExtraFileInformation(BasicIfEmpty(call, st, follow),
                                               st, FALSE)
               ELSE call
  IN UpdatePermissionsInformation(extra, st, follow)

GetStatus(call, st) ==
  LET done == IF call.cache.cache_type = "FULL" /\ call.cache.perms_resolved
              THEN call ELSE Permissions(call, st, TRUE)
  IN IF Thrown(done) THEN done
     ELSE AnswerStamp(AnswerType(done), "non_symlink_perms")

GetSymLinkStatus(call, st) ==
  LET done == IF call.cache.cache_type = "FULL"
              THEN call ELSE Permissions(call, st, FALSE)
  IN IF Thrown(done) THEN done
     ELSE AnswerStamp(AnswerType(done), "symlink_perms")

(* DoRefresh: never throws for an object that does not exist.              *)
DoRefresh(st, mode) ==
  LET filled == UpdateBasicFileInformation(Call(Reset, "ec"), st, TRUE)
  IN [filled EXCEPT !.mode = mode,
                    !.err = IF mode = "throw" /\ @ = "ENOENT" THEN "ok" ELSE @]

(* What readdir() leaves in the one directory_entry a DirectoryStream      *)
(* keeps: the fields of the entry before it stay unless assigned here.     *)
AssignDirent(cache, type) ==
  [cache EXCEPT !.type = type, !.cache_type = "BASIC",
                !.symlink = IF type = "symlink" THEN TRUE ELSE @]
=============================================================================
