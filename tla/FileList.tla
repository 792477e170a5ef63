------------------------------ MODULE FileList ------------------------------
(***************************************************************************)
(* Listings of a job's working directory (handle_file_list in               *)
(* files/mod.rs): one task per request, at most FILE_LIST_CONCURRENCY_LIMIT  *)
(* of them at work, walking the tree while uploads change it.               *)
(***************************************************************************)
EXTENDS FileTree, FiniteSets

CONSTANTS
    Listings,       \* listing requests
    Permits,        \* FILE_LIST_CONCURRENCY_LIMIT
    MaxCount        \* u32::MAX, the largest count a FILE_LIST can carry

ASSUME ListAssumption ==
    /\ Permits \in Nat \ {0}
    /\ MaxCount \in Nat

VARIABLES
    lstage,         \* where each handle_file_list task stands
    request,        \* dir_path and is_recursive of each request
    waiting,        \* tasks in the semaphore's queue, which is first come first served
    free,           \* free permits
    stack,          \* directories still to be read, the last one pushed first
    entries,        \* entries of the current directory still to be handled
    files,          \* file_list
    spoilt,         \* listings that met an I/O error on their walk
    answers,        \* messages queued for each request
    settled         \* history: names that stayed as they were since the walk began

taskVars == <<lstage, request, waiting, free, stack, entries, files, spoilt, answers>>
listVars == <<taskVars, settled>>

LStages == {"idle", "acquire", "resolve", "locate", "walk", "done"}

Requests == [dir : {Root} \cup Dirs, recursive : BOOLEAN]

NoRequest == [dir |-> Root, recursive |-> FALSE]

ListTypeOK ==
    /\ lstage \in [Listings -> LStages]
    /\ request \in [Listings -> Requests]
    /\ \A l \in Listings :
        /\ stack[l] \in Seq(Names \cup {Root})
        /\ entries[l] \subseteq Names
        /\ answers[l] \in Seq({"FILE_LIST", "FILE_LIST_ERROR"})
    /\ waiting \in Seq(Listings)
    /\ free \in 0 .. Permits
    /\ spoilt \subseteq Listings

ListInit ==
    /\ lstage = [l \in Listings |-> "idle"]
    /\ request = [l \in Listings |-> NoRequest]
    /\ waiting = <<>>
    /\ free = Permits
    /\ stack = [l \in Listings |-> <<>>]
    /\ entries = [l \in Listings |-> {}]
    /\ files = [l \in Listings |-> <<>>]
    /\ spoilt = {}
    /\ answers = [l \in Listings |-> <<>>]
    /\ settled = [l \in Listings |-> {}]

(* What a listing says of a name: a directory, or a file and its contents     *)
(* (of which it gives the length).                                           *)
View(n) == IF at[n] \in Files THEN <<at[n], data[at[n]]>> ELSE <<at[n]>>

LGoto(l, s) == lstage' = [lstage EXCEPT ![l] = s]

Queue(l, msg) == answers' = [answers EXCEPT ![l] = Append(@, msg)]

walkVars == <<stack, entries, files, spoilt, settled>>

(* What a step of somebody else leaves settled.                              *)
Watch ==
    settled' = [l \in Listings |-> {n \in settled[l] : View(n)' = View(n)}]

-----------------------------------------------------------------------------
HandleFileList(l) ==
    /\ lstage[l] = "idle"
    /\ \E r \in Requests : request' = [request EXCEPT ![l] = r]
    /\ waiting' = Append(waiting, l)
    /\ LGoto(l, "acquire")
    /\ UNCHANGED <<tree, free, walkVars, answers>>

Acquire(l) ==
    /\ waiting # <<>> /\ l = Head(waiting)
    /\ free > 0
    /\ free' = free - 1
    /\ waiting' = Tail(waiting)
    /\ LGoto(l, "resolve")
    /\ UNCHANGED <<tree, request, walkVars, answers>>

(* Mutants: the early return keeps the permit; the error does not return.    *)
FailKeepsPermit(l) ==
    /\ Queue(l, "FILE_LIST_ERROR")
    /\ LGoto(l, "done")
    /\ UNCHANGED <<tree, request, waiting, free, walkVars>>

FailGoesOn(l) ==
    /\ Queue(l, "FILE_LIST_ERROR")
    /\ LGoto(l, "walk")
    /\ UNCHANGED <<tree, request, waiting, free, walkVars>>

(* send_file_list_error and return, which drops the permit.                  *)
Fail(l) ==
    /\ Queue(l, "FILE_LIST_ERROR")
    /\ free' = free + 1
    /\ LGoto(l, "done")
    /\ UNCHANGED <<tree, request, waiting, walkVars>>

(* resolve_working_directory_for_job: from the job's row, which may be        *)
(* missing or still being submitted, or from the bundle.                     *)
ResolveForJob(l) ==
    /\ lstage[l] = "resolve"
    /\ \/ LGoto(l, "locate")
          /\ UNCHANGED <<tree, request, waiting, free, walkVars, answers>>
       \/ Fail(l)

(* Both paths are made canonical and compared, and the target must be a       *)
(* directory. Any of it may fail.                                            *)
Locate(l) ==
    /\ lstage[l] = "locate"
    /\ \/ /\ IsDir(request[l].dir)
          /\ stack' = [stack EXCEPT ![l] = <<request[l].dir>>]
          /\ settled' = [settled EXCEPT ![l] = Names]
          /\ LGoto(l, "walk")
          /\ UNCHANGED <<tree, request, waiting, free, entries, files, spoilt, answers>>
       \/ Fail(l)

(* The loop takes the last directory and reads it (read_dir_into).           *)
ReadDir(l) ==
    /\ lstage[l] = "walk"
    /\ entries[l] = {} /\ stack[l] # <<>>
    /\ stack' = [stack EXCEPT ![l] = Tail(@)]
    /\ \/ entries' = [entries EXCEPT ![l] = Entries(Head(stack[l]))] /\ UNCHANGED spoilt
       \/ spoilt' = spoilt \cup {l} /\ UNCHANGED entries
    /\ UNCHANGED <<tree, lstage, request, waiting, free, files, answers, settled>>

(* Mutant: directories are listed and not descended into.                    *)
HandleEntryShallow(l, n) ==
    /\ lstage[l] = "walk"
    /\ n \in entries[l]
    /\ entries' = [entries EXCEPT ![l] = @ \ {n}]
    /\ files' = IF at[n] \in {NoEntry, Link} THEN files
                ELSE [files EXCEPT ![l] = Append(@, <<n, View(n)>>)]
    /\ UNCHANGED <<tree, lstage, request, waiting, free, stack, spoilt, answers, settled>>

(* collect_dir_entry and the handlers: a name that has gone is skipped, as is  *)
(* a link; directories go on the stack of a recursive listing.               *)
HandleEntry(l, n) ==
    /\ lstage[l] = "walk"
    /\ n \in entries[l]
    /\ entries' = [entries EXCEPT ![l] = @ \ {n}]
    /\ files' = IF at[n] \in {NoEntry, Link} THEN files
                ELSE [files EXCEPT ![l] = Append(@, <<n, View(n)>>)]
    /\ stack' = IF at[n] = Dir /\ request[l].recursive
                THEN [stack EXCEPT ![l] = <<n>> \o @] ELSE stack
    /\ UNCHANGED <<tree, lstage, request, waiting, free, spoilt, answers, settled>>

(* next_entry fails and ends the directory, or metadata fails for one name.  *)
EntryError(l) ==
    /\ lstage[l] = "walk"
    /\ entries[l] # {}
    /\ \/ entries' = [entries EXCEPT ![l] = {}]
       \/ \E n \in entries[l] : entries' = [entries EXCEPT ![l] = @ \ {n}]
    /\ spoilt' = spoilt \cup {l}
    /\ UNCHANGED <<tree, lstage, request, waiting, free, stack, files, answers, settled>>

(* cap_file_count: what does not fit the count is left out.                  *)
Capped(s) == IF Len(s) > MaxCount THEN SubSeq(s, 1, MaxCount) ELSE s

SendFileList(l) ==
    /\ lstage[l] = "walk"
    /\ entries[l] = {} /\ stack[l] = <<>>
    /\ files' = [files EXCEPT ![l] = Capped(@)]
    /\ Queue(l, "FILE_LIST")
    /\ free' = free + 1
    /\ LGoto(l, "done")
    /\ settled' = [settled EXCEPT ![l] = {}]
    /\ UNCHANGED <<tree, request, waiting, stack, entries, spoilt>>

-----------------------------------------------------------------------------
ListingRuns(l) ==
    \/ Acquire(l) \/ ResolveForJob(l) \/ Locate(l) \/ ReadDir(l)
    \/ \E n \in Names : HandleEntry(l, n)
    \/ EntryError(l) \/ SendFileList(l)

-----------------------------------------------------------------------------
(* The listing has n among its files.                                        *)
Reports(list, n) == \E i \in 1 .. Len(list) : list[i][1] = n

(* A walk that met no I/O error reports every file and directory that stayed   *)
(* as it was throughout the walk, with its length, if it is in the directory  *)
(* asked for or, recursively, in one that is reported, whatever uploads did to *)
(* the others meanwhile; and nothing twice (the stack of handle_file_list,     *)
(* collect_dir_entry, cap_file_count).                                       *)
ListsSettled ==
    [][\A l \in Listings :
        (lstage[l] = "walk" /\ lstage'[l] = "done") =>
            /\ \A i, j \in 1 .. Len(files'[l]) :
                files'[l][i][1] = files'[l][j][1] => i = j
            /\ l \notin spoilt /\ Len(files[l]) <= MaxCount =>
                \A n \in settled[l] :
                    (/\ at[n] \in Files \cup {Dir}
                     /\ \/ Parent[n] = request[l].dir
                        \/ request[l].recursive /\ Reports(files'[l], Parent[n]))
                        => \E i \in 1 .. Len(files'[l]) : files'[l][i] = <<n, View(n)>>
      ]_<<tree, listVars>>

(* Permits are neither lost nor made, whichever way a task returns, and no     *)
(* request is answered twice.                                                *)
PermitsConserved ==
    /\ \A l \in Listings : Len(answers[l]) <= 1
    /\ Permits - free = Cardinality({l \in Listings : lstage[l] \in {"resolve", "locate", "walk"}})

(* Every request is answered, however many come before it.                   *)
ListingAnswered ==
    \A l \in Listings : (lstage[l] = "acquire") ~> (answers[l] # <<>>)
=============================================================================
