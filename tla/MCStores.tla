------------------------------ MODULE MCStores ------------------------------
(***************************************************************************)
(* The stores and their services for TLC: usage, notes, remote profiles,   *)
(* secrets and the connections made from them.  The parts share no state,  *)
(* so one run checks them side by side: "part" chooses the one a behaviour *)
(* is about.                                                               *)
(***************************************************************************)
EXTENDS UsageTracking, UsageRetention, UsageOpen, NotesStore, NotesUpload, NotesOpen, NotesPages,
        RemoteProfiles, RemoteConnect, TLC

VARIABLE part

MCWatched == [daily |-> 9, weekly |-> 1]
MCDrafts == {[text |-> "x", tags |-> <<"A", "b", "a">>], [text |-> "y", tags |-> <<"A">>]}
MCTagKey == [A |-> 1, a |-> 1, b |-> 2]
MCPolicies == {[purge |-> 1, prune |-> 2, keep |-> 1], [purge |-> 0, prune |-> 1, keep |-> 2]}
MCBodyOf == [u1 |-> <<1, 2>>, u2 |-> <<3>>]
PoolNote(i, p, u, d, s, x, z) ==
  [id |-> i, pinned |-> p, updated |-> u, created |-> 5 - u, title |-> u, date |-> d, status |-> s,
   deleted |-> x, tags |-> IF p THEN {"a"} ELSE {"a", "b"}, size |-> z]
MCNotePool == {PoolNote(1, FALSE, 1, 3, "active", FALSE, 3), PoolNote(2, TRUE, 2, 0, "draft", FALSE, 4),
               PoolNote(3, FALSE, 1, 2, "active", TRUE, 5), PoolNote(4, FALSE, 2, 3, "active", FALSE, 4)}
MCNoteQueries ==
  [deleted : {"exclude", "include", "only"}, status : {"any", "active"}, from : {0, 3}, to : {0, 2, 3},
   tags : {{}, {"b"}}, sort : {"updated", "created", "title", "diary"}, limit : 0..3]
MCSeparatorSize == [markdown |-> 2, json |-> 1]

CallerSymmetry == Permutations(Callers)

allUsageVars == <<usageVars, retentionVars, openVars>>
allNotesVars == <<notesVars, uploadVars, notesOpenVars, pagesVars>>
remoteVars == <<profileVars, connectVars>>

(* The variables of the parts a behaviour is not about have one value, and the *)
(* window in focus at first is any one: applications are interchangeable.      *)
MCInit ==
  /\ part \in {"tracking", "retention", "opening", "notes", "upload", "open", "pages",
               "profiles", "listing", "connect", "secrets"}
  /\ UsageInit /\ world.focus = CHOOSE a \in Apps : TRUE
  /\ RetentionInit /\ (part # "retention" => offset = 0)
  /\ OpenInit /\ (part # "opening" => ver = 2)
  /\ NotesInit /\ UploadInit
  /\ NotesOpenInit /\ (part # "open" => paths = "private" /\ database = [version |-> 0, sound |-> TRUE])
  /\ IF part = "pages" THEN PagesInit
     ELSE /\ corpus = {} /\ pageOffset = 0 /\ collected = <<>> /\ pageWalk = "done"
          /\ noteQuery = [deleted |-> "exclude", status |-> "any", from |-> 0, to |-> 0, tags |-> {},
                          sort |-> "title", limit |-> 1]
  /\ ProfilesInit
  /\ ConnectInit /\ (part \notin {"connect", "secrets"} => service = {})

UsageParts ==
  \/ part = "tracking" /\ UsageNext /\ UNCHANGED <<retentionVars, openVars>>
  \/ part = "retention" /\ RetentionNext /\ UNCHANGED <<usageVars, openVars>>
  \/ part = "opening" /\ OpenNext /\ UNCHANGED <<usageVars, retentionVars>>

NotesParts ==
  \/ part = "notes" /\ NotesNext /\ UNCHANGED <<uploadVars, notesOpenVars, pagesVars>>
  \/ part = "upload" /\ UploadNext /\ UNCHANGED <<notesVars, notesOpenVars, pagesVars>>
  \/ part = "open" /\ NotesOpenNext /\ UNCHANGED <<notesVars, uploadVars, pagesVars>>
  \/ part = "pages" /\ PagesNext /\ UNCHANGED <<notesVars, uploadVars, notesOpenVars>>

RemoteParts ==
  \/ part = "profiles" /\ GateNext /\ UNCHANGED connectVars
  \/ part = "listing" /\ ProfilePagesNext /\ UNCHANGED connectVars
  \/ part = "connect" /\ ConnectNext /\ UNCHANGED profileVars
  \/ part = "secrets" /\ SecretsNext /\ UNCHANGED profileVars

MCNext ==
  /\ UNCHANGED part
  /\ \/ UsageParts /\ UNCHANGED <<allNotesVars, remoteVars>>
     \/ NotesParts /\ UNCHANGED <<allUsageVars, remoteVars>>
     \/ RemoteParts /\ UNCHANGED <<allUsageVars, allNotesVars>>

MCVars == <<part, allUsageVars, allNotesVars, remoteVars>>

MCSpec == MCInit /\ [][MCNext]_MCVars
=============================================================================
