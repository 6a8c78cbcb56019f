------------------------- MODULE DesignStudioProofs -------------------------
(***************************************************************************)
(* Proofs about where designs are kept.  DesignStudio, for every set of    *)
(* designs and callers, both stores and any bounds: no edit is stored      *)
(* under another design, unannounced, or over a later one.                 *)
(* SchemaMigration, for any processes, releases, starting version and      *)
(* kills: the schema of a SQLite store is migrated once, in order, and     *)
(* never back, and migrate() returns only on the schema of its own release.*)
(***************************************************************************)
EXTENDS DesignStudio, SchemaMigration, TLAPS

-----------------------------------------------------------------------------
(* DesignStudio: the inductive invariant.                                  *)

\* A document, and what a change made by a call at work is for.
Home(changes, i) == \A change \in changes : change[1] = i

\* Every stored document is at home, and so is every document a call is about
\* to store.
HomeInv ==
    /\ DocStaysHome
    /\ \A c \in Callers :
          /\ pc[c] # "idle" => req[c].mark # 0
          /\ pc[c] \in {"exists", "save", "write"} => Home(doc[c], req[c].target)

\* A design written or deleted since its last event has a call about to
\* publish, or one that will find the file it wrote and publish.
SpokenInv ==
    \A i \in Ids : unsaid[i] =>
        \E c \in Callers :
           /\ SaveTarget(c) = i
           /\ pc[c] = "publish" \/ (pc[c] = "stat" /\ stored[i] # Absent)

\* While the saves of a design do not overlap, at most one has its file open,
\* and then the file is torn; otherwise the file is what the last one left.
\* Only the file store opens files.
WriterInv ==
    /\ \A c \in Callers : pc[c] = "write" => backend = "file"
    /\ \A i \in Ids : clean[i] =>
          \/ Writers(i) = {} /\ stored[i] = intended[i]
          \/ \E c \in Callers : Writers(i) = {c} /\ stored[i] = Torn

IInv == TypeOK /\ HomeInv /\ SpokenInv /\ WriterInv

-----------------------------------------------------------------------------
(* Lemmas.                                                                 *)

\* The four kinds of content differ, and only a document is readable.
LEMMA Contents ==
    /\ Absent # Torn /\ Absent # Mangled /\ Torn # Mangled
    /\ ~Readable(Absent) /\ ~Readable(Torn) /\ ~Readable(Mangled)
    /\ \A changes : /\ Doc(changes) # Absent /\ Doc(changes) # Torn
                    /\ Doc(changes).changes = changes
  BY DEF Absent, Torn, Mangled, Readable, Doc

\* What is readable among the contents is a document.
LEMMA ReadableContent ==
    ASSUME NEW content \in Document \cup {Absent, Torn, Mangled}, Readable(content)
    PROVE  content.changes \subseteq Change
  BY Contents DEF Document

LEMMA DocContent ==
    ASSUME NEW changes \in SUBSET Change
    PROVE  Doc(changes) \in Document
  BY DEF Doc, Document

-----------------------------------------------------------------------------
(* Types.                                                                  *)

LEMMA InitType == ASSUME Init PROVE TypeOK
  BY StudioAssumption DEF Init, TypeOK, Steps, Requests, AllOps

\* A request is what its operation admits.
LEMMA BeginType ==
    ASSUME TypeOK, NEW c \in Callers, NEW op \in Ops, NEW asked \in Askable(op),
           Begin(c, op, asked), UNCHANGED backend
    PROVE  TypeOK'
  <1> DEFINE target == IF op = "put" THEN asked ELSE Resolve(asked)
             r == [op |-> op, asked |-> asked, target |-> target, mark |-> calls + 1]
             d == IF op \in {"post", "create", "overwrite"}
                  THEN {<<target, calls + 1>>} ELSE {}
  <1>1. op \in AllOps /\ asked \in Ids \cup {NoId, EmptyId}
    BY StudioAssumption DEF Askable
  <1>2. target \in Ids \cup {NoId, EmptyId} /\ (op # "put" => target \in Ids)
    <2>1. op # "put" => asked \in Ids \/ (asked = NoId /\ op \in {"edit", "apply"})
      BY <1>1 DEF Askable, AllOps
    <2>2. op \in {"edit", "apply"} => Resolve(asked) # NoId
      BY DEF Begin
    <2> QED BY <1>1, <2>1, <2>2, StudioAssumption DEF Resolve, TypeOK
  <1>3. calls + 1 \in 1..MaxCalls
    BY StudioAssumption DEF Begin, TypeOK
  <1>4. r \in Requests
    BY <1>1, <1>2, <1>3 DEF Requests
  <1>5. d \subseteq Change
    BY <1>2, <1>3 DEF Change
  <1>6. FirstStep(op) \in Steps \ {"idle"} /\ (op # "put" => FirstStep(op) # "activate")
        /\ (op = "put" => FirstStep(op) = "activate")
    BY <1>1 DEF FirstStep, Steps, AllOps
  <1>7. /\ req' = [req EXCEPT ![c] = r] /\ doc' = [doc EXCEPT ![c] = d]
        /\ pc' = [pc EXCEPT ![c] = FirstStep(op)] /\ calls' = calls + 1
        /\ UNCHANGED <<backend, stored, intended, clean, lastEvent, unsaid, active,
                       linked, crashes>>
    BY DEF Begin, storeVars, busVars
  <1>8. r.target = target
    OBVIOUS
  <1> HIDE DEF r, d, target
  <1> QED
    BY <1>1, <1>2, <1>3, <1>4, <1>5, <1>6, <1>7, <1>8 DEF TypeOK

LEMMA TypeStep == ASSUME TypeOK, HomeInv, Next PROVE TypeOK'
  <1> USE DEF Goto, Untouched, storeVars, busVars, bounds, SaveTarget
  <1>0. UNCHANGED backend
    BY DEF Next
  <1>1. ASSUME NEW c \in Callers, NEW op \in Ops, NEW asked \in Askable(op),
               Begin(c, op, asked)
        PROVE  TypeOK'
    BY <1>0, <1>1, BeginType
  <1>2. ASSUME NEW c \in Callers, LoadFails(c) PROVE TypeOK'
    BY <1>0, <1>2 DEF LoadFails, TypeOK, Steps
  <1>3. ASSUME NEW c \in Callers, LoadForEdit(c) PROVE TypeOK'
    <2>1. pc[c] = "load" /\ req[c] \in Requests /\ req[c].target \in Ids /\ req[c].mark # 0
      BY <1>3 DEF LoadForEdit, TypeOK, HomeInv
    <2>2. <<req[c].target, req[c].mark>> \in Change
      BY <2>1, StudioAssumption DEF Requests, Change
    <2>3. stored[req[c].target].changes \subseteq Change
      BY <1>3, <2>1, ReadableContent DEF LoadForEdit, TypeOK
    <2> QED BY <1>0, <1>3, <2>1, <2>2, <2>3 DEF LoadForEdit, TypeOK, Steps
  <1>4. ASSUME NEW c \in Callers, LoadForApply(c) PROVE TypeOK'
    <2>1. pc[c] = "load" /\ req[c] \in Requests /\ req[c].target \in Ids /\ req[c].mark # 0
      BY <1>4 DEF LoadForApply, TypeOK, HomeInv
    <2>2. <<req[c].target, req[c].mark>> \in Change
      BY <2>1, StudioAssumption DEF Requests, Change
    <2>3. stored[req[c].target].changes \subseteq Change
      BY <1>4, <2>1, ReadableContent DEF LoadForApply, TypeOK
    <2> QED BY <1>0, <1>4, <2>1, <2>2, <2>3 DEF LoadForApply, AfterApply, TypeOK, Steps
  <1>5. ASSUME NEW c \in Callers, CheckExists(c) PROVE TypeOK'
    BY <1>0, <1>5 DEF CheckExists, TypeOK, Steps
  <1>6. ASSUME NEW c \in Callers, Upsert(c) PROVE TypeOK'
    <2>1. Doc(doc[c]) \in Document /\ req[c].target \in Ids
      BY <1>6, DocContent DEF Upsert, TypeOK
    <2> QED BY <1>0, <1>6, <2>1 DEF Upsert, AfterStore, TypeOK, Steps
  <1>7. ASSUME NEW c \in Callers, OpenFile(c) PROVE TypeOK'
    BY <1>0, <1>7 DEF OpenFile, Opened, TypeOK, Steps
  <1>8. ASSUME NEW c \in Callers, WriteFile(c) PROVE TypeOK'
    <2>1. Doc(doc[c]) \in Document /\ req[c].target \in Ids
      BY <1>8, DocContent DEF WriteFile, TypeOK
    <2>2. stored' \in [Ids -> Document \cup {Absent, Torn, Mangled}]
      <3>1. CASE ~linked[c]
        BY <1>8, <3>1 DEF WriteFile, TypeOK
      <3>2. ASSUME NEW content \in {Doc(doc[c]), Mangled},
                   stored' = [stored EXCEPT ![req[c].target] = content]
            PROVE  stored' \in [Ids -> Document \cup {Absent, Torn, Mangled}]
        BY <2>1, <3>2 DEF TypeOK
      <3> QED BY <1>8, <3>1, <3>2 DEF WriteFile
    <2>3. unsaid' \in [Ids -> BOOLEAN] /\ intended' \in [Ids -> Document \cup {Absent}]
      BY <1>8, <2>1 DEF WriteFile, TypeOK
    <2> QED BY <1>0, <1>8, <2>1, <2>2, <2>3 DEF WriteFile, TypeOK, Steps
  <1>9. ASSUME NEW c \in Callers, StatFile(c) PROVE TypeOK'
    BY <1>0, <1>9 DEF StatFile, AfterStore, TypeOK, Steps
  <1>10. ASSUME NEW c \in Callers, Unlink(c) PROVE TypeOK'
    BY <1>0, <1>10 DEF Unlink, AfterStore, TypeOK, Steps
  <1>11. ASSUME NEW c \in Callers, Publish(c) PROVE TypeOK'
    BY <1>0, <1>11 DEF Publish, TypeOK, Steps
  <1>12. ASSUME NEW c \in Callers, Activate(c) PROVE TypeOK'
    <2>1. Normalized(req[c].target) \in Ids \cup {NoId}
      BY <1>12 DEF Normalized, TypeOK, Requests
    <2> QED BY <1>0, <1>12, <2>1 DEF Activate, TypeOK, Steps
  <1>13. ASSUME NEW c \in Callers, Compare(c) PROVE TypeOK'
    BY <1>0, <1>13 DEF Compare, TypeOK, Steps
  <1>14. ASSUME NEW c \in Callers, Clear(c) PROVE TypeOK'
    BY <1>0, <1>14 DEF Clear, TypeOK, Steps
  <1>15. CASE Crash
    BY <1>0, <1>15, StudioAssumption DEF Crash, TypeOK, Steps
  <1> QED
    BY <1>1, <1>2, <1>3, <1>4, <1>5, <1>6, <1>7, <1>8, <1>9, <1>10, <1>11,
       <1>12, <1>13, <1>14, <1>15 DEF Next, Step

-----------------------------------------------------------------------------
(* Documents stay home.                                                    *)

\* A step that stores nothing, and of the documents about to be stored changes
\* only its own caller's, to one that is at home.
LEMMA HomeQuiet ==
    ASSUME TypeOK, HomeInv, NEW c \in Callers, UNCHANGED <<stored, req>>,
           pc[c] # "idle",
           \A w \in Callers : w # c => pc'[w] = pc[w] /\ doc'[w] = doc[w],
           pc'[c] \in {"exists", "save", "write"} => Home(doc'[c], req[c].target)
    PROVE  HomeInv'
  <1>1. ASSUME NEW w \in Callers, pc'[w] # "idle" PROVE req'[w].mark # 0
    BY <1>1 DEF HomeInv
  <1>2. ASSUME NEW w \in Callers, pc'[w] \in {"exists", "save", "write"}
        PROVE  Home(doc'[w], req'[w].target)
    BY <1>2 DEF HomeInv
  <1>3. DocStaysHome'
    BY DEF HomeInv, DocStaysHome
  <1> QED BY <1>1, <1>2, <1>3 DEF HomeInv, Home

\* So is a step that stores, under its caller's design, the caller's document,
\* or what no one can read.
LEMMA HomeStored ==
    ASSUME TypeOK, HomeInv, NEW c \in Callers, UNCHANGED <<req, doc>>,
           pc[c] # "idle", req[c].target \in Ids,
           NEW content, Readable(content) => Home(content.changes, req[c].target),
           stored' = [stored EXCEPT ![req[c].target] = content],
           \A w \in Callers : w # c => pc'[w] = pc[w],
           pc'[c] \in {"exists", "save", "write"} => pc[c] \in {"exists", "save", "write"}
    PROVE  HomeInv'
  <1>1. ASSUME NEW w \in Callers, pc'[w] # "idle" PROVE req'[w].mark # 0
    BY <1>1 DEF HomeInv
  <1>2. ASSUME NEW w \in Callers, pc'[w] \in {"exists", "save", "write"}
        PROVE  Home(doc'[w], req'[w].target)
    BY <1>2 DEF HomeInv
  <1>3. DocStaysHome'
    BY DEF HomeInv, DocStaysHome, Home, TypeOK
  <1> QED BY <1>1, <1>2, <1>3 DEF HomeInv, Home

LEMMA HomeStep == ASSUME TypeOK, HomeInv, Next PROVE HomeInv'
  <1> USE DEF Goto, Untouched, storeVars, busVars, bounds, SaveTarget
  <1>0. DOMAIN pc = Callers /\ DOMAIN doc = Callers /\ DOMAIN req = Callers
    BY DEF TypeOK
  <1>1. ASSUME NEW c \in Callers, NEW op \in Ops, NEW asked \in Askable(op),
               Begin(c, op, asked)
        PROVE  HomeInv'
    <2>1. req'[c].mark # 0
      BY <1>0, <1>1 DEF Begin, TypeOK
    <2>2. Home(doc'[c], req'[c].target)
      BY <1>0, <1>1 DEF Begin, Home
    <2>3. \A w \in Callers : w # c => /\ pc'[w] = pc[w] /\ doc'[w] = doc[w]
                                      /\ req'[w] = req[w]
      BY <1>0, <1>1 DEF Begin
    <2>4. DocStaysHome'
      BY <1>1 DEF Begin, HomeInv, DocStaysHome
    <2> QED BY <2>1, <2>2, <2>3, <2>4 DEF HomeInv, Home
  <1>2. ASSUME NEW c \in Callers, LoadFails(c) PROVE HomeInv'
    <2>1. /\ pc[c] # "idle" /\ pc'[c] = "idle" /\ UNCHANGED <<stored, req>>
          /\ \A w \in Callers : w # c => pc'[w] = pc[w] /\ doc'[w] = doc[w]
      BY <1>0, <1>2 DEF LoadFails
    <2> QED BY <2>1, HomeQuiet
  <1>3. ASSUME NEW c \in Callers, LoadForEdit(c) PROVE HomeInv'
    <2> DEFINE content == stored[req[c].target]
    <2>1. /\ pc[c] = "load" /\ req[c].target \in Ids /\ Readable(content)
          /\ UNCHANGED <<stored, req>>
          /\ \A w \in Callers : w # c => pc'[w] = pc[w] /\ doc'[w] = doc[w]
      BY <1>0, <1>3 DEF LoadForEdit, TypeOK
    <2>2. Home(content.changes, req[c].target)
      BY <2>1 DEF HomeInv, DocStaysHome, Home
    <2>3. \/ pc'[c] = "idle"
          \/ \E made \in {{}, {<<req[c].target, req[c].mark>>}} :
                doc'[c] = content.changes \cup made
      BY <1>0, <1>3 DEF LoadForEdit
    <2>4. pc'[c] # "idle" => Home(doc'[c], req[c].target)
      BY <2>2, <2>3 DEF Home
    <2> QED BY <2>1, <2>4, HomeQuiet
  <1>4. ASSUME NEW c \in Callers, LoadForApply(c) PROVE HomeInv'
    <2>1. /\ pc[c] # "idle" /\ pc'[c] = "idle" /\ UNCHANGED <<stored, req>>
          /\ \A w \in Callers : w # c => pc'[w] = pc[w] /\ doc'[w] = doc[w]
      BY <1>0, <1>4 DEF LoadForApply, AfterApply
    <2> QED BY <2>1, HomeQuiet
  <1>5. ASSUME NEW c \in Callers, CheckExists(c) PROVE HomeInv'
    <2>1. /\ pc[c] = "exists" /\ UNCHANGED <<stored, req, doc>>
          /\ \A w \in Callers : w # c => pc'[w] = pc[w]
      BY <1>0, <1>5 DEF CheckExists
    <2> QED BY <2>1, HomeQuiet DEF HomeInv
  <1>6. ASSUME NEW c \in Callers, Upsert(c) PROVE HomeInv'
    <2>1. /\ pc[c] = "save" /\ req[c].target \in Ids /\ UNCHANGED <<req, doc>>
          /\ stored' = [stored EXCEPT ![req[c].target] = Doc(doc[c])]
          /\ \A w \in Callers : w # c => pc'[w] = pc[w]
      BY <1>0, <1>6 DEF Upsert, TypeOK
    <2>2. Home(Doc(doc[c]).changes, req[c].target)
      BY <2>1, Contents DEF HomeInv
    <2> QED BY <2>1, <2>2, HomeStored
  <1>7. ASSUME NEW c \in Callers, OpenFile(c) PROVE HomeInv'
    <2>1. /\ pc[c] = "save" /\ req[c].target \in Ids /\ UNCHANGED <<req, doc>>
          /\ stored' = [stored EXCEPT ![req[c].target] = Torn]
          /\ \A w \in Callers : w # c => pc'[w] = pc[w]
      BY <1>0, <1>7 DEF OpenFile, Opened, TypeOK
    <2> QED BY <2>1, Contents, HomeStored
  <1>8. ASSUME NEW c \in Callers, WriteFile(c) PROVE HomeInv'
    <2>1. /\ pc[c] = "write" /\ req[c].target \in Ids /\ UNCHANGED <<req, doc>>
          /\ \A w \in Callers : w # c => pc'[w] = pc[w]
      BY <1>0, <1>8 DEF WriteFile, TypeOK
    <2>2. CASE UNCHANGED stored
      BY <2>1, <2>2, HomeQuiet DEF HomeInv
    <2>3. ASSUME NEW content \in {Doc(doc[c]), Mangled},
                 stored' = [stored EXCEPT ![req[c].target] = content]
          PROVE  HomeInv'
      <3>1. Home(Doc(doc[c]).changes, req[c].target)
        BY <2>1, Contents DEF HomeInv
      <3> QED BY <2>1, <2>3, <3>1, Contents, HomeStored
    <2> QED BY <1>8, <2>2, <2>3 DEF WriteFile
  <1>9. ASSUME NEW c \in Callers, StatFile(c) PROVE HomeInv'
    <2>1. /\ pc[c] = "stat" /\ pc'[c] \in {"idle", "publish"} /\ UNCHANGED <<stored, req, doc>>
          /\ \A w \in Callers : w # c => pc'[w] = pc[w]
      BY <1>0, <1>9 DEF StatFile, AfterStore
    <2> QED BY <2>1, HomeQuiet
  <1>10. ASSUME NEW c \in Callers, Unlink(c) PROVE HomeInv'
    <2>1. /\ pc[c] = "unlink" /\ pc'[c] \in {"idle", "publish"} /\ UNCHANGED <<req, doc>>
          /\ req[c].target \in Ids
          /\ \A w \in Callers : w # c => pc'[w] = pc[w]
      BY <1>0, <1>10 DEF Unlink, AfterStore, TypeOK
    <2>2. CASE UNCHANGED stored
      BY <2>1, <2>2, HomeQuiet
    <2>3. CASE stored' = [stored EXCEPT ![req[c].target] = Absent]
      BY <2>1, <2>3, Contents, HomeStored
    <2> QED BY <1>10, <2>2, <2>3 DEF Unlink
  <1>11. ASSUME NEW c \in Callers, Publish(c) PROVE HomeInv'
    <2>1. /\ pc[c] = "publish" /\ pc'[c] \in {"idle", "compare", "activate"}
          /\ UNCHANGED <<stored, req, doc>>
          /\ \A w \in Callers : w # c => pc'[w] = pc[w]
      BY <1>0, <1>11 DEF Publish
    <2> QED BY <2>1, HomeQuiet
  <1>12. ASSUME NEW c \in Callers, Activate(c) \/ Compare(c) \/ Clear(c) PROVE HomeInv'
    <2>1. /\ pc[c] # "idle" /\ pc'[c] \in {"idle", "clear"} /\ UNCHANGED <<stored, req, doc>>
          /\ \A w \in Callers : w # c => pc'[w] = pc[w]
      BY <1>0, <1>12 DEF Activate, Compare, Clear
    <2> QED BY <2>1, HomeQuiet
  <1>13. CASE Crash
    BY <1>13 DEF Crash, HomeInv, DocStaysHome
  <1> QED
    BY <1>1, <1>2, <1>3, <1>4, <1>5, <1>6, <1>7, <1>8, <1>9, <1>10, <1>11,
       <1>12, <1>13 DEF Next, Step

-----------------------------------------------------------------------------
(* No write goes unpublished.                                              *)

\* The caller that will publish what was last done to design i.
Speaker(c, i) ==
    /\ SaveTarget(c) = i
    /\ pc[c] = "publish" \/ (pc[c] = "stat" /\ stored[i] # Absent)

\* A caller that is no speaker can take any step that writes nothing, and one
\* that becomes a speaker can write its own design.
LEMMA SpokenQuiet ==
    ASSUME TypeOK, SpokenInv, NEW c \in Callers,
           \A w \in Callers : w # c => pc'[w] = pc[w] /\ req'[w] = req[w],
           UNCHANGED <<stored, unsaid>>,
           \A i \in Ids : Speaker(c, i) => Speaker(c, i)'
    PROVE  SpokenInv'
  BY DEF SpokenInv, Speaker, SaveTarget

LEMMA SpokenWrite ==
    ASSUME TypeOK, SpokenInv, NEW c \in Callers, UNCHANGED req,
           \A w \in Callers : w # c => pc'[w] = pc[w],
           NEW i \in Ids, Speaker(c, i)',
           \A j \in Ids : Speaker(c, j) => j = i,
           \A j \in Ids : j # i => stored'[j] = stored[j] /\ unsaid'[j] = unsaid[j]
    PROVE  SpokenInv'
  BY DEF SpokenInv, Speaker, SaveTarget

LEMMA SpokenStep == ASSUME TypeOK, SpokenInv, Next PROVE SpokenInv'
  <1> USE DEF Goto, Untouched, storeVars, busVars, bounds, SaveTarget
  <1>0. DOMAIN pc = Callers /\ DOMAIN req = Callers
    BY DEF TypeOK
  <1>1. ASSUME NEW c \in Callers, NEW op \in Ops, NEW asked \in Askable(op),
               Begin(c, op, asked)
        PROVE  SpokenInv'
    <2>1. /\ pc[c] = "idle" /\ UNCHANGED <<stored, unsaid>>
          /\ \A w \in Callers : w # c => pc'[w] = pc[w] /\ req'[w] = req[w]
      BY <1>0, <1>1 DEF Begin
    <2> QED BY <2>1, SpokenQuiet DEF Speaker
  <1>2. ASSUME NEW c \in Callers,
               \/ LoadFails(c) \/ LoadForEdit(c) \/ LoadForApply(c) \/ CheckExists(c)
               \/ Activate(c) \/ Compare(c) \/ Clear(c) \/ OpenFile(c)
        PROVE  SpokenInv'
    <2>1. /\ pc[c] \notin {"stat", "publish"} /\ UNCHANGED <<unsaid, req>>
          /\ \A w \in Callers : w # c => pc'[w] = pc[w]
          /\ \A i \in Ids : stored[i] # Absent => stored'[i] # Absent
      BY <1>0, <1>2, Contents DEF LoadFails, LoadForEdit, LoadForApply, CheckExists,
         Activate, Compare, Clear, OpenFile, Opened, TypeOK
    <2> QED BY <2>1 DEF SpokenInv
  <1>3. ASSUME NEW c \in Callers, Upsert(c) PROVE SpokenInv'
    <2> DEFINE i == req[c].target
    <2>1. /\ i \in Ids /\ pc[c] = "save" /\ pc'[c] = "publish" /\ UNCHANGED req
          /\ \A w \in Callers : w # c => pc'[w] = pc[w]
          /\ \A j \in Ids : j # i => stored'[j] = stored[j] /\ unsaid'[j] = unsaid[j]
      BY <1>0, <1>3 DEF Upsert, AfterStore, TypeOK
    <2>2. Speaker(c, i)' /\ \A j \in Ids : ~Speaker(c, j)
      BY <2>1 DEF Speaker
    <2> QED BY <2>1, <2>2, SpokenWrite
  <1>4. ASSUME NEW c \in Callers, WriteFile(c) PROVE SpokenInv'
    <2> DEFINE i == req[c].target
    <2>1. /\ i \in Ids /\ pc[c] = "write" /\ pc'[c] = "stat" /\ UNCHANGED req
          /\ \A w \in Callers : w # c => pc'[w] = pc[w]
      BY <1>0, <1>4 DEF WriteFile, TypeOK
    <2>2. \A j \in Ids : ~Speaker(c, j)
      BY <2>1 DEF Speaker
    <2>3. CASE UNCHANGED <<stored, unsaid>>
      BY <2>1, <2>2, <2>3, SpokenQuiet
    <2>4. ASSUME NEW content \in {Doc(doc[c]), Mangled},
                 stored' = [stored EXCEPT ![i] = content],
                 unsaid' = [unsaid EXCEPT ![i] = TRUE]
          PROVE  SpokenInv'
      <3>1. stored'[i] # Absent
        BY <2>1, <2>4, Contents DEF TypeOK
      <3>2. Speaker(c, i)'
        BY <2>1, <3>1 DEF Speaker
      <3>3. \A j \in Ids : j # i => stored'[j] = stored[j] /\ unsaid'[j] = unsaid[j]
        BY <2>4
      <3> QED BY <2>1, <2>2, <3>2, <3>3, SpokenWrite
    <2> QED BY <1>4, <2>3, <2>4 DEF WriteFile
  <1>5. ASSUME NEW c \in Callers, StatFile(c) PROVE SpokenInv'
    <2>1. /\ pc[c] = "stat" /\ UNCHANGED <<stored, unsaid, req>>
          /\ \A w \in Callers : w # c => pc'[w] = pc[w]
          /\ stored[req[c].target] # Absent => pc'[c] = "publish"
      BY <1>0, <1>5 DEF StatFile, AfterStore
    <2> QED BY <2>1, SpokenQuiet DEF Speaker
  <1>6. ASSUME NEW c \in Callers, Unlink(c) PROVE SpokenInv'
    <2> DEFINE i == req[c].target
    <2>1. /\ i \in Ids /\ pc[c] = "unlink" /\ UNCHANGED req
          /\ \A w \in Callers : w # c => pc'[w] = pc[w]
          /\ \A j \in Ids : j # i => stored'[j] = stored[j] /\ unsaid'[j] = unsaid[j]
          /\ pc'[c] = "publish" \/ UNCHANGED <<stored, unsaid>>
      BY <1>0, <1>6 DEF Unlink, AfterStore, TypeOK
    <2>2. \A j \in Ids : ~Speaker(c, j)
      BY <2>1 DEF Speaker
    <2>3. CASE pc'[c] = "publish"
      <3>1. Speaker(c, i)'
        BY <2>1, <2>3 DEF Speaker
      <3> QED BY <2>1, <2>2, <3>1, SpokenWrite
    <2>4. CASE UNCHANGED <<stored, unsaid>>
      BY <2>1, <2>2, <2>4, SpokenQuiet
    <2> QED BY <2>1, <2>3, <2>4
  <1>7. ASSUME NEW c \in Callers, Publish(c) PROVE SpokenInv'
    <2>1. /\ UNCHANGED <<stored, req>> /\ unsaid' = [unsaid EXCEPT ![req[c].target] = FALSE]
          /\ \A w \in Callers : w # c => pc'[w] = pc[w]
      BY <1>0, <1>7 DEF Publish
    <2>2. ASSUME NEW j \in Ids, unsaid'[j]
          PROVE  \E w \in Callers : Speaker(w, j)'
      <3>1. j # req[c].target /\ unsaid[j]
        BY <2>1, <2>2 DEF TypeOK
      <3> QED BY <2>1, <3>1 DEF SpokenInv, Speaker
    <2> QED BY <2>2 DEF SpokenInv, Speaker
  <1>8. CASE Crash
    BY <1>8 DEF Crash, SpokenInv
  <1> QED
    BY <1>1, <1>2, <1>3, <1>4, <1>5, <1>6, <1>7, <1>8 DEF Next, Step

-----------------------------------------------------------------------------
(* The last save stands.                                                   *)

\* A step that opens, writes, closes and unlinks nothing.
LEMMA WriterQuiet ==
    ASSUME TypeOK, WriterInv, NEW c \in Callers,
           UNCHANGED <<backend, stored, intended, clean, linked>>,
           \A w \in Callers : w # c => pc'[w] = pc[w] /\ req'[w] = req[w],
           pc[c] # "write", pc'[c] # "write"
    PROVE  WriterInv'
  <1>1. \A i \in Ids : Writers(i)' = Writers(i)
    BY DEF Writers, SaveTarget
  <1> QED BY <1>1 DEF WriterInv

LEMMA WriterStep == ASSUME TypeOK, WriterInv, Next PROVE WriterInv'
  <1> USE DEF Goto, Untouched, storeVars, busVars, bounds, SaveTarget
  <1>0. DOMAIN pc = Callers /\ DOMAIN req = Callers /\ DOMAIN linked = Callers
        /\ backend' = backend
    BY DEF TypeOK, Next
  <1>1. ASSUME NEW c \in Callers, NEW op \in Ops, NEW asked \in Askable(op),
               Begin(c, op, asked)
        PROVE  WriterInv'
    <2>1. /\ pc[c] = "idle" /\ pc'[c] = FirstStep(op)
          /\ UNCHANGED <<backend, stored, intended, clean, linked>>
          /\ \A w \in Callers : w # c => pc'[w] = pc[w] /\ req'[w] = req[w]
      BY <1>0, <1>1 DEF Begin
    <2>2. FirstStep(op) # "write"
      BY StudioAssumption DEF FirstStep, AllOps
    <2> QED BY <2>1, <2>2, WriterQuiet
  <1>2. ASSUME NEW c \in Callers,
               \/ LoadFails(c) \/ LoadForEdit(c) \/ LoadForApply(c) \/ CheckExists(c)
               \/ StatFile(c) \/ Publish(c) \/ Activate(c) \/ Compare(c) \/ Clear(c)
        PROVE  WriterInv'
    <2>1. /\ pc[c] # "write" /\ pc'[c] # "write"
          /\ UNCHANGED <<backend, stored, intended, clean, linked, req>>
          /\ \A w \in Callers : w # c => pc'[w] = pc[w]
      BY <1>0, <1>2 DEF LoadFails, LoadForEdit, LoadForApply, AfterApply, CheckExists,
         StatFile, AfterStore, Publish, Activate, Compare, Clear
    <2> QED BY <2>1, WriterQuiet
  <1>3. ASSUME NEW c \in Callers, Upsert(c) PROVE WriterInv'
    <2>1. \A w \in Callers : pc[w] # "write"
      BY <1>3 DEF Upsert, WriterInv
    <2>2. \A w \in Callers : pc'[w] # "write"
      BY <1>0, <1>3, <2>1 DEF Upsert, AfterStore
    <2>3. \A i \in Ids : Writers(i) = {} /\ Writers(i)' = {}
      BY <2>1, <2>2 DEF Writers
    <2>4. \A i \in Ids : clean[i] => stored[i] = intended[i]
      BY <2>3 DEF WriterInv
    <2>5. \A i \in Ids : clean'[i] => stored'[i] = intended'[i]
      BY <1>3, <2>4 DEF Upsert, TypeOK
    <2> QED BY <2>2, <2>3, <2>5 DEF WriterInv
  <1>4. ASSUME NEW c \in Callers, OpenFile(c) PROVE WriterInv'
    <2> DEFINE i == req[c].target
    <2>1. /\ i \in Ids /\ backend = "file" /\ pc[c] = "save" /\ pc'[c] = "write" /\ linked'[c]
          /\ \A w \in Callers : w # c => pc'[w] = pc[w] /\ linked'[w] = linked[w]
          /\ UNCHANGED <<req, intended>>
          /\ stored'[i] = Torn /\ (clean'[i] <=> Writers(i) = {})
          /\ \A j \in Ids : j # i => stored'[j] = stored[j] /\ clean'[j] = clean[j]
      BY <1>0, <1>4 DEF OpenFile, Opened, TypeOK
    <2>2. Writers(i)' = Writers(i) \cup {c}
      BY <2>1 DEF Writers
    <2>3. \A j \in Ids : j # i => Writers(j)' = Writers(j)
      BY <2>1 DEF Writers
    <2>4. clean'[i] => Writers(i)' = {c} /\ stored'[i] = Torn
      BY <2>1, <2>2
    <2>5. \A w \in Callers : pc'[w] = "write" => backend' = "file"
      BY <1>0, <2>1 DEF WriterInv
    <2> QED BY <2>1, <2>3, <2>4, <2>5 DEF WriterInv
  <1>5. ASSUME NEW c \in Callers, WriteFile(c) PROVE WriterInv'
    <2> DEFINE i == req[c].target
    <2>1. /\ i \in Ids /\ pc[c] = "write" /\ pc'[c] = "stat" /\ ~linked'[c]
          /\ \A w \in Callers : w # c => pc'[w] = pc[w] /\ linked'[w] = linked[w]
          /\ UNCHANGED <<req, clean>>
          /\ \A j \in Ids : j # i => stored'[j] = stored[j] /\ intended'[j] = intended[j]
      BY <1>0, <1>5 DEF WriteFile, TypeOK
    <2>2. \A j \in Ids : j # i => Writers(j)' = Writers(j)
      BY <2>1 DEF Writers
    <2>3. Writers(i)' = Writers(i) \ {c}
      BY <2>1 DEF Writers
    <2>4. ASSUME clean[i]
          PROVE  \/ Writers(i)' = {} /\ stored'[i] = intended'[i]
                 \/ \E w \in Callers : Writers(i)' = {w} /\ stored'[i] = Torn
      <3>1. CASE linked[c]
        <4>1. c \in Writers(i)
          BY <2>1, <3>1 DEF Writers
        <4>2. Writers(i) = {c} /\ stored[i] = Torn
          BY <2>1, <2>4, <4>1 DEF WriterInv
        <4>3. stored'[i] = Doc(doc[c]) /\ intended'[i] = Doc(doc[c])
          BY <1>5, <2>1, <3>1, <4>2 DEF WriteFile, TypeOK
        <4> QED BY <2>3, <4>2, <4>3
      <3>2. CASE ~linked[c]
        <4>1. Writers(i)' = Writers(i) /\ UNCHANGED <<stored, intended>>
          BY <1>5, <2>3, <3>2 DEF WriteFile, Writers
        <4> QED BY <2>1, <2>4, <4>1 DEF WriterInv
      <3> QED BY <3>1, <3>2
    <2>5. \A w \in Callers : pc'[w] = "write" => backend' = "file"
      BY <1>0, <2>1 DEF WriterInv
    <2> QED BY <2>1, <2>2, <2>4, <2>5 DEF WriterInv
  <1>6. ASSUME NEW c \in Callers, Unlink(c) PROVE WriterInv'
    <2> DEFINE i == req[c].target
    <2>1. /\ i \in Ids /\ pc[c] = "unlink" /\ pc'[c] \in {"idle", "publish"}
          /\ \A w \in Callers : w # c => pc'[w] = pc[w]
          /\ UNCHANGED <<req, clean>>
      BY <1>0, <1>6 DEF Unlink, AfterStore, TypeOK
    <2>2. CASE UNCHANGED <<stored, intended, linked>>
      BY <1>0, <2>1, <2>2, WriterQuiet
    <2>3. CASE /\ stored' = [stored EXCEPT ![i] = Absent]
               /\ intended' = [intended EXCEPT ![i] = Absent]
               /\ linked' = [w \in Callers |-> linked[w] /\ w \notin Writers(i)]
      <3>1. /\ stored'[i] = Absent /\ intended'[i] = Absent
            /\ \A j \in Ids : j # i => stored'[j] = stored[j] /\ intended'[j] = intended[j]
        BY <2>1, <2>3 DEF TypeOK
      <3>2. Writers(i)' = {}
        BY <2>1, <2>3 DEF Writers
      <3>3. \A j \in Ids : j # i => Writers(j)' = Writers(j)
        BY <2>1, <2>3 DEF Writers
      <3>4. \A w \in Callers : pc'[w] = "write" => backend' = "file"
        BY <1>0, <2>1 DEF WriterInv
      <3> QED BY <2>1, <3>1, <3>2, <3>3, <3>4 DEF WriterInv
    <2> QED BY <1>6, <2>2, <2>3 DEF Unlink
  <1>7. CASE Crash
    <2>1. \A i \in Ids : Writers(i)' = {} /\ (clean'[i] => clean[i] /\ Writers(i) = {})
      BY <1>7 DEF Crash, Writers
    <2> QED BY <1>7, <2>1 DEF Crash, WriterInv
  <1> QED
    BY <1>1, <1>2, <1>3, <1>4, <1>5, <1>6, <1>7 DEF Next, Step

-----------------------------------------------------------------------------
(* The theorems.                                                           *)

LEMMA InitIInv == ASSUME Init PROVE IInv
  <1>1. HomeInv /\ SpokenInv
    BY Contents DEF Init, HomeInv, DocStaysHome, SpokenInv
  <1>2. WriterInv
    BY DEF Init, WriterInv, Writers
  <1> QED BY <1>1, <1>2, InitType DEF IInv

LEMMA StutterIInv == ASSUME IInv, UNCHANGED vars PROVE IInv'
  BY DEF IInv, vars, TypeOK, HomeInv, DocStaysHome, SpokenInv, WriterInv, Writers, SaveTarget

\* The conjuncts together hold in every reachable state.
THEOREM Invariance == Spec => []IInv
  <1>1. Init => IInv
    BY InitIInv
  <1>2. IInv /\ [Next]_vars => IInv'
    BY TypeStep, HomeStep, SpokenStep, WriterStep, StutterIInv DEF IInv
  <1> QED BY <1>1, <1>2, PTL DEF Spec

\* The type invariant, and no document is ever stored under another design
\* than the one it was edited for, whatever happens to the active pointer.
THEOREM StoreCorrect == Spec => []StoreSound
  <1>1. IInv => StoreSound
    BY DEF IInv, HomeInv, StoreSound
  <1> QED BY <1>1, Invariance, PTL

\* A design written or deleted since its last event has a call on its way to
\* publish.
THEOREM EveryWriteIsPublished == Spec => []NoSilentWrite
  <1>1. IInv => NoSilentWrite
    BY DEF IInv, SpokenInv, NoSilentWrite
  <1> QED BY <1>1, Invariance, PTL

\* While the saves of a design do not overlap, the store holds what the last
\* one left, or its file is being written.
THEOREM TheLastSaveStands == Spec => []LastSaveStands
  <1>1. IInv => LastSaveStands
    BY DEF IInv, WriterInv, LastSaveStands
  <1> QED BY <1>1, Invariance, PTL

-----------------------------------------------------------------------------
(* SchemaMigration: the inductive invariant.                               *)

InTransaction(p) == stage[p] \in {"read", "apply", "commit"}

\* The write lock is held by the one process inside a transaction, which has
\* run nothing before Apply and exactly the next step after it, on the version
\* it has read.
LockInv ==
    /\ \A p \in Processes : InTransaction(p) <=> lock = p
    /\ lock = Nobody => draft = <<>>
    /\ \A p \in Processes :
          /\ stage[p] \in {"read", "apply"} => draft = <<>>
          /\ stage[p] = "commit" => draft = <<seen[p] + 1>>
          /\ stage[p] \in {"apply", "commit"} => seen[p] = version

RefusedInv == \A p \in Processes : stage[p] = "refused" => version > Latest[p]

MigrateInv == SchemaTypeOK /\ LockInv /\ MigratedOnce /\ RefusedInv

\* The steps up to n, and the next one, are the steps up to n + 1.
LEMMA UptoNext ==
    ASSUME NEW n \in Nat
    PROVE  /\ Upto(n) \o <<n + 1>> = Upto(n + 1)
           /\ Upto(n) \in Seq(Nat)
  BY DEF Upto

\* What an open transaction and "before" start from.
LEMMA NothingYet == <<>> \in Seq(Nat) /\ Len(<<>>) = 0
  OBVIOUS

\* A file found at any version holds that version's schema, and no process has
\* begun.
LEMMA InitMigrateInv == ASSUME MigrateInit PROVE MigrateInv
  <1>1. SchemaTypeOK
    <2>1. log \in Seq(Nat)
      BY MigrationAssumption, UptoNext DEF MigrateInit
    <2>2. /\ before \in [Processes -> Seq(Nat)]
          /\ \A p \in Processes : Len(before[p]) <= 1
      BY NothingYet DEF MigrateInit
    <2>3. draft \in Seq(Nat)
      BY NothingYet DEF MigrateInit
    <2> QED BY <2>1, <2>2, <2>3, MigrationAssumption DEF MigrateInit, SchemaTypeOK
  <1>2. LockInv
    BY MigrationAssumption DEF MigrateInit, LockInv, InTransaction
  <1>3. MigratedOnce /\ RefusedInv
    BY DEF MigrateInit, MigratedOnce, RefusedInv
  <1> QED BY <1>1, <1>2, <1>3 DEF MigrateInv

\* Every step keeps the types; a read of an emptied "before" fills it.
LEMMA SchemaTypeStep == ASSUME MigrateInv, MigrateNext PROVE SchemaTypeOK'
  <1> USE MigrationAssumption DEF MigrateInv, SchemaTypeOK
  <1> PICK p \in Processes : Work(p) \/ Kill(p)
    BY DEF MigrateNext
  <1>1. CASE BeginImmediate(p)
    BY <1>1 DEF BeginImmediate
  <1>2. CASE Busy(p)
    BY <1>2 DEF Busy
  <1>3. CASE ReadVersion(p)
    <2>1. CurrentVersion(p) \in Nat
      BY DEF CurrentVersion
    <2>2. /\ before' \in [Processes -> Seq(Nat)]
          /\ \A q \in Processes : Len(before'[q]) <= 1
      BY <1>3, <2>1 DEF ReadVersion, FirstSeen
    <2>3. seen' \in [Processes -> Nat] /\ kills' \in Nat
      BY <1>3, <2>1 DEF ReadVersion
    <2>4. /\ version' \in Nat /\ log' \in Seq(Nat) /\ draft' \in Seq(Nat)
          /\ lock' \in Processes \cup {Nobody}
      BY <1>3, NothingYet DEF ReadVersion, RollBack
    <2>5. stage' \in [Processes -> {"begin", "read", "apply", "commit", "open",
                                 "refused", "failed"}]
      BY <1>3 DEF ReadVersion, Outcome
    <2> QED BY <2>2, <2>3, <2>4, <2>5
  <1>4. CASE Apply(p)
    BY <1>4 DEF Apply
  <1>5. CASE ApplyFails(p)
    BY <1>5 DEF ApplyFails, RollBack
  <1>6. CASE Commit(p)
    BY <1>6 DEF Commit
  <1>7. CASE Kill(p)
    <2>1. /\ version' \in Nat /\ log' \in Seq(Nat) /\ draft' \in Seq(Nat)
          /\ lock' \in Processes \cup {Nobody}
      BY <1>7, NothingYet DEF Kill, RollBack
    <2>2. /\ before' \in [Processes -> Seq(Nat)]
          /\ \A q \in Processes : Len(before'[q]) <= 1
      BY <1>7, NothingYet DEF Kill
    <2> QED BY <1>7, <2>1, <2>2 DEF Kill
  <1> QED BY <1>1, <1>2, <1>3, <1>4, <1>5, <1>6, <1>7 DEF Work

\* Every step keeps the lock with its holder and the draft with the lock.
LEMMA LockStep == ASSUME MigrateInv, MigrateNext PROVE LockInv'
  <1> USE MigrationAssumption DEF MigrateInv, SchemaTypeOK, LockInv, InTransaction
  <1> PICK p \in Processes : Work(p) \/ Kill(p)
    BY DEF MigrateNext
  <1>1. CASE BeginImmediate(p)
    BY <1>1 DEF BeginImmediate
  <1>2. CASE Busy(p)
    BY <1>2 DEF Busy
  <1>3. CASE ReadVersion(p)
    BY <1>3 DEF ReadVersion, CurrentVersion, Outcome, RollBack
  <1>4. CASE Apply(p)
    <2>1. draft' = <<seen[p] + 1>>
      <3>1. draft = <<>> /\ draft' = Append(draft, seen[p] + 1)
        BY <1>4 DEF Apply
      <3> HIDE DEF LockInv, SchemaTypeOK, MigrateInv
      <3> QED BY <3>1
    <2> QED BY <1>4, <2>1 DEF Apply
  <1>5. CASE ApplyFails(p)
    BY <1>5 DEF ApplyFails, RollBack
  <1>6. CASE Commit(p)
    BY <1>6 DEF Commit
  <1>7. CASE Kill(p)
    BY <1>7 DEF Kill, RollBack
  <1> QED BY <1>1, <1>2, <1>3, <1>4, <1>5, <1>6, <1>7 DEF Work

\* A commit appends the one step after the committed version; nothing else
\* touches the log or the version.
LEMMA LogStep ==
    ASSUME MigrateInv, MigrateNext PROVE MigratedOnce' /\ version' >= version
  <1> USE DEF MigrateInv, MigratedOnce
  <1> PICK p \in Processes : Work(p) \/ Kill(p)
    BY DEF MigrateNext
  <1>1. CASE Commit(p)
    <2>1. draft = <<version + 1>> /\ version' = version + 1
      BY <1>1 DEF Commit, LockInv
    <2>2. log' = Upto(version) \o <<version + 1>>
      BY <1>1, <2>1 DEF Commit
    <2> QED BY <2>1, <2>2, UptoNext DEF SchemaTypeOK
  <1>2. CASE ~Commit(p)
    <2>1. UNCHANGED <<version, log>>
      BY <1>2 DEF Work, BeginImmediate, Busy, ReadVersion, Apply, ApplyFails, Kill,
                  RollBack
    <2> QED BY <2>1 DEF SchemaTypeOK
  <1> QED BY <1>1, <1>2

\* A refusal has seen a version past its release's, and versions only grow.
LEMMA RefusedStep == ASSUME MigrateInv, MigrateNext PROVE RefusedInv'
  <1>1. version' >= version /\ version' \in Nat
    BY LogStep, SchemaTypeStep DEF SchemaTypeOK
  <1> USE MigrationAssumption DEF MigrateInv, SchemaTypeOK, RefusedInv
  <1> PICK p \in Processes : Work(p) \/ Kill(p)
    BY DEF MigrateNext
  <1>2. CASE ReadVersion(p)
    BY <1>1, <1>2 DEF ReadVersion, CurrentVersion, Outcome, RollBack
  <1>3. CASE ~ReadVersion(p)
    <2>1. \A q \in Processes : stage'[q] = "refused" => stage[q] = "refused"
      BY <1>3 DEF Work, BeginImmediate, Busy, Apply, ApplyFails, Commit, Kill
    <2> QED BY <1>1, <2>1
  <1> QED BY <1>2, <1>3

\* The inductive invariant is a state predicate of schemaVars.
LEMMA StutterMigrateInv == ASSUME MigrateInv, UNCHANGED schemaVars PROVE MigrateInv'
  BY DEF MigrateInv, schemaVars, SchemaTypeOK, LockInv, InTransaction, MigratedOnce, RefusedInv

\* The inductive invariant holds in every reachable state.
THEOREM MigrateInvariance == MigrateSpec => []MigrateInv
  <1>1. MigrateInit => MigrateInv
    BY InitMigrateInv
  <1>2. MigrateInv /\ [MigrateNext]_schemaVars => MigrateInv'
    BY SchemaTypeStep, LockStep, LogStep, RefusedStep, StutterMigrateInv DEF MigrateInv
  <1> QED BY <1>1, <1>2, PTL DEF MigrateSpec

\* Every variable keeps its type.
THEOREM SchemaTypeCorrect == MigrateSpec => []SchemaTypeOK
  <1>1. MigrateInv => SchemaTypeOK
    BY DEF MigrateInv
  <1> QED BY <1>1, MigrateInvariance, PTL

\* Processes that open one file migrate it once: the committed steps are
\* exactly those of the committed version, whoever ran or died.
THEOREM Once == MigrateSpec => []MigratedOnce
  <1>1. MigrateInv => MigratedOnce
    BY DEF MigrateInv
  <1> QED BY <1>1, MigrateInvariance, PTL

\* No step takes the file back to an older schema.
THEOREM Forward == MigrateSpec => NeverBack
  <1>1. MigrateInv /\ [MigrateNext]_schemaVars => [version' >= version]_schemaVars
    BY LogStep
  <1> QED BY <1>1, MigrateInvariance, PTL DEF MigrateSpec, NeverBack

\* migrate() returns on its own release's schema or refuses a newer one.
THEOREM OwnSchema == MigrateSpec => OpensOwnSchema
  <1> DEFINE Opens == \A p \in Processes :
                        stage[p] # "open" /\ stage'[p] = "open" => version = Latest[p]
             Refuses == \A p \in Processes :
                        stage[p] = "refused" => version > Latest[p]
  <1>1. MigrateInv => Refuses
    BY DEF MigrateInv, RefusedInv
  <1>2. ASSUME MigrateInv, MigrateNext PROVE Opens
    <2> PICK p \in Processes : Work(p) \/ Kill(p)
      BY <1>2 DEF MigrateNext
    <2>1. CASE ReadVersion(p)
      <3>1. ASSUME NEW q \in Processes, stage[q] # "open", stage'[q] = "open"
            PROVE  q = p
        BY <1>2, <2>1, <3>1 DEF MigrateInv, SchemaTypeOK, ReadVersion
      <3>2. stage'[p] = "open" => version >= Latest[p] /\ ~(version > Latest[p])
        BY <1>2, <2>1 DEF MigrateInv, SchemaTypeOK, ReadVersion, CurrentVersion, Outcome
      <3>3. version \in Nat /\ Latest[p] \in Nat
        BY <1>2, MigrationAssumption DEF MigrateInv, SchemaTypeOK
      <3> QED BY <3>1, <3>2, <3>3
    <2>2. CASE ~ReadVersion(p)
      BY <1>2, <2>2 DEF MigrateInv, SchemaTypeOK, Work, BeginImmediate, Busy, Apply, ApplyFails,
                        Commit, Kill
    <2> QED BY <2>1, <2>2
  <1>3. MigrateInv /\ [MigrateNext]_schemaVars => [Opens]_schemaVars
    BY <1>2
  <1> QED BY <1>1, <1>3, MigrateInvariance, PTL DEF MigrateSpec, OpensOwnSchema
=============================================================================
