-------------------------- MODULE StoryCanonProofs --------------------------
(***************************************************************************)
(* Theorems of StoryCanon, for every set of chapters, commits and reviews. *)
(*                                                                         *)
(* Every operation either changes the text of one chapter, and then sweeps *)
(* the canon from that chapter on, or leaves the text alone and creates,   *)
(* binds or accepts one commit.  The sweeping operations (a new chapter, a *)
(* new text, a restore, both deletions) differ only in what they do to the *)
(* chapter's row and to the tombstones, so that one lemma, SweepKeeps, is  *)
(* about all of them; the rest is one lemma per operation.                 *)
(***************************************************************************)
EXTENDS StoryCanon, TLAPS

LiveStatus == {"pending", "accepted"}

\* What the operations need of the commits and CanonIsHead does not say: a
\* live commit is of a version its chapter has, no two live commits are of one
\* version, and a commit accepted for a tombstoned chapter stays outside the
\* replay and is never pending again.
CommitsOK ==
    /\ \A id \in CommitIds : commit[id].st \in LiveStatus =>
          commit[id].ch \in Chapters /\ chapter[commit[id].ch].base < commit[id].ver
    /\ \A i, j \in CommitIds :
          commit[i].st \in LiveStatus /\ commit[j].st \in LiveStatus
             /\ commit[i].ch = commit[j].ch /\ commit[i].ver = commit[j].ver => i = j
    /\ \A id \in buried : commit[id].st \notin {"absent", "pending"}
    /\ buried \cap active = {}

\* The inductive invariant.
CanonInv ==
    /\ CanonTypeOK
    /\ CommitsOK
    /\ CanonIsHead
    /\ CanonMirror
    /\ DerivedIsReplay

\* EditInvalidates for one step.
EditStep ==
    \A ch \in Chapters :
       \/ chapter'[ch].head # chapter[ch].head
       \/ chapter'[ch].status # chapter[ch].status /\ chapter'[ch].status \in {"absent", "deleted"}
       => \A id \in active' : commit'[id].ch < ch

\* What no operation does to a commit: take its row or its chapter away, or
\* bring one back to pending or into canon that has left it.
Lasting ==
    \A id \in CommitIds :
       /\ commit[id].st # "absent" => commit'[id].st # "absent" /\ commit'[id].ch = commit[id].ch
       /\ commit[id].st \notin {"absent", "pending"} =>
             commit'[id].st \notin {"absent", "pending"} /\ (id \in active' => id \in active)

\* An operation of the store, called by whom and for whatever reason.
StoreStep ==
    \/ \E ch \in Chapters : \E target :
          \/ NewChapter(ch, target) \/ NewText(ch, target) \/ KeepText(ch, target)
          \/ RestoreVersion(ch) \/ DeleteChapter(ch)
    \/ \E r \in ReviewIds, ch \in Chapters, pass \in BOOLEAN, v \in 0..MaxVersion :
          SaveReview(r, ch, v, pass)
    \/ \E id \in CommitIds, ch \in Chapters, v \in 0..MaxVersion, r \in ReviewIds \cup {0},
          over \in BOOLEAN : CreateCommit(id, ch, v, r, over)
    \/ \E id \in CommitIds, r \in ReviewIds : BindReview(id, r)
    \/ \E id \in CommitIds, over \in BOOLEAN : Accept(id, over)
    \/ RebuildAll

-----------------------------------------------------------------------------
(* The operations that sweep.                                              *)

\* A step that changes one chapter and sweeps from it on.  `owned' are the
\* commits whose own status the operation decides.
Swept(ch, owned, fate) ==
    /\ Sweep(ch, owned, fate)
    /\ chapter' \in [Chapters -> ChapterRow]
    /\ \A c \in Chapters \ {ch} : chapter'[c] = chapter[c]
    /\ chapter'[ch].base = chapter[ch].base \/ owned = CommitsOf(ch)
    /\ review' \in [ReviewIds -> ReviewRow]
    /\ tombs' \subseteq tombs \cup {ch}
    /\ dug' \subseteq Chapters /\ ledgered' \subseteq Chapters
    /\ buried' = buried

\* What a sweep does to the commits: the canon that is left is of earlier
\* chapters, and a commit only ever loses its status.
LEMMA SweepCommits ==
    ASSUME CanonInv, NEW ch \in Chapters, NEW owned \in SUBSET CommitsOf(ch),
           NEW fate \in {"superseded", "gone"}, Sweep(ch, owned, fate)
    PROVE  /\ commit' \in [CommitIds -> CommitRow]
           /\ \A id \in CommitIds :
                 /\ commit'[id].ch = commit[id].ch /\ commit'[id].ver = commit[id].ver
                 /\ IF id \in Targets(ch) \cup owned
                    THEN commit'[id].st \in {"superseded", "gone"}
                    ELSE commit'[id] = commit[id]
           /\ active' = active \ (Targets(ch) \cup owned)
           /\ \A id \in active' : commit[id].ch \in Chapters /\ commit[id].ch < ch
<1>1. /\ commit \in [CommitIds -> CommitRow] /\ active \subseteq CommitIds
      /\ owned \subseteq CommitIds /\ Chapters \subseteq Nat
  BY CanonAssumption DEF CanonInv, CanonTypeOK, CommitsOf
<1>2. \A id \in active : commit[id].st = "accepted"
  BY DEF CanonInv, CanonMirror
<1>3. \A id \in active : commit[id].ch \in Chapters
  BY <1>1, <1>2 DEF CanonInv, CommitsOK, LiveStatus
<1>4. commit' = [id \in CommitIds |->
                     IF id \in owned THEN [commit[id] EXCEPT !.st = fate]
                     ELSE IF id \in Targets(ch) THEN [commit[id] EXCEPT !.st = "superseded"]
                     ELSE commit[id]]
  BY DEF Sweep
<1>5. active' = active \ Targets(ch)
  BY DEF Sweep
<1>6. ASSUME NEW id \in active'
      PROVE  commit[id].ch \in Chapters /\ commit[id].ch < ch
  <2>1. id \in active /\ ~(commit[id].ch >= ch)
    BY <1>5 DEF Targets
  <2>2. commit[id].ch \in Nat /\ ch \in Nat
    BY <1>1, <1>3, <2>1
  <2> QED
    BY <1>3, <2>1, <2>2
<1>7. owned \cap active \subseteq Targets(ch)
  BY <1>1 DEF Targets, CommitsOf
<1>8. active' = active \ (Targets(ch) \cup owned)
  BY <1>5, <1>7
<1>9. commit' \in [CommitIds -> CommitRow]
  BY <1>1, <1>4 DEF CommitRow
<1>10. ASSUME NEW id \in CommitIds
       PROVE  /\ commit'[id].ch = commit[id].ch /\ commit'[id].ver = commit[id].ver
              /\ IF id \in Targets(ch) \cup owned
                 THEN commit'[id].st \in {"superseded", "gone"}
                 ELSE commit'[id] = commit[id]
  <2>1. commit[id] \in CommitRow
    BY <1>1
  <2> QED
    BY <1>4, <2>1 DEF CommitRow
<1> QED
  BY <1>6, <1>8, <1>9, <1>10

\* A sweeping step keeps the invariant.
LEMMA SweepKeeps ==
    ASSUME CanonInv, NEW ch \in Chapters, NEW owned \in SUBSET CommitsOf(ch),
           NEW fate \in {"superseded", "gone"}, Swept(ch, owned, fate)
    PROVE  CanonInv' /\ \A id \in active' : commit'[id].ch < ch
<1> DEFINE lost == Targets(ch) \cup owned
<1>1. /\ commit' \in [CommitIds -> CommitRow]
      /\ \A id \in CommitIds :
            /\ commit'[id].ch = commit[id].ch /\ commit'[id].ver = commit[id].ver
            /\ IF id \in lost THEN commit'[id].st \in {"superseded", "gone"}
               ELSE commit'[id] = commit[id]
      /\ active' = active \ lost
      /\ \A id \in active' : commit[id].ch \in Chapters /\ commit[id].ch < ch
  BY SweepCommits DEF Swept
<1>2. /\ active \subseteq CommitIds /\ folded \subseteq CommitIds /\ facts \subseteq CommitIds
      /\ buried \subseteq CommitIds /\ tombs \subseteq Chapters /\ Chapters \subseteq Nat
      /\ commit \in [CommitIds -> CommitRow]
  BY CanonAssumption DEF CanonInv, CanonTypeOK
<1>3. facts' = facts \ lost /\ buried' = buried
  BY DEF Swept, Sweep
<1>4. folded' = (IF Targets(ch) = {} THEN folded ELSE active \ Targets(ch))
  BY DEF Swept, Sweep
<1>5. active' = active \ Targets(ch)
  BY DEF Swept, Sweep
<1>6. CanonTypeOK'
  BY <1>1, <1>2, <1>3, <1>4 DEF Swept, CanonTypeOK
<1>7. CommitsOK'
  <2>0. CommitsOK
    BY DEF CanonInv
  <2>1. \A id \in CommitIds : commit'[id].st \in LiveStatus => commit'[id] = commit[id]
    BY <1>1 DEF LiveStatus
  <2>2. \A id \in CommitIds : commit'[id].st \in LiveStatus =>
           commit'[id].ch \in Chapters /\ chapter'[commit'[id].ch].base < commit'[id].ver
    <3> SUFFICES ASSUME NEW id \in CommitIds, commit'[id].st \in LiveStatus
                 PROVE  /\ commit'[id].ch \in Chapters
                        /\ chapter'[commit'[id].ch].base < commit'[id].ver
      OBVIOUS
    <3>1. commit'[id] = commit[id] /\ id \notin lost
      BY <1>1, <2>1 DEF LiveStatus
    <3>2. commit[id].ch \in Chapters /\ chapter[commit[id].ch].base < commit[id].ver
      BY <2>0, <3>1 DEF CommitsOK
    <3>3. id \in CommitsOf(commit[id].ch)
      BY <3>1 DEF CommitsOf, LiveStatus
    <3>4. chapter'[commit[id].ch].base = chapter[commit[id].ch].base
      BY <3>1, <3>2, <3>3 DEF Swept
    <3> QED
      BY <3>1, <3>2, <3>4
  <2>3. \A i, j \in CommitIds :
          commit'[i].st \in LiveStatus /\ commit'[j].st \in LiveStatus
             /\ commit'[i].ch = commit'[j].ch /\ commit'[i].ver = commit'[j].ver => i = j
    BY <2>0, <2>1 DEF CommitsOK
  <2>4. \A id \in buried' : commit'[id].st \notin {"absent", "pending"}
    BY <1>1, <1>2, <1>3, <2>0 DEF CommitsOK
  <2>5. buried' \cap active' = {}
    BY <1>1, <1>3, <2>0 DEF CommitsOK
  <2> QED
    BY <2>2, <2>3, <2>4, <2>5 DEF CommitsOK
<1>8. CanonIsHead'
  <2> SUFFICES ASSUME NEW id \in active'
               PROVE  /\ commit'[id].ver = chapter'[commit'[id].ch].head
                      /\ commit'[id].ch \notin tombs'
                      /\ \A j \in active' : commit'[j].ch = commit'[id].ch => j = id
    BY DEF CanonIsHead
  <2>1. id \in active /\ id \in CommitIds /\ commit'[id] = commit[id]
    BY <1>1, <1>2
  <2>2. commit[id].ch \in Chapters \ {ch}
    BY <1>1, <1>2
  <2>3. chapter'[commit[id].ch] = chapter[commit[id].ch] /\ commit[id].ch \notin tombs' \ tombs
    BY <2>2 DEF Swept
  <2>4. \A j \in active' : j \in active /\ commit'[j] = commit[j]
    BY <1>1, <1>2
  <2> QED
    BY <2>1, <2>3, <2>4 DEF CanonInv, CanonIsHead
<1>9. CanonMirror'
  <2>1. \A id \in CommitIds :
           commit'[id].st = "accepted" <=> commit[id].st = "accepted" /\ id \notin lost
    BY <1>1
  <2>2. {id \in CommitIds : commit[id].st = "accepted"} \ buried = active
    BY DEF CanonInv, CanonMirror
  <2> QED
    BY <1>1, <1>2, <1>3, <2>1, <2>2 DEF CanonMirror
<1>10. DerivedIsReplay'
  <2>1. folded \ buried = active /\ facts \ buried = active /\ buried \cap active = {}
    BY DEF CanonInv, DerivedIsReplay, CommitsOK
  <2>2. facts' \ buried' = active'
    BY <1>1, <1>3, <2>1
  <2>3. folded' \ buried' = active'
    <3>1. CASE Targets(ch) = {}
      BY <1>3, <1>4, <1>5, <2>1, <3>1
    <3>2. CASE Targets(ch) # {}
      BY <1>3, <1>4, <1>5, <2>1, <3>2
    <3> QED
      BY <3>1, <3>2
  <2> QED
    BY <2>2, <2>3 DEF DerivedIsReplay
<1>11. \A id \in active' : commit'[id].ch < ch
  BY <1>1, <1>2
<1> QED
  BY <1>6, <1>7, <1>8, <1>9, <1>10, <1>11 DEF CanonInv

-----------------------------------------------------------------------------
(* Each of the sweeping operations is such a step.                         *)

\* A chapter row of the new head and status is a row.
LEMMA NewHeadRow ==
    ASSUME CanonTypeOK, NEW ch \in Chapters, chapter[ch].head < MaxVersion,
           NEW st \in Lifecycle
    PROVE  [chapter EXCEPT ![ch].status = st, ![ch].head = @ + 1] \in [Chapters -> ChapterRow]
<1>1. chapter \in [Chapters -> ChapterRow] /\ MaxVersion \in Nat
  BY CanonAssumption DEF CanonTypeOK
<1>2. chapter[ch] \in ChapterRow
  BY <1>1
<1>3. chapter[ch].head + 1 \in 0..MaxVersion
  BY <1>1, <1>2 DEF ChapterRow
<1>4. [chapter[ch] EXCEPT !.status = st, !.head = chapter[ch].head + 1] \in ChapterRow
  BY <1>2, <1>3 DEF ChapterRow, ChapterStatus
<1> QED
  BY <1>1, <1>4

\* The statuses of the table are those an operation asks for.
LEMMA LifecycleSet ==
    Lifecycle = {"planned", "draft", "drafted", "reviewing", "revising", "approved",
                 "committed", "exported"}
  BY DEF Lifecycle, StatusMoves

\* A chapter saved for the first time takes every later chapter out of canon.
LEMMA NewChapterSweeps ==
    ASSUME CanonInv, NEW ch \in Chapters, NEW target, NewChapter(ch, target)
    PROVE  Swept(ch, {}, "superseded")
<1>1. CanonTypeOK
  BY DEF CanonInv
<1>2. target \in Lifecycle
  BY LifecycleSet DEF NewChapter
<1>3. chapter' \in [Chapters -> ChapterRow]
  BY <1>1, <1>2, NewHeadRow DEF NewChapter
<1>4. \A c \in Chapters \ {ch} : chapter'[c] = chapter[c]
  BY <1>1 DEF NewChapter, CanonTypeOK
<1> QED
  BY <1>1, <1>3, <1>4 DEF Swept, NewChapter, CanonTypeOK

\* A new version of the text takes every later chapter out of canon.
LEMMA NewTextSweeps ==
    ASSUME CanonInv, NEW ch \in Chapters, NEW target, NewText(ch, target)
    PROVE  Swept(ch, {}, "superseded")
<1>1. CanonTypeOK
  BY DEF CanonInv
<1>2. target \in Lifecycle
  BY DEF NewText, MaySave, MayMove
<1>3. chapter' \in [Chapters -> ChapterRow]
  BY <1>1, <1>2, NewHeadRow DEF NewText
<1>4. \A c \in Chapters \ {ch} : chapter'[c] = chapter[c]
  BY <1>1 DEF NewText, CanonTypeOK
<1> QED
  BY <1>1, <1>3, <1>4 DEF Swept, NewText, CanonTypeOK

\* Restoring an old version does so too.
LEMMA RestoreSweeps ==
    ASSUME CanonInv, NEW ch \in Chapters, RestoreVersion(ch)
    PROVE  Swept(ch, {}, "superseded")
<1>1. CanonTypeOK
  BY DEF CanonInv
<1>2. "draft" \in Lifecycle
  BY LifecycleSet
<1>3. chapter' \in [Chapters -> ChapterRow]
  BY <1>1, <1>2, NewHeadRow DEF RestoreVersion
<1>4. \A c \in Chapters \ {ch} : chapter'[c] = chapter[c]
  BY <1>1 DEF RestoreVersion, CanonTypeOK
<1> QED
  BY <1>1, <1>3, <1>4 DEF Swept, RestoreVersion, CanonTypeOK

\* Deleting a chapter nothing refers to does so, and removes its commits.
LEMMA EraseSweeps ==
    ASSUME CanonInv, NEW ch \in Chapters, EraseChapter(ch)
    PROVE  Swept(ch, CommitsOf(ch), "gone")
<1>1. CanonTypeOK
  BY DEF CanonInv
<1>2. chapter \in [Chapters -> ChapterRow] /\ chapter[ch] \in ChapterRow
  BY <1>1 DEF CanonTypeOK
<1>3. [chapter[ch] EXCEPT !.status = "absent", !.base = chapter[ch].head] \in ChapterRow
  BY <1>2 DEF ChapterRow, ChapterStatus
<1>4. chapter' \in [Chapters -> ChapterRow] /\ \A c \in Chapters \ {ch} : chapter'[c] = chapter[c]
  BY <1>2, <1>3 DEF EraseChapter
<1>5. review' \in [ReviewIds -> ReviewRow]
  BY <1>1 DEF EraseChapter, CanonTypeOK, ReviewRow
<1> QED
  BY <1>1, <1>4, <1>5 DEF Swept, EraseChapter, CanonTypeOK

\* Deleting a chapter with events in the ledger does so, and keeps the row.
LEMMA BurySweeps ==
    ASSUME CanonInv, NEW ch \in Chapters, BuryChapter(ch)
    PROVE  Swept(ch, CommitsOf(ch), "superseded")
<1>1. CanonTypeOK
  BY DEF CanonInv
<1>2. chapter \in [Chapters -> ChapterRow] /\ chapter[ch] \in ChapterRow
  BY <1>1 DEF CanonTypeOK
<1>3. [chapter[ch] EXCEPT !.status = "deleted"] \in ChapterRow
  BY <1>2 DEF ChapterRow, ChapterStatus
<1>4. chapter' \in [Chapters -> ChapterRow] /\ \A c \in Chapters \ {ch} : chapter'[c] = chapter[c]
  BY <1>2, <1>3 DEF BuryChapter
<1> QED
  BY <1>1, <1>4 DEF Swept, BuryChapter, CanonTypeOK

\* So they keep the invariant, and leave canon of earlier chapters only.
LEMMA SweepingKeeps ==
    ASSUME CanonInv, NEW ch \in Chapters, NEW target,
           \/ NewChapter(ch, target) \/ NewText(ch, target) \/ RestoreVersion(ch)
           \/ DeleteChapter(ch)
    PROVE  CanonInv' /\ EditStep /\ Lasting
<1>1. PICK owned \in SUBSET CommitsOf(ch), fate \in {"superseded", "gone"} : Swept(ch, owned, fate)
  BY NewChapterSweeps, NewTextSweeps, RestoreSweeps, EraseSweeps, BurySweeps DEF DeleteChapter
<1>2. CanonInv' /\ \A id \in active' : commit'[id].ch < ch
  BY <1>1, SweepKeeps
<1>3. \A c \in Chapters \ {ch} : chapter'[c] = chapter[c]
  BY <1>1 DEF Swept
<1>4. Lasting
  BY <1>1, SweepCommits DEF Swept, Lasting
<1> QED
  BY <1>2, <1>3, <1>4 DEF EditStep

-----------------------------------------------------------------------------
(* The operations that leave the text alone.                               *)

\* Saving a chapter with the text it has changes its status at most.
LEMMA KeepTextKeeps ==
    ASSUME CanonInv, NEW ch \in Chapters, NEW target, KeepText(ch, target)
    PROVE  CanonInv' /\ EditStep
<1>1. chapter \in [Chapters -> ChapterRow] /\ chapter[ch] \in ChapterRow
  BY DEF CanonInv, CanonTypeOK
<1>2. target \in Lifecycle
  BY DEF KeepText, MaySave, MayMove
<1>3. chapter' = [chapter EXCEPT ![ch].status = target]
  BY DEF KeepText
<1>4. [chapter[ch] EXCEPT !.status = target] \in ChapterRow
  BY <1>1, <1>2 DEF ChapterRow, ChapterStatus
<1>5. chapter' \in [Chapters -> ChapterRow]
  BY <1>1, <1>3, <1>4
<1>6. \A c \in Chapters : chapter'[c].head = chapter[c].head
  BY <1>1, <1>3 DEF ChapterRow
<1>13. \A c \in Chapters : chapter'[c].base = chapter[c].base
  BY <1>1, <1>3 DEF ChapterRow
<1>7. \A c \in Chapters : chapter'[c].status = chapter[c].status \/ chapter'[c].status = target
  BY <1>1, <1>3 DEF ChapterRow
<1>8. target \notin {"absent", "deleted"}
  BY <1>2, LifecycleSet
<1>9. EditStep
  BY <1>6, <1>7, <1>8 DEF EditStep
<1>10. UNCHANGED <<review, commit, active, tombs, dug, ledgered, folded, facts, buried>>
  BY DEF KeepText
<1>11. CanonTypeOK' /\ CommitsOK' /\ CanonMirror' /\ DerivedIsReplay'
  BY <1>5, <1>10, <1>13 DEF CanonInv, CanonTypeOK, CommitsOK, CanonMirror, DerivedIsReplay
<1>12. CanonIsHead'
  <2>1. \A id \in active : commit[id].ch \in Chapters
    BY DEF CanonInv, CanonMirror, CommitsOK, LiveStatus
  <2> QED
    BY <1>6, <1>10, <2>1 DEF CanonInv, CanonIsHead
<1> QED
  BY <1>9, <1>11, <1>12 DEF CanonInv

\* The latest version is a version.
LEMMA LatestType ==
    ASSUME CanonTypeOK, NEW ch \in Chapters
    PROVE  Latest(ch) \in 0..MaxVersion
<1>1. chapter[ch] \in ChapterRow
  BY DEF CanonTypeOK
<1> QED
  BY <1>1, CanonAssumption DEF Latest, ChapterRow

\* No text, no canon and no commit changes.
LEMMA ReviewsOnlyKeep ==
    ASSUME CanonInv, review' \in [ReviewIds -> ReviewRow],
           UNCHANGED <<chapter, commit, active, tombs, dug, ledgered, folded, facts, buried>>
    PROVE  CanonInv' /\ EditStep
<1>1. EditStep
  BY DEF EditStep
<1> QED
  BY <1>1 DEF CanonInv, CanonTypeOK, CommitsOK, CanonIsHead, CanonMirror, DerivedIsReplay

\* A review is a new row; no commit is bound to it yet.
LEMMA SaveReviewKeeps ==
    ASSUME CanonInv, NEW r \in ReviewIds, NEW ch \in Chapters, NEW pass \in BOOLEAN,
           NEW v \in 0..MaxVersion, SaveReview(r, ch, v, pass)
    PROVE  CanonInv' /\ EditStep
<1>1. review \in [ReviewIds -> ReviewRow]
  BY DEF CanonInv, CanonTypeOK
<1>2. [st |-> "saved", ch |-> ch, ver |-> v, pass |-> pass] \in ReviewRow
  BY DEF ReviewRow
<1>3. review' \in [ReviewIds -> ReviewRow]
  BY <1>1, <1>2 DEF SaveReview
<1> QED
  BY <1>3, ReviewsOnlyKeep DEF SaveReview

\* Only the row of a commit that is in neither canon nor the buried changes,
\* and it does not become accepted.
LEMMA CommitRowKeeps ==
    ASSUME CanonInv, CommitsOK', NEW id \in CommitIds, NEW row \in CommitRow,
           commit[id].st # "accepted", row.st # "accepted",
           commit' = [commit EXCEPT ![id] = row],
           UNCHANGED <<chapter, review, active, tombs, dug, ledgered, folded, facts, buried>>
    PROVE  CanonInv' /\ EditStep
<1>1. commit \in [CommitIds -> CommitRow] /\ active \subseteq CommitIds
  BY DEF CanonInv, CanonTypeOK
<1>2. commit' \in [CommitIds -> CommitRow]
  BY <1>1
<1>3. CanonTypeOK'
  BY <1>2 DEF CanonInv, CanonTypeOK
<1>4. \A j \in CommitIds : commit'[j].st = "accepted" <=> commit[j].st = "accepted"
  BY <1>1
<1>5. CanonMirror'
  BY <1>4 DEF CanonInv, CanonMirror
<1>6. \A j \in active : commit'[j] = commit[j]
  BY <1>1 DEF CanonInv, CanonMirror
<1>7. CanonIsHead'
  BY <1>6 DEF CanonInv, CanonIsHead
<1>8. DerivedIsReplay'
  BY DEF CanonInv, DerivedIsReplay
<1>9. EditStep
  BY DEF EditStep
<1> QED
  BY <1>3, <1>5, <1>7, <1>8, <1>9 DEF CanonInv

\* A commit is created pending, so canon does not change.
LEMMA CreateCommitKeeps ==
    ASSUME CanonInv, NEW id \in CommitIds, NEW ch \in Chapters, NEW v \in 0..MaxVersion,
           NEW r \in ReviewIds \cup {0}, NEW over \in BOOLEAN, CreateCommit(id, ch, v, r, over)
    PROVE  CanonInv' /\ EditStep
<1>1. commit \in [CommitIds -> CommitRow] /\ review \in [ReviewIds -> ReviewRow]
      /\ chapter[ch] \in ChapterRow
  BY DEF CanonInv, CanonTypeOK
<1>2. CASE LiveCommits(ch, v) # {}
  BY <1>1, <1>2, ReviewsOnlyKeep DEF CreateCommit
<1>3. CASE LiveCommits(ch, v) = {}
  <2> DEFINE row == [st |-> "pending", ch |-> ch, ver |-> v, review |-> r, override |-> over]
  <2>1. row \in CommitRow /\ row.st = "pending" /\ row.ch = ch /\ row.ver = v
    BY DEF CommitRow
  <2>2. commit[id].st = "absent" /\ commit' = [commit EXCEPT ![id] = row]
    BY <1>3 DEF CreateCommit, NextCommit
  <2>3. UNCHANGED <<chapter, review, active, tombs, dug, ledgered, folded, facts, buried>>
    BY DEF CreateCommit
  <2>4. chapter[ch].base < v
    BY DEF CreateCommit, HasVersion
  <2>5. \A j \in CommitIds : commit[j].st \in LiveStatus => commit[j].ch # ch \/ commit[j].ver # v
    BY <1>3 DEF LiveCommits, CommitsOf, LiveStatus
  <2> HIDE DEF row
  <2>6. CommitsOK'
    <3>1. commit'[id] = row /\ \A j \in CommitIds \ {id} : commit'[j] = commit[j]
      BY <1>1, <2>2
    <3>2. id \notin buried
      BY <2>2 DEF CanonInv, CommitsOK
    <3>3. buried \subseteq CommitIds
      BY DEF CanonInv, CanonTypeOK
    <3>4. \A j \in CommitIds : commit'[j].st \in LiveStatus =>
             commit'[j].ch \in Chapters /\ chapter'[commit'[j].ch].base < commit'[j].ver
      BY <2>1, <2>3, <2>4, <3>1 DEF CanonInv, CommitsOK
    <3>5. \A i, j \in CommitIds :
             commit'[i].st \in LiveStatus /\ commit'[j].st \in LiveStatus
                /\ commit'[i].ch = commit'[j].ch /\ commit'[i].ver = commit'[j].ver => i = j
      BY <2>1, <2>5, <3>1 DEF CanonInv, CommitsOK
    <3>6. \A j \in buried' : commit'[j].st \notin {"absent", "pending"}
      BY <2>3, <3>1, <3>2, <3>3 DEF CanonInv, CommitsOK
    <3> QED
      BY <2>3, <3>4, <3>5, <3>6 DEF CanonInv, CommitsOK
  <2> QED
    BY <2>1, <2>2, <2>3, <2>6, CommitRowKeeps
<1> QED
  BY <1>2, <1>3

\* A pending commit without a review gets one.
LEMMA BindReviewKeeps ==
    ASSUME CanonInv, NEW id \in CommitIds, NEW r \in ReviewIds, BindReview(id, r)
    PROVE  CanonInv' /\ EditStep
<1> DEFINE row == [commit[id] EXCEPT !.review = r]
<1>1. commit \in [CommitIds -> CommitRow] /\ commit[id] \in CommitRow
      /\ buried \subseteq CommitIds
  BY DEF CanonInv, CanonTypeOK
<1>2. row \in CommitRow /\ row.st = "pending" /\ row.ch = commit[id].ch /\ row.ver = commit[id].ver
      /\ commit[id].st = "pending"
  BY <1>1 DEF BindReview, CommitRow
<1>3. commit' = [commit EXCEPT ![id] = row]
  BY DEF BindReview
<1>4. UNCHANGED <<chapter, review, active, tombs, dug, ledgered, folded, facts, buried>>
  BY DEF BindReview
<1> HIDE DEF row
<1>5. \A j \in CommitIds : /\ commit'[j].st = commit[j].st /\ commit'[j].ch = commit[j].ch
                           /\ commit'[j].ver = commit[j].ver
  BY <1>1, <1>2, <1>3
<1>6. CommitsOK'
  BY <1>1, <1>4, <1>5 DEF CanonInv, CommitsOK
<1> QED
  BY <1>2, <1>3, <1>4, <1>6, CommitRowKeeps

\* The acceptance: the version fence and the uniqueness of live commits make
\* the new canon of the chapter the only one.
LEMMA AcceptKeeps ==
    ASSUME CanonInv, NEW id \in CommitIds, NEW over \in BOOLEAN, Accept(id, over)
    PROVE  CanonInv' /\ EditStep
<1> DEFINE ch == commit[id].ch
           row == [commit[id] EXCEPT !.st = "accepted", !.override = commit[id].override \/ over]
<1>1. /\ commit \in [CommitIds -> CommitRow] /\ commit[id] \in CommitRow
      /\ chapter \in [Chapters -> ChapterRow]
      /\ active \subseteq CommitIds /\ buried \subseteq CommitIds /\ folded \subseteq CommitIds
      /\ facts \subseteq CommitIds
  BY DEF CanonInv, CanonTypeOK
<1>2. commit[id].st = "pending" /\ commit[id].ver = Latest(ch)
  BY DEF Accept, MayAccept
<1>3. ch \in Chapters /\ chapter[ch].base < commit[id].ver
  BY <1>2 DEF CanonInv, CommitsOK, LiveStatus
<1>4. commit[id].ver = chapter[ch].head
  <2>1. chapter[ch] \in ChapterRow
    BY <1>1, <1>3
  <2> QED
    BY <1>2, <1>3, <2>1 DEF Latest, ChapterRow
<1>5. row \in CommitRow /\ row.st = "accepted" /\ row.ch = ch /\ row.ver = commit[id].ver
  BY <1>1 DEF CommitRow
<1>6. commit' = [commit EXCEPT ![id] = row]
  BY DEF Accept
<1>7. /\ UNCHANGED <<chapter, review, tombs, dug>>
      /\ facts' = facts \cup {id} /\ folded' = folded \cup {id}
      /\ ledgered' = ledgered \cup {ch}
  BY DEF Accept
<1>8. \/ ch \in tombs /\ buried' = buried \cup {id} /\ active' = active
      \/ ch \notin tombs /\ active' = active \cup {id} /\ buried' = buried
  BY DEF Accept
<1> HIDE DEF row, ch
<1>9. commit'[id] = row /\ \A j \in CommitIds \ {id} : commit'[j] = commit[j]
  BY <1>1, <1>6
<1>10. id \notin active /\ id \notin buried
  BY <1>2 DEF CanonInv, CanonMirror, CommitsOK
<1>11. CanonTypeOK'
  <2>1. commit' \in [CommitIds -> CommitRow]
    BY <1>1, <1>5, <1>6
  <2> QED
    BY <1>3, <1>7, <1>8, <2>1 DEF CanonInv, CanonTypeOK
<1>12. CommitsOK'
  <2>1. \A j \in CommitIds : /\ commit'[j].st \in LiveStatus <=> commit[j].st \in LiveStatus
                             /\ commit'[j].ch = commit[j].ch /\ commit'[j].ver = commit[j].ver
    BY <1>2, <1>5, <1>9 DEF LiveStatus, ch
  <2>2. \A j \in buried' : commit'[j].st \notin {"absent", "pending"}
    BY <1>1, <1>5, <1>8, <1>9 DEF CanonInv, CommitsOK
  <2>3. buried' \cap active' = {}
    BY <1>8, <1>10 DEF CanonInv, CommitsOK
  <2> QED
    BY <1>7, <2>1, <2>2, <2>3 DEF CanonInv, CommitsOK
<1>13. CanonMirror'
  <2>1. \A j \in CommitIds : commit'[j].st = "accepted" <=> commit[j].st = "accepted" \/ j = id
    BY <1>5, <1>9
  <2>2. {j \in CommitIds : commit[j].st = "accepted"} \ buried = active
    BY DEF CanonInv, CanonMirror
  <2> QED
    BY <1>8, <1>10, <2>1, <2>2 DEF CanonMirror
<1>14. DerivedIsReplay'
  BY <1>7, <1>8, <1>10 DEF CanonInv, DerivedIsReplay
<1>15. CanonIsHead'
  <2>1. \A j \in active : commit[j].st = "accepted" /\ commit'[j] = commit[j]
    BY <1>1, <1>9, <1>10 DEF CanonInv, CanonMirror
  <2>2. CASE active' = active
    BY <1>7, <2>1, <2>2 DEF CanonInv, CanonIsHead
  <2>3. CASE ch \notin tombs /\ active' = active \cup {id}
    <3>1. \A j \in active : commit[j].ch # ch
      <4>1. SUFFICES ASSUME NEW j \in active, commit[j].ch = ch
                     PROVE  FALSE
        OBVIOUS
      <4>2. commit[j].ver = commit[id].ver
        BY <1>4, <4>1 DEF CanonInv, CanonIsHead
      <4>3. j = id
        BY <1>1, <1>2, <2>1, <4>1, <4>2 DEF CanonInv, CommitsOK, LiveStatus, ch
      <4> QED
        BY <1>10, <4>3
    <3>2. commit'[id].ch = ch /\ commit'[id].ver = chapter'[ch].head
      BY <1>4, <1>5, <1>7, <1>9
    <3>3. \A j \in active : /\ commit'[j].ver = chapter'[commit'[j].ch].head
                            /\ commit'[j].ch \notin tombs'
                            /\ commit'[j].ch # ch
      BY <1>7, <2>1, <3>1 DEF CanonInv, CanonIsHead
    <3>4. \A i, j \in active : commit'[j].ch = commit'[i].ch => j = i
      BY <2>1 DEF CanonInv, CanonIsHead
    <3> QED
      BY <1>7, <2>3, <3>2, <3>3, <3>4 DEF CanonIsHead
  <2> QED
    BY <1>8, <2>2, <2>3
<1>16. EditStep
  BY <1>7 DEF EditStep
<1> QED
  BY <1>11, <1>12, <1>13, <1>14, <1>15, <1>16 DEF CanonInv

\* A rebuild writes the facts the ledger has anyway.
LEMMA RebuildKeeps ==
    ASSUME CanonInv, RebuildAll
    PROVE  CanonInv' /\ EditStep
<1>1. buried \cap active = {}
  BY DEF CanonInv, CommitsOK
<1>2. DerivedIsReplay'
  BY <1>1 DEF RebuildAll, DerivedIsReplay
<1>3. EditStep
  BY DEF RebuildAll, EditStep
<1> QED
  BY <1>2, <1>3 DEF RebuildAll, CanonInv, CanonTypeOK, CommitsOK, CanonIsHead, CanonMirror

-----------------------------------------------------------------------------
(* The theorems.                                                           *)

\* An empty book.
LEMMA InitCanonInv == CanonInit => CanonInv
<1> SUFFICES ASSUME CanonInit PROVE CanonInv
  OBVIOUS
<1>1. MaxVersion \in Nat
  BY CanonAssumption
<1>2. CanonTypeOK
  BY <1>1 DEF CanonInit, CanonTypeOK, ChapterRow, ChapterStatus, ReviewRow, CommitRow,
              NoReviewRow, NoCommitRow
<1>3. \A id \in CommitIds : commit[id].st = "absent"
  BY DEF CanonInit, NoCommitRow
<1> QED
  BY <1>2, <1>3 DEF CanonInit, CanonInv, CommitsOK, LiveStatus, CanonIsHead, CanonMirror,
                    DerivedIsReplay

\* Every operation of the store keeps the invariant, and what it promises of edits.
LEMMA StoreStepKeeps ==
    ASSUME CanonInv, StoreStep
    PROVE  CanonInv' /\ EditStep /\ Lasting
<1>1. ASSUME NEW ch \in Chapters, NEW target,
             \/ NewChapter(ch, target) \/ NewText(ch, target)
             \/ RestoreVersion(ch) \/ DeleteChapter(ch)
      PROVE  CanonInv' /\ EditStep /\ Lasting
  BY <1>1, SweepingKeeps
<1>2. ASSUME NEW ch \in Chapters, NEW target, KeepText(ch, target)
      PROVE  CanonInv' /\ EditStep /\ Lasting
  BY <1>2, KeepTextKeeps DEF KeepText, Lasting
<1>3. ASSUME NEW r \in ReviewIds, NEW ch \in Chapters, NEW pass \in BOOLEAN,
             NEW v \in 0..MaxVersion, SaveReview(r, ch, v, pass)
      PROVE  CanonInv' /\ EditStep /\ Lasting
  BY <1>3, SaveReviewKeeps DEF SaveReview, Lasting
<1>4. ASSUME NEW id \in CommitIds, NEW ch \in Chapters, NEW v \in 0..MaxVersion,
             NEW r \in ReviewIds \cup {0}, NEW over \in BOOLEAN, CreateCommit(id, ch, v, r, over)
      PROVE  CanonInv' /\ EditStep /\ Lasting
  <2>1. Lasting
    BY <1>4 DEF CanonInv, CanonTypeOK, CreateCommit, NextCommit, Lasting
  <2> QED
    BY <1>4, <2>1, CreateCommitKeeps
<1>5. ASSUME NEW id \in CommitIds, NEW r \in ReviewIds, BindReview(id, r)
      PROVE  CanonInv' /\ EditStep /\ Lasting
  <2>1. Lasting
    BY <1>5 DEF CanonInv, CanonTypeOK, CommitRow, BindReview, Lasting
  <2> QED
    BY <1>5, <2>1, BindReviewKeeps
<1>6. ASSUME NEW id \in CommitIds, NEW over \in BOOLEAN, Accept(id, over)
      PROVE  CanonInv' /\ EditStep /\ Lasting
  <2>1. commit[id].st = "pending" /\ active' \subseteq active \cup {id}
    BY <1>6 DEF Accept, MayAccept
  <2>2. \A j \in CommitIds \ {id} : commit'[j] = commit[j]
    BY <1>6 DEF CanonInv, CanonTypeOK, Accept
  <2>3. commit'[id].st = "accepted" /\ commit'[id].ch = commit[id].ch
    BY <1>6 DEF CanonInv, CanonTypeOK, CommitRow, Accept
  <2>4. Lasting
    BY <2>1, <2>2, <2>3 DEF Lasting
  <2> QED
    BY <1>6, <2>4, AcceptKeeps
<1>7. CASE RebuildAll
  BY <1>7, RebuildKeeps DEF RebuildAll, Lasting
<1> QED
  BY <1>1, <1>2, <1>3, <1>4, <1>5, <1>6, <1>7 DEF StoreStep

\* The author of CanonSpec performs operations of the store.
LEMMA CanonNextIsStore ==
    ASSUME CanonTypeOK, CanonNext
    PROVE  StoreStep
<1>1. CASE EditText
  BY <1>1 DEF EditText, Edit, StoreStep
<1>2. CASE Restore \/ Delete
  BY <1>2 DEF Restore, Delete, StoreStep
<1>3. CASE Audit
  BY <1>3, LatestType DEF Audit, StoreStep
<1>4. CASE Import
  BY <1>4, LatestType DEF Import, StoreStep
<1>5. CASE Bind \/ AcceptBound \/ RebuildAll
  BY <1>5 DEF Bind, AcceptBound, StoreStep
<1> QED
  BY <1>1, <1>2, <1>3, <1>4, <1>5 DEF CanonNext

\* Steps that leave the store alone keep it too.
LEMMA CanonStutter == CanonInv /\ UNCHANGED canonVars => CanonInv' /\ Lasting
  BY DEF canonVars, CanonInv, CanonTypeOK, CommitsOK, CanonIsHead, CanonMirror, DerivedIsReplay,
         Lasting

\* A step of the store by itself.
LEMMA StepCanonInv ==
    CanonInv /\ [CanonNext]_canonVars => CanonInv' /\ (EditStep \/ UNCHANGED canonVars)
<1>1. CanonInv => CanonTypeOK
  BY DEF CanonInv
<1> QED
  BY <1>1, CanonNextIsStore, StoreStepKeeps, CanonStutter

\* The inductive invariant holds of every reachable state of the store.
THEOREM CanonInvariant == CanonSpec => []CanonInv
  BY InitCanonInv, StepCanonInv, PTL DEF CanonSpec

\* The rows of the store keep the shape of their tables.
THEOREM CanonTyped == CanonSpec => []CanonTypeOK
<1>1. CanonInv => CanonTypeOK
  BY DEF CanonInv
<1> QED
  BY <1>1, CanonInvariant, PTL

\* Whatever the order of edits, restores, deletions, reviews and acceptances,
\* canon has one commit of a chapter, of its latest text, and none of a chapter
\* the ledger has buried.
THEOREM OneCanonPerChapter == CanonSpec => []CanonIsHead
<1>1. CanonInv => CanonIsHead
  BY DEF CanonInv
<1> QED
  BY <1>1, CanonInvariant, PTL

\* The compatibility read model agrees with the replay of the ledger, but for
\* the commits accepted for a chapter already buried.
THEOREM MirrorAgrees == CanonSpec => []CanonMirror
<1>1. CanonInv => CanonMirror
  BY DEF CanonInv
<1> QED
  BY <1>1, CanonInvariant, PTL

\* The facts and the state updated in place are those a rebuild from the
\* ledger would derive.
THEOREM InPlaceIsRebuild == CanonSpec => []DerivedIsReplay
<1>1. CanonInv => DerivedIsReplay
  BY DEF CanonInv
<1> QED
  BY <1>1, CanonInvariant, PTL

\* A step that gives a chapter a new text, or deletes it, leaves no canon of this
\* chapter or a later one.
THEOREM EditsInvalidate == CanonSpec => EditInvalidates
<1>1. CanonInv /\ [CanonNext]_canonVars => [EditStep]_canonVars
  BY StepCanonInv
<1> QED
  BY <1>1, CanonInvariant, PTL DEF CanonSpec, EditInvalidates, EditStep
=============================================================================
