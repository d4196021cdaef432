----------------------------- MODULE StoryCanon -----------------------------
(***************************************************************************)
(* The truth store of one book: src/src/core/story_repository.py, the      *)
(* event ledger it appends to (core/narrative_events.py) and the reviews   *)
(* it relies on (review/review_repository.py).                             *)
(*                                                                         *)
(* Canon is kept three times.  The ledger of immutable events is the       *)
(* source of truth; the status column of story_commits is a "compatibility *)
(* read model"; the facts and the story state are derived and updated in   *)
(* place by every operation.  Each operation is one `db.transaction()',    *)
(* hence one action.                                                       *)
(*                                                                         *)
(* Abstractions: the events themselves are not kept: `active', `tombs' and *)
(* `dug' are what active_events' left-to-right replay has computed after   *)
(* the last of them, and no event is ever inserted before another.  A      *)
(* version is its number; two versions of a chapter have different texts,  *)
(* and a save may bring the text of the latest version.  Version numbers   *)
(* are not reused after a chapter has been physically deleted, as its      *)
(* version ids are not.  Facts and state changes are known by the commit   *)
(* they come from; text, titles, scores, the graph, memory and world       *)
(* projections, and the rejection of commits, which no caller in the       *)
(* program asks for, are left out.                                         *)
(***************************************************************************)
EXTENDS Naturals

CONSTANTS
    Chapters,       \* chapter numbers
    CommitIds,      \* ids of story_commits rows, in creation order
    ReviewIds,      \* ids of reviews rows, in creation order
    MaxVersion,     \* bound: versions a chapter number may ever have
    EditStatuses    \* bound: statuses an editor may ask for

ASSUME CanonAssumption ==
    /\ Chapters \subseteq Nat \ {0}
    /\ CommitIds \subseteq Nat \ {0}
    /\ ReviewIds \subseteq Nat \ {0}
    /\ MaxVersion \in Nat

VARIABLES
    chapter,    \* chapters and chapter_versions
    review,     \* reviews
    commit,     \* story_commits
    active,     \* the commits whose acceptance event the replay keeps
    tombs,      \* the chapters the replay holds tombstoned
    dug,        \* the chapters with a ChapterTombstoned event in the ledger
    ledgered,   \* the chapters some event of the ledger refers to
    folded,     \* the commits whose state changes story_states holds
    facts,      \* the commits whose story_facts rows are `verified'
    buried      \* history: commits accepted while their chapter was tombstoned

canonVars == <<chapter, review, commit, active, tombs, dug, ledgered, folded, facts, buried>>

-----------------------------------------------------------------------------
(* Rows.                                                                   *)

\* The table `allowed' of _assert_chapter_status_transition.
StatusMoves ==
    [planned   |-> {"draft", "drafted"},
     draft     |-> {"drafted", "reviewing"},
     drafted   |-> {"reviewing", "revising", "approved"},
     reviewing |-> {"revising", "approved", "drafted"},
     revising  |-> {"reviewing", "drafted"},
     approved  |-> {"committed", "revising", "drafted"},
     committed |-> {"revising", "exported"},
     exported  |-> {"revising"}]

Lifecycle == DOMAIN StatusMoves

\* "absent": no row; "deleted": the tombstone delete_chapter leaves.
ChapterStatus == Lifecycle \cup {"absent", "deleted"}

\* The live versions of a chapter are base+1 .. head.
ChapterRow == [status: ChapterStatus, base: 0..MaxVersion, head: 0..MaxVersion]

ReviewRow == [st: {"absent", "saved", "gone"}, ch: Chapters \cup {0}, ver: 0..MaxVersion,
              pass: BOOLEAN]

CommitRow == [st: {"absent", "pending", "accepted", "superseded", "gone"},
              ch: Chapters \cup {0}, ver: 0..MaxVersion,
              review: ReviewIds \cup {0}, override: BOOLEAN]

NoReviewRow == [st |-> "absent", ch |-> 0, ver |-> 0, pass |-> FALSE]
NoCommitRow == [st |-> "absent", ch |-> 0, ver |-> 0, review |-> 0, override |-> FALSE]

Written(ch) == chapter[ch].status # "absent"
Latest(ch) == IF chapter[ch].head > chapter[ch].base THEN chapter[ch].head ELSE 0
HasVersion(ch, v) == chapter[ch].base < v /\ v <= chapter[ch].head

NextReview(r) == review[r].st = "absent" /\ \A q \in ReviewIds : q < r => review[q].st # "absent"
NextCommit(id) == commit[id].st = "absent" /\ \A j \in CommitIds : j < id => commit[j].st # "absent"

CommitsOf(ch) == {id \in CommitIds : commit[id].st \notin {"absent", "gone"} /\ commit[id].ch = ch}
LiveCommits(ch, v) ==
    {id \in CommitsOf(ch) : commit[id].ver = v /\ commit[id].st \in {"pending", "accepted"}}

\* _assert_chapter_status_transition: a tombstone is no status of the table.
MayMove(from, to) == to \in Lifecycle /\ (to = from \/ (from \in Lifecycle /\ to \in StatusMoves[from]))

\* _assert_accepted_commit_for_version
Accepted(ch, v) == \E id \in CommitsOf(ch) : commit[id].ver = v /\ commit[id].st = "accepted"

-----------------------------------------------------------------------------
(* Text.                                                                   *)

\* Mutant of Targets: only the edited chapter itself loses its canon.
TargetsOfChapter(ch) == {id \in active : commit[id].ch = ch}

\* The acceptance events an edit of chapter ch supersedes: canon after a
\* changed chapter was written upon it.
Targets(ch) == {id \in active : commit[id].ch >= ch}

\* Mutant of Sweep: the story state is not recomputed.
SweepKeepsState(ch, owned, fate) ==
    LET gone == Targets(ch) IN
    /\ active' = active \ gone
    /\ facts' = facts \ (gone \cup owned)
    /\ commit' = [id \in CommitIds |->
                     IF id \in owned THEN [commit[id] EXCEPT !.st = fate]
                     ELSE IF id \in gone THEN [commit[id] EXCEPT !.st = "superseded"]
                     ELSE commit[id]]
    /\ UNCHANGED folded

\* _mark_story_state_stale_for_chapter, and for a deletion what becomes of
\* the chapter's own commits (`owned', their new status `fate').
Sweep(ch, owned, fate) ==
    LET gone == Targets(ch) IN
    /\ active' = active \ gone
    /\ facts' = facts \ (gone \cup owned)
    /\ commit' = [id \in CommitIds |->
                     IF id \in owned THEN [commit[id] EXCEPT !.st = fate]
                     ELSE IF id \in gone THEN [commit[id] EXCEPT !.st = "superseded"]
                     ELSE commit[id]]
    /\ folded' = IF gone = {} THEN folded ELSE active \ gone

\* append_chapter_version for a number that has no row.
NewChapter(ch, target) ==
    /\ ~Written(ch)
    /\ chapter[ch].head < MaxVersion
    /\ target \in {"planned", "draft", "drafted"}
    /\ chapter' = [chapter EXCEPT ![ch].status = target, ![ch].head = @ + 1]
    /\ Sweep(ch, {}, "superseded")
    /\ UNCHANGED <<review, tombs, dug, ledgered, buried>>

MaySave(ch, target) ==
    /\ Written(ch)
    /\ MayMove(chapter[ch].status, target)
    /\ target = "committed" /\ target # chapter[ch].status => Accepted(ch, Latest(ch))

\* append_chapter_version with the text of the latest version.
KeepText(ch, target) ==
    /\ MaySave(ch, target)
    /\ chapter' = [chapter EXCEPT ![ch].status = target]
    /\ UNCHANGED <<review, commit, active, tombs, dug, ledgered, folded, facts, buried>>

\* append_chapter_version with another text.
NewText(ch, target) ==
    /\ MaySave(ch, target)
    /\ chapter[ch].head < MaxVersion
    /\ chapter' = [chapter EXCEPT ![ch].status = target, ![ch].head = @ + 1]
    /\ Sweep(ch, {}, "superseded")
    /\ UNCHANGED <<review, tombs, dug, ledgered, buried>>

\* restore_chapter_version: an older text, hence another one, becomes the head.
RestoreVersion(ch) ==
    /\ Written(ch)
    /\ chapter[ch].base + 1 < chapter[ch].head
    /\ chapter[ch].head < MaxVersion
    /\ chapter' = [chapter EXCEPT ![ch].status = "draft", ![ch].head = @ + 1]
    /\ Sweep(ch, {}, "superseded")
    /\ tombs' = tombs \ {ch}
    /\ ledgered' = ledgered \cup {ch}
    /\ UNCHANGED <<review, dug, buried>>

\* transition_chapter_status
TransitionStatus(ch, target) == KeepText(ch, target)

\* delete_chapter of a chapter no event refers to: the rows go, and the
\* commits and reviews with them (ON DELETE CASCADE).
EraseChapter(ch) ==
    /\ Written(ch) /\ ch \notin ledgered
    /\ chapter' = [chapter EXCEPT ![ch].status = "absent", ![ch].base = chapter[ch].head]
    /\ Sweep(ch, CommitsOf(ch), "gone")
    /\ review' = [r \in ReviewIds |-> IF review[r].st = "saved" /\ review[r].ch = ch
                                      THEN [review[r] EXCEPT !.st = "gone"] ELSE review[r]]
    /\ UNCHANGED <<tombs, dug, ledgered, buried>>

\* delete_chapter otherwise.  append_event returns the event of an earlier
\* deletion instead of appending its equal: the second tombstone of a
\* chapter is not written and the replay does not see it.
BuryChapter(ch) ==
    /\ Written(ch) /\ ch \in ledgered
    /\ chapter' = [chapter EXCEPT ![ch].status = "deleted"]
    /\ Sweep(ch, CommitsOf(ch), "superseded")
    /\ tombs' = IF ch \in dug THEN tombs ELSE tombs \cup {ch}
    /\ dug' = dug \cup {ch}
    /\ UNCHANGED <<review, ledgered, buried>>

DeleteChapter(ch) == EraseChapter(ch) \/ BuryChapter(ch)

-----------------------------------------------------------------------------
(* Reviews and commits.                                                    *)

\* save_review, of a version the caller has read.
SaveReview(r, ch, v, pass) ==
    /\ Written(ch) /\ HasVersion(ch, v) /\ NextReview(r)
    /\ review' = [review EXCEPT ![r] = [st |-> "saved", ch |-> ch, ver |-> v, pass |-> pass]]
    /\ UNCHANGED <<chapter, commit, active, tombs, dug, ledgered, folded, facts, buried>>

ReviewIsOf(r, ch, v) == review[r].st = "saved" /\ review[r].ch = ch /\ review[r].ver = v

\* create_story_commit; id is the id it returns, r = 0 when no review is given.
CreateCommit(id, ch, v, r, over) ==
    /\ Written(ch) /\ HasVersion(ch, v)
    /\ r # 0 => ReviewIsOf(r, ch, v)
    /\ IF LiveCommits(ch, v) = {}
       THEN /\ NextCommit(id)
            /\ commit' = [commit EXCEPT ![id] = [st |-> "pending", ch |-> ch, ver |-> v,
                                                 review |-> r, override |-> over]]
       ELSE /\ id \in LiveCommits(ch, v)
            /\ r # 0 => commit[id].review \in {0, r}
            /\ UNCHANGED commit
    /\ UNCHANGED <<chapter, review, active, tombs, dug, ledgered, folded, facts, buried>>

\* bind_story_commit_review
BindReview(id, r) ==
    /\ commit[id].st = "pending"
    /\ ReviewIsOf(r, commit[id].ch, commit[id].ver)
    /\ commit' = [commit EXCEPT ![id].review = r]
    /\ UNCHANGED <<chapter, review, active, tombs, dug, ledgered, folded, facts, buried>>

\* Mutant of MayAccept: the commit may be of an older version of the text.
MayAcceptStale(id, over) ==
    /\ commit[id].st = "pending"
    /\ commit[id].review # 0
    /\ ReviewIsOf(commit[id].review, commit[id].ch, commit[id].ver)
    /\ review[commit[id].review].pass \/ over \/ commit[id].override

\* The checks of _accept_story_commit: the version fence, then the review.
MayAccept(id, over) ==
    /\ commit[id].st = "pending"
    /\ commit[id].ver = Latest(commit[id].ch)
    /\ commit[id].review # 0
    /\ ReviewIsOf(commit[id].review, commit[id].ch, commit[id].ver)
    /\ review[commit[id].review].pass \/ over \/ commit[id].override

\* Mutant of Accept: the commit is accepted and no event is appended.
AcceptNoEvent(id, over) ==
    /\ MayAccept(id, over)
    /\ commit' = [commit EXCEPT ![id].st = "accepted", ![id].override = @ \/ over]
    /\ facts' = facts \cup {id}
    /\ folded' = folded \cup {id}
    /\ UNCHANGED <<chapter, review, active, tombs, dug, ledgered, buried>>

\* _accept_story_commit: the replay passes over the acceptance of a commit
\* whose chapter is tombstoned.
Accept(id, over) ==
    LET ch == commit[id].ch IN
    /\ MayAccept(id, over)
    /\ commit' = [commit EXCEPT ![id].st = "accepted", ![id].override = @ \/ over]
    /\ facts' = facts \cup {id}
    /\ folded' = folded \cup {id}
    /\ ledgered' = ledgered \cup {ch}
    /\ IF ch \in tombs
       THEN buried' = buried \cup {id} /\ UNCHANGED active
       ELSE active' = active \cup {id} /\ UNCHANGED buried
    /\ UNCHANGED <<chapter, review, tombs, dug>>

\* rebuild_all, its first transaction: the derived rows from the replay.
RebuildAll ==
    /\ facts' = active
    /\ folded' = active
    /\ UNCHANGED <<chapter, review, commit, active, tombs, dug, ledgered, buried>>

-----------------------------------------------------------------------------
(* The store alone: an author who edits, reviews, accepts and deletes.     *)

CanonInit ==
    /\ chapter = [ch \in Chapters |-> [status |-> "absent", base |-> 0, head |-> 0]]
    /\ review = [r \in ReviewIds |-> NoReviewRow]
    /\ commit = [id \in CommitIds |-> NoCommitRow]
    /\ active = {} /\ tombs = {} /\ dug = {} /\ ledgered = {}
    /\ folded = {} /\ facts = {} /\ buried = {}

\* PUT /chapters/{num}: no status in the request keeps the one of the row.
Edit(ch) ==
    \/ NewChapter(ch, "draft")
    \/ \E target \in EditStatuses \cup {chapter[ch].status} :
          NewText(ch, target) \/ KeepText(ch, target)

EditText == \E ch \in Chapters : Edit(ch)
Restore == \E ch \in Chapters : RestoreVersion(ch)
Delete == \E ch \in Chapters : DeleteChapter(ch)
Audit == \E r \in ReviewIds, ch \in Chapters, pass \in BOOLEAN : SaveReview(r, ch, Latest(ch), pass)

\* CanonicalImportService: a commit of the latest text, still without review.
Import == \E id \in CommitIds, ch \in Chapters : CreateCommit(id, ch, Latest(ch), 0, FALSE)

\* accept_reviewed_story_commit is two transactions: Bind, then AcceptBound.
Bind == \E id \in CommitIds, r \in ReviewIds : BindReview(id, r)
AcceptBound == \E id \in CommitIds : Accept(id, FALSE)

CanonNext ==
    \/ EditText \/ Restore \/ Delete
    \/ Audit \/ Import \/ Bind \/ AcceptBound
    \/ RebuildAll

CanonSpec == CanonInit /\ [][CanonNext]_canonVars

-----------------------------------------------------------------------------
(* Properties.                                                             *)

\* The rows have the shape of their tables.
CanonTypeOK ==
    /\ chapter \in [Chapters -> ChapterRow]
    /\ review \in [ReviewIds -> ReviewRow]
    /\ commit \in [CommitIds -> CommitRow]
    /\ active \subseteq CommitIds /\ folded \subseteq CommitIds /\ facts \subseteq CommitIds
    /\ buried \subseteq CommitIds
    /\ tombs \subseteq Chapters /\ dug \subseteq Chapters /\ ledgered \subseteq Chapters

\* Canon never holds two commits of one chapter, a commit of a text that has
\* been replaced, or a commit of a chapter the ledger has buried, whatever
\* the order of edits, restores, deletions and acceptances.
CanonIsHead ==
    \A id \in active :
        /\ commit[id].ver = chapter[commit[id].ch].head
        /\ commit[id].ch \notin tombs
        /\ \A j \in active : commit[j].ch = commit[id].ch => j = id

\* The status column agrees with the replay of the ledger: a commit is
\* `accepted' exactly when its event is active, but for the one case the
\* code lets through, a commit accepted for a chapter already tombstoned.
CanonMirror == {id \in CommitIds : commit[id].st = "accepted"} \ buried = active

\* The facts and the state, updated in place by acceptances and recomputed
\* by edits, are what a replay of the ledger from nothing would derive (the
\* same one case apart).
DerivedIsReplay == folded \ buried = active /\ facts \ buried = active

\* New text in a chapter, or its deletion, takes out of canon everything
\* accepted for this chapter and the later ones.
EditInvalidates ==
    [][\A ch \in Chapters :
          \/ chapter'[ch].head # chapter[ch].head
          \/ chapter'[ch].status # chapter[ch].status /\ chapter'[ch].status \in {"absent", "deleted"}
          => \A id \in active' : commit'[id].ch < ch]_canonVars
=============================================================================
