--------------------------- MODULE Conversations ---------------------------
(***************************************************************************)
(* What members write and how they follow or block each other: comments on *)
(* announcements, the discussion board of a group, comments on an event,   *)
(* the announcements themselves, and the follows between two users.        *)
(* Comments and follows are written in a transaction that first reads the  *)
(* writer's standing and the blocks without a lock: their checks and their *)
(* insert are two steps. Managers lock the group: theirs are one.          *)
(***************************************************************************)
EXTENDS Integers, FiniteSets

CONSTANTS
  Writers,       \* the users
  Host,          \* the one who manages the group and organises the event
  Requests,      \* transactions that can be under way at a time
  MaxComments, MaxNotices,     \* bounds on the comments and on the announcements
  MaxVersion, MaxOtherVersion, \* bounds on the versions of the first comment, of other rows
  HourlyLimit    \* community.discussion.post_rate_per_hour

VARIABLES
  surface,    \* what this behaviour exercises, see Surfaces
  active,     \* the users comments are open to: unmuted members, or holders of a place
  comments,   \* community.comments by number
  notices,    \* community.announcements by number
  today,      \* the announcements of today
  recent,     \* posts of the last hour by user
  editor,     \* the row a user has open, as it was read
  request,    \* the transactions between their checks and their write
  blocks, follows   \* identity.blocks and identity.follows between users

talkVars == <<surface, active, comments, notices, today, recent, editor, request, blocks, follows>>

\* Comments under announcements, the board of the group, comments of an event, the
\* announcements, and profiles that are followed share no row: a behaviour is about one.
Surfaces == {"announcement", "group", "event", "notices", "profile"}
Pairs == {p \in Writers \X Writers : p[1] # p[2]}
Comments == 1..MaxComments
Notices == 1..MaxNotices
NoRow == [state |-> "none", author |-> Host, parent |-> 0, text |-> "clean", version |-> 0]
NoEditor == [row |-> 0, copy |-> NoRow]
NoRequest == [stage |-> "idle", user |-> Host, parent |-> 0, text |-> "clean", target |-> Host]

Row == [state : {"none", "visible", "hidden", "removed"},
        author : Writers, parent : 0..MaxComments, text : {"clean", "foul"}, version : Nat]

TypeOK ==
  /\ surface \in Surfaces
  /\ active \subseteq Writers
  /\ comments \in [Comments -> Row] /\ notices \in [Notices -> Row]
  /\ today \subseteq Notices
  /\ recent \in [Writers -> Nat]
  /\ editor \in [Writers -> [row : Nat, copy : Row]]
  /\ request \in [Requests -> [stage : {"idle", "write", "follow", "unfollow"}, user : Writers,
                               parent : 0..MaxComments, text : {"clean", "foul"}, target : Writers]]
  /\ blocks \subseteq Pairs /\ follows \subseteq Pairs

Init ==
  /\ surface \in Surfaces
  /\ active = Writers
  /\ comments = [c \in Comments |-> NoRow] /\ notices = [n \in Notices |-> NoRow]
  /\ today = {} /\ recent = [u \in Writers |-> 0]
  /\ editor = [u \in Writers |-> NoEditor]
  /\ request = [r \in Requests |-> NoRequest]
  /\ blocks = {} /\ follows = {}

-----------------------------------------------------------------------------
(* Who may write what *)

Blocked(u, v) == <<u, v>> \in blocks \/ <<v, u>> \in blocks

Shown(c) == comments[c].state = "visible"

\* The audience of createComment (announcements), assertCanPost with assertPostRate, and
\* assertCanComment. Phone verification and the restriction to post come with the session and
\* are the same all along.
MayCommentNotice(u) == u \in active
MayPost(u) == u \in active /\ recent[u] < HourlyLimit
MayCommentEvent(u) == u = Host \/ (u \in active /\ ~Blocked(u, Host))

MayWrite(u) ==
  \/ surface = "announcement" /\ MayCommentNotice(u)
  \/ surface = "group" /\ MayPost(u)
  \/ surface = "event" /\ MayCommentEvent(u)

\* assertCleanContent and screenCommentBody; announcements' comments are not screened.
PassesScreening(text) == surface = "announcement" \/ text = "clean"

\* A reply is to something shown; on the board to a post, not to a reply.
MayReplyTo(c) == c # 0 => Shown(c) /\ (surface = "group" => comments[c].parent = 0)

\* A user's standing is changed by managers, by joining and leaving, by registering.
StandingChanges(u) ==
  /\ surface \in {"announcement", "group", "event"} /\ u # Host
  /\ active' = IF u \in active THEN active \ {u} ELSE active \cup {u}
  /\ UNCHANGED <<surface, comments, notices, today, recent, editor, request, blocks, follows>>

\* createComment, createDiscussionPost, createDiscussionReply: the checks ...
CheckComment(r, u, parent, text) ==
  /\ request[r].stage = "idle"
  /\ MayWrite(u) /\ PassesScreening(text) /\ MayReplyTo(parent)
  /\ request' = [request EXCEPT ![r] = [stage |-> "write", user |-> u, parent |-> parent,
                                        text |-> text, target |-> Host]]
  /\ UNCHANGED <<surface, active, comments, notices, today, recent, editor, blocks, follows>>

NewComment(q) ==
  [state |-> "visible", author |-> q.user, parent |-> q.parent, text |-> q.text, version |-> 1]

\* ... and the insert.
InsertComment(r, c) ==
  /\ request[r].stage = "write"
  /\ comments[c].state = "none" /\ \A d \in 1..(c - 1) : comments[d].state # "none"
  /\ comments' = [comments EXCEPT ![c] = NewComment(request[r])]
  /\ recent' = IF surface = "group" THEN [recent EXCEPT ![request[r].user] = @ + 1] ELSE recent
  /\ request' = [request EXCEPT ![r] = NoRequest]
  /\ UNCHANGED <<surface, active, notices, today, editor, blocks, follows>>

HourPasses(u) ==
  /\ recent[u] > 0 /\ recent' = [recent EXCEPT ![u] = 0]
  /\ UNCHANGED <<surface, active, comments, notices, today, editor, request, blocks, follows>>

-----------------------------------------------------------------------------
(* Editing: a page keeps the row it read and sends the version with the change *)

Rows == IF surface = "notices" THEN notices ELSE comments

WriteRow(i, row) ==
  IF surface = "notices" THEN notices' = [notices EXCEPT ![i] = row] /\ UNCHANGED comments
                         ELSE comments' = [comments EXCEPT ![i] = row] /\ UNCHANGED notices

\* The bound on the changes of a row.
Editable(i) == Rows[i].version < IF surface # "notices" /\ i = 1 THEN MaxVersion ELSE MaxOtherVersion

\* Every update of a row goes through the trigger touch_version.
Touched(row) == [row EXCEPT !.version = @ + 1]

\* The edit dialog of GroupDiscussion: authors open their comments, managers announcements.
OpenEditor(u, i) ==
  /\ Rows[i].state = "visible" /\ Editable(i)
  /\ IF surface = "notices" THEN TRUE ELSE Rows[i].author = u
  /\ editor' = [editor EXCEPT ![u] = [row |-> i, copy |-> Rows[i]]]
  /\ UNCHANGED <<surface, active, comments, notices, today, recent, request, blocks, follows>>

CloseEditor(u) ==
  /\ editor[u].row # 0 /\ editor' = [editor EXCEPT ![u] = NoEditor]
  /\ UNCHANGED <<surface, active, comments, notices, today, recent, request, blocks, follows>>

\* WHERE version = $4: the row is as the page read it.
Current(u) == Rows[editor[u].row].version = editor[u].copy.version
Current_Unversioned(u) == TRUE
BaseVersionHolds(u) == Current(u)

\* updateComment and updateAnnouncement: neither screens the new text, which may be what the
\* screening of a new comment refuses.
Rewritten(row) == [Touched(row) EXCEPT !.text = "foul"]

SaveEdit(u) ==
  LET i == editor[u].row IN
  /\ i # 0 /\ Rows[i].state = "visible" /\ Editable(i) /\ BaseVersionHolds(u)
  /\ WriteRow(i, Rewritten(Rows[i]))
  /\ editor' = [editor EXCEPT ![u] = NoEditor]
  /\ UNCHANGED <<surface, active, today, recent, request, blocks, follows>>

\* deleted_at is set, as deleteAnnouncement does: nothing is taken out of a table.
Withdrawn(row) == [Touched(row) EXCEPT !.state = "removed"]

\* deleteComment: by the author, as long as it has not been deleted. Of an announcement:
\* deleteAnnouncement, by a manager.
Delete(i) ==
  /\ Rows[i].state = "visible" /\ Editable(i)
  /\ WriteRow(i, Withdrawn(Rows[i]))
  /\ UNCHANGED <<surface, active, today, recent, editor, request, blocks, follows>>

\* moderateDiscussionComment: hides, removes and brings back, what the author deleted included.
Moderate(c, state) ==
  /\ surface = "group" /\ comments[c].state # "none" /\ Editable(c)
  /\ comments' = [comments EXCEPT ![c] =
       [Touched(comments[c]) EXCEPT !.state = state]]
  /\ UNCHANGED <<surface, active, notices, today, recent, editor, request, blocks, follows>>

\* createAnnouncement: two a day, those deleted today not counted; the group is locked.
CreateAnnouncement(u, n) ==
  /\ surface = "notices"
  /\ Cardinality({m \in today : notices[m].state = "visible"}) < 2
  /\ notices[n].state = "none" /\ \A m \in 1..(n - 1) : notices[m].state # "none"
  /\ notices' = [notices EXCEPT ![n] = [NoRow EXCEPT !.state = "visible", !.author = u, !.version = 1]]
  /\ today' = today \cup {n}
  /\ UNCHANGED <<surface, active, comments, recent, editor, request, blocks, follows>>

DayPasses ==
  /\ today # {} /\ today' = {}
  /\ UNCHANGED <<surface, active, comments, notices, recent, editor, request, blocks, follows>>

-----------------------------------------------------------------------------
(* Follows and blocks *)

\* setFollow reads the blocks ...
CheckFollow(r, u, v, stage) ==
  /\ surface = "profile" /\ request[r].stage = "idle" /\ u # v /\ ~Blocked(u, v)
  /\ request' = [request EXCEPT ![r] = [NoRequest EXCEPT !.stage = stage, !.user = u, !.target = v]]
  /\ UNCHANGED <<surface, active, comments, notices, today, recent, editor, blocks, follows>>

\* ... and writes the follow.
WriteFollow(r) ==
  /\ request[r].stage \in {"follow", "unfollow"}
  /\ LET p == <<request[r].user, request[r].target>> IN
       follows' = IF request[r].stage = "follow" THEN follows \cup {p} ELSE follows \ {p}
  /\ request' = [request EXCEPT ![r] = NoRequest]
  /\ UNCHANGED <<surface, active, comments, notices, today, recent, editor, blocks>>

\* setBlock: ends the follows both ways.
SetBlock(u, v) ==
  /\ surface \in {"profile", "event"} /\ u # v
  /\ blocks' = blocks \cup {<<u, v>>} /\ follows' = follows \ {<<u, v>>, <<v, u>>}
  /\ UNCHANGED <<surface, active, comments, notices, today, recent, editor, request>>

Unblock(u, v) ==
  /\ <<u, v>> \in blocks /\ blocks' = blocks \ {<<u, v>>}
  /\ UNCHANGED <<surface, active, comments, notices, today, recent, editor, request, follows>>

-----------------------------------------------------------------------------
Next ==
  \/ \E u \in Writers : StandingChanges(u) \/ HourPasses(u) \/ CloseEditor(u) \/ SaveEdit(u)
  \/ \E r \in Requests, u \in Writers, c \in 0..MaxComments, t \in {"clean", "foul"} : CheckComment(r, u, c, t)
  \/ \E r \in Requests : WriteFollow(r) \/ \E c \in Comments : InsertComment(r, c)
  \/ \E u \in Writers, i \in DOMAIN Rows : OpenEditor(u, i)
  \/ \E i \in DOMAIN Rows : Delete(i)
  \/ \E c \in Comments, s \in {"visible", "hidden", "removed"} : Moderate(c, s)
  \/ \E u \in Writers, n \in Notices : CreateAnnouncement(u, n)
  \/ DayPasses
  \/ \E r \in Requests, u, v \in Writers, stage \in {"follow", "unfollow"} : CheckFollow(r, u, v, stage)
  \/ \E u, v \in Writers : SetBlock(u, v) \/ Unblock(u, v)

Spec == Init /\ [][Next]_talkVars

-----------------------------------------------------------------------------
(* Properties *)

\* An edit replaces exactly what its author was shown (ifMatch of GroupDiscussion, baseVersion
\* of updateComment and updateAnnouncement): not a text another tab or manager saved meanwhile,
\* nor a comment that was taken down and brought back.
EditsReplaceWhatWasRead ==
  [][\A u \in Writers : editor[u].row # 0 /\ editor'[u].row = 0 /\ Rows' # Rows
       => editor[u].copy = Rows[editor[u].row]]_talkVars

=============================================================================
