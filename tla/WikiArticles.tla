---------------------------- MODULE WikiArticles ----------------------------
(* The articles of one wiki space: the tree they form, who may see them,   *)
(* their drafts, revisions and published texts, and the images in them.    *)
(*                                                                         *)
(* Source: src/server/utils/wiki/articles.ts, access.ts, grants.ts and     *)
(* images.ts with the routes under src/server/api/wiki.                    *)
(*                                                                         *)
(* Every route checks its request before it opens its transaction.  Here   *)
(* a request is one step: requests do not overlap.  What the actor may do  *)
(* is any choice of the request.  A text is what it is called by and the   *)
(* images it shows.  Titles, tags, positions among siblings, checklists in *)
(* texts and the interval of reviews are left out.                         *)
(*                                                                         *)
(* MaxRevisions bounds how often an article is published.                  *)
(***************************************************************************)
EXTENDS Naturals, Sequences

CONSTANTS
  Articles,   \* wiki_articles.id
  Root,       \* parent_id NULL
  Space,      \* the scope of the space's own grants
  Texts,      \* Markdown
  Blank,      \* the text of white space only
  NoText,     \* NULL
  Images,     \* files.id
  Refs,       \* the images that a text shows
  Subjects,   \* users, roles, positions, subdivisions and permissions
  Grants,     \* the grants that can be given
  MaxRevisions

None == 0
ReadLevel == 1
WriteLevel == 2
AdminLevel == 3
Levels == {None, ReadLevel, WriteLevel, AdminLevel}

Grant == [subject : Subjects, level : Levels \ {None}, include_descendants : BOOLEAN]

ASSUME WikiAssumption ==
  /\ Root \notin Articles /\ Space \notin Articles
  /\ {"unused", "gone"} \cap Articles = {}
  /\ Blank \in Texts /\ NoText \notin Texts
  /\ Refs \in [Texts -> SUBSET Images]
  /\ Grants \subseteq Grant /\ MaxRevisions \in Nat

VARIABLES
  status,     \* wiki_articles.status
  parent,     \* parent_id
  draft,      \* draft_md
  content,    \* content_md
  revisions,  \* wiki_article_revisions, in the order of their numbers
  image,      \* file_attachments: the article of each image
  grants      \* wiki_access_grants of each scope

vars == <<status, parent, draft, content, revisions, image, grants>>
texts == <<draft, content, revisions>>

Statuses == {"draft", "in_review", "published", "archived"}
Scopes == Articles \cup {Space}
Live == {a \in Articles : status[a] \in Statuses}

Init ==
  /\ status = [a \in Articles |-> "unused"]
  /\ parent = [a \in Articles |-> Root]
  /\ draft = [a \in Articles |-> NoText]
  /\ content = [a \in Articles |-> NoText]
  /\ revisions = [a \in Articles |-> <<>>]
  /\ image = [f \in Images |-> "unused"]
  /\ grants = [s \in Scopes |-> {}]

-----------------------------------------------------------------------------
(* The tree.                                                               *)

\* What is reached by following parent_id from x: the least set that has x and,
\* with an article, its parent.
Upward(x) ==
  {y \in Articles : \A S \in SUBSET Articles :
     x \in S /\ (\A z \in S : parent[z] \in Articles => parent[z] \in S) => y \in S}

\* The ancestors of an article; the walk stops when it comes back to it.
Ancestors(a) == Upward(a) \ {a}

ValidParent_notItself(a, p) == p # Root => p \in Live /\ a # p

\* validateParent
ValidParent(a, p) == p # Root => p \in Live /\ a \notin Upward(p)

\* An article and what is below it.
Below(a) == {b \in Live : a \in Upward(b)}

collectSubtreeIds_alone(a) == {a}

collectSubtreeIds(a) == Below(a)

-----------------------------------------------------------------------------
(* Who may see and edit an article.                                        *)

\* collectApplicableGrants
Applicable(a) ==
  grants[a] \cup {g \in grants[Space] \cup UNION {grants[b] : b \in Ancestors(a)} :
                    g.include_descendants}

\* getEffectiveLevel is at least this.  A scope without grants may be read by all.
HasLevel(viewer, a, level) ==
  \/ viewer.globalLevel >= level
  \/ \E g \in Applicable(a) : g.subject \in viewer.subjects /\ g.level >= level
  \/ level = ReadLevel /\ Applicable(a) = {}

Viewers == [subjects : SUBSET Subjects, globalLevel : Levels \ {ReadLevel}]

\* The rows that buildVisibleTree lets through.
Visible(viewer, includeDrafts) ==
  {a \in Live :
     /\ HasLevel(viewer, a, ReadLevel)
     /\ status[a] = "published" \/ (includeDrafts /\ HasLevel(viewer, a, WriteLevel))}

Tops_rootsOnly(rows) == {a \in rows : parent[a] = Root}

\* "An article whose parent is hidden is re-rooted rather than dropped".
Tops(rows) == {a \in rows : parent[a] \notin rows}

\* What flattenTree meets from the top articles on: the least set that has them
\* and, with an article, its children.
Shown(rows) ==
  {a \in rows : \A S \in SUBSET rows :
     Tops(rows) \subseteq S /\ (\A b \in rows : parent[b] \in S => b \in S) => a \in S}

-----------------------------------------------------------------------------
(* Requests.                                                               *)

CreateArticle(a, p, text) ==
  /\ status[a] = "unused"
  /\ p # Root => p \in Live
  /\ status' = [status EXCEPT ![a] = "draft"]
  /\ parent' = [parent EXCEPT ![a] = p]
  /\ draft' = [draft EXCEPT ![a] = text]
  /\ UNCHANGED <<content, revisions, image, grants>>

\* PUT: the parent, and the draft if the form has one.
SaveArticle(a, p, text) ==
  /\ a \in Live /\ ValidParent(a, p)
  /\ parent' = [parent EXCEPT ![a] = p]
  /\ draft' = [draft EXCEPT ![a] = text]
  /\ UNCHANGED <<status, content, revisions, image, grants>>

\* Each item is checked against the tree as it was.
ReorderArticles(items) ==
  /\ DOMAIN items \subseteq Live
  /\ \A a \in DOMAIN items : ValidParent(a, items[a])
  /\ parent' = [a \in Articles |-> IF a \in DOMAIN items THEN items[a] ELSE parent[a]]
  /\ UNCHANGED <<status, texts, image, grants>>

\* draft_md ?? content_md ?? ''
Current(a) ==
  IF draft[a] # NoText THEN draft[a] ELSE IF content[a] # NoText THEN content[a] ELSE Blank

SubmitReview(a) ==
  /\ a \in Live /\ Current(a) # Blank
  /\ status' = [status EXCEPT ![a] = "in_review"]
  /\ UNCHANGED <<parent, texts, image, grants>>

\* loadArticleImageIds
ImagesOf(a) == {f \in Images : image[f] = a}

PublishArticle(a) ==
  /\ a \in Live /\ Len(revisions[a]) < MaxRevisions
  /\ Current(a) # Blank /\ Refs[Current(a)] \subseteq ImagesOf(a)
  /\ revisions' = [revisions EXCEPT ![a] = Append(@, Current(a))]
  /\ content' = [content EXCEPT ![a] = Current(a)]
  /\ draft' = [draft EXCEPT ![a] = NoText]
  /\ status' = [status EXCEPT ![a] = "published"]
  /\ UNCHANGED <<parent, image, grants>>

RestoreRevision(a, n) ==
  /\ a \in Live /\ n \in DOMAIN revisions[a]
  /\ draft' = [draft EXCEPT ![a] = revisions[a][n]]
  /\ UNCHANGED <<status, parent, content, revisions, image, grants>>

ArchiveArticle(a) ==
  /\ a \in Live
  /\ status' = [status EXCEPT ![a] = "archived"]
  /\ UNCHANGED <<parent, texts, image, grants>>

Cascade_none(a) == {a}

\* The rows that the database deletes with an article's (fk parent_id).
Cascade(a) == Below(a)

Without(f, S, value) == [x \in DOMAIN f |-> IF x \in S THEN value ELSE f[x]]

\* hard: the article with everything below it.  Its images stay where they are.
DeleteArticle(a) ==
  /\ a \in Live
  /\ status' = Without(status, Cascade(a), "gone")
  /\ parent' = Without(parent, Cascade(a), Root)
  /\ draft' = Without(draft, Cascade(a), NoText)
  /\ content' = Without(content, Cascade(a), NoText)
  /\ revisions' = Without(revisions, Cascade(a), <<>>)
  /\ grants' = Without(grants, collectSubtreeIds(a), {})
  /\ UNCHANGED image

UploadImage(f, a) ==
  /\ image[f] = "unused" /\ a \in Live
  /\ image' = [image EXCEPT ![f] = a]
  /\ UNCHANGED <<status, parent, texts, grants>>

UsedImages_draftOnly(a) == UNION {Refs[text] : text \in {draft[a]} \ {NoText}}

\* loadArticleImageUsage: "Refused while the saved draft or the published version
\* still shows it; older revisions that show it are accepted".
UsedImages(a) == UNION {Refs[text] : text \in {draft[a], content[a]} \ {NoText}}

DeleteImage(f, a) ==
  /\ a \in Live /\ image[f] = a
  /\ f \notin UsedImages(a)
  /\ image' = [image EXCEPT ![f] = "gone"]
  /\ UNCHANGED <<status, parent, texts, grants>>

\* uq_wiki_grant: a subject has a level once in a scope.
AddGrant(s, g) ==
  /\ s \in Live \cup {Space}
  /\ \A h \in grants[s] : <<h.subject, h.level>> # <<g.subject, g.level>>
  /\ grants' = [grants EXCEPT ![s] = @ \cup {g}]
  /\ UNCHANGED <<status, parent, texts, image>>

RemoveGrant(s, g) ==
  /\ s \in Live \cup {Space} /\ g \in grants[s]
  /\ grants' = [grants EXCEPT ![s] = @ \ {g}]
  /\ UNCHANGED <<status, parent, texts, image>>
-----------------------------------------------------------------------------
\* The tree sidebar sends the children of one parent.
Next ==
  \/ \E a \in Articles, p \in Articles \cup {Root} :
       \/ \E text \in Texts : CreateArticle(a, p, text)
       \/ \E text \in Texts \cup {draft[a]} : SaveArticle(a, p, text)
  \/ \E siblings \in SUBSET Articles, p \in Articles \cup {Root} :
       ReorderArticles([a \in siblings |-> p])
  \/ \E a \in Articles :
       \/ SubmitReview(a) \/ PublishArticle(a) \/ ArchiveArticle(a) \/ DeleteArticle(a)
       \/ \E n \in 1 .. MaxRevisions : RestoreRevision(a, n)
       \/ \E f \in Images : UploadImage(f, a) \/ DeleteImage(f, a)
  \/ \E s \in Scopes, g \in Grants : AddGrant(s, g) \/ RemoveGrant(s, g)

Spec == Init /\ [][Next]_vars
-----------------------------------------------------------------------------
(* Properties.                                                             *)

\* Articles, texts, images and grants are well-formed; a parent is an article that
\* exists, and what does not exist has no text and no parent (init.sql 683-763).
TypeOK ==
  /\ status \in [Articles -> Statuses \cup {"unused", "gone"}]
  /\ parent \in [Articles -> Articles \cup {Root}]
  /\ \A a \in Articles : parent[a] # Root => a \in Live /\ parent[a] \in Live
  /\ draft \in [Articles -> Texts \cup {NoText}]
  /\ content \in [Articles -> (Texts \ {Blank}) \cup {NoText}]
  /\ revisions \in [Articles -> Seq(Texts \ {Blank})]
  /\ \A a \in Articles \ Live : draft[a] = NoText /\ revisions[a] = <<>>
  /\ image \in [Images -> Articles \cup {"unused", "gone"}]
  /\ grants \in [Scopes -> SUBSET Grants]

\* No article is above itself: going up always ends at a root.
Forest ==
  \A S \in SUBSET Articles : S # {} => \E a \in S : parent[a] \notin S

\* However articles are created, moved, sorted, hidden and deleted: whoever looks at
\* the tree finds every article in it that is published and readable to them, and with
\* drafts every one they may edit (buildVisibleTree, articles.ts 112-126).
TreeShowsEverything ==
  \A viewer \in Viewers, includeDrafts \in BOOLEAN :
    Shown(Visible(viewer, includeDrafts)) = Visible(viewer, includeDrafts)

\* The published text is the text of the last revision.
PublishedIsLatestRevision ==
  \A a \in Articles :
    content[a] = IF revisions[a] = <<>> THEN NoText ELSE revisions[a][Len(revisions[a])]

\* The images in the published text are attached to the article.
PublishedImagesExist ==
  \A a \in Live : content[a] # NoText => Refs[content[a]] \subseteq ImagesOf(a)

\* What is published stays published as it was reviewed: it is the latest revision,
\* whatever has been drafted, restored, archived or submitted since (publish.post.ts,
\* restore.post.ts), and every image it shows is there and belongs to the article,
\* although drafts and older revisions may show images that were deleted
\* (images.ts 111-118, publish.post.ts 52-57).
PublishedTextsStand == PublishedIsLatestRevision /\ PublishedImagesExist

\* Nobody keeps a grant for an article that is gone, also when it went with one above
\* it (grants.ts 309-324: the scope of a grant is no foreign key).
GrantsHaveScope ==
  \A a \in Articles : grants[a] # {} => a \in Live
=============================================================================
