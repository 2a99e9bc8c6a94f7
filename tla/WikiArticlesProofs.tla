------------------------- MODULE WikiArticlesProofs -------------------------
(***************************************************************************)
(* Theorems about WikiArticles for every set of articles, texts, images,   *)
(* subjects and grants: the tree stays a forest of any size, and so nobody *)
(* misses an article in it.                                                *)
(***************************************************************************)
EXTENDS WikiArticles, TLAPS

-----------------------------------------------------------------------------
(* Going up.                                                               *)

\* An article is on its own way up.
LEMMA UpwardStarts ==
    ASSUME NEW x \in Articles
    PROVE  x \in Upward(x)
  BY DEF Upward

\* The way up goes on to the parent.
LEMMA UpwardGoesOn ==
    ASSUME NEW x \in Articles, NEW z \in Upward(x), parent[z] \in Articles
    PROVE  parent[z] \in Upward(x)
<1> SUFFICES ASSUME NEW S \in SUBSET Articles, x \in S,
                    \A y \in S : parent[y] \in Articles => parent[y] \in S
             PROVE  parent[z] \in S
  BY DEF Upward
<1>1. z \in S
  BY DEF Upward
<1>2. QED
  BY <1>1

\* What is above the parent is above the article.
LEMMA UpwardOfParent ==
    ASSUME NEW x \in Articles, parent[x] \in Articles, NEW y \in Upward(parent[x])
    PROVE  y \in Upward(x)
<1> SUFFICES ASSUME NEW S \in SUBSET Articles, x \in S,
                    \A z \in S : parent[z] \in Articles => parent[z] \in S
             PROVE  y \in S
  BY DEF Upward
<1>1. parent[x] \in S
  OBVIOUS
<1>2. QED
  BY <1>1 DEF Upward

\* An article that is deleted is among the rows that go.
LEMMA CascadeStarts ==
    ASSUME NEW a \in Live
    PROVE  a \in Cascade(a)
<1>1. a \in Articles
  BY DEF Live
<1>2. QED
  BY <1>1, UpwardStarts DEF Cascade, Below

\* Where the parent goes, the article goes too.
LEMMA CascadeGoesOn ==
    ASSUME TypeOK, NEW a \in Live, NEW b \in Articles, parent[b] \in Cascade(a)
    PROVE  b \in Cascade(a)
<1>1. parent[b] \in Live /\ a \in Upward(parent[b])
  BY DEF Cascade, Below
<1>2. parent[b] \in Articles /\ parent[b] # Root
  BY <1>1, WikiAssumption DEF Live
<1>3. b \in Live
  BY <1>2 DEF TypeOK
<1>4. a \in Upward(b)
  BY <1>1, <1>2, UpwardOfParent
<1>5. QED
  BY <1>3, <1>4 DEF Cascade, Below

\* A path that follows parents and never leaves a set of articles there is none: moving
\* articles to a place that none of them is above keeps it so.
LEMMA MoveKeepsForest ==
    ASSUME Forest, NEW D \in SUBSET Articles, NEW p,
           p # Root => p \in Articles /\ \A a \in D : a \notin Upward(p),
           parent' = [a \in Articles |-> IF a \in D THEN p ELSE parent[a]]
    PROVE  Forest'
<1> SUFFICES ASSUME NEW S \in SUBSET Articles, S # {}, \A a \in S : parent'[a] \in S
             PROVE  FALSE
  BY DEF Forest
<1>1. CASE S \cap D = {}
  <2>1. \A a \in S : parent[a] \in S
    BY <1>1
  <2>2. QED
    BY <2>1 DEF Forest
<1>2. CASE S \cap D # {}
  <2>1. p \in S /\ p \in Articles /\ p # Root
    BY <1>2, WikiAssumption
  <2> DEFINE T == S \cap Upward(p)
  <2>2. p \in T
    BY <2>1, UpwardStarts
  <2>3. ASSUME NEW z \in T PROVE parent[z] \in T
    <3>1. z \notin D
      BY <2>1
    <3>2. parent[z] \in S
      BY <3>1
    <3>3. QED
      BY <2>1, <3>2, UpwardGoesOn
  <2>4. QED
    BY <2>2, <2>3 DEF Forest
<1>3. QED
  BY <1>1, <1>2

-----------------------------------------------------------------------------
(* The types.                                                              *)

\* The text that is published or reviewed is one of the texts.
LEMMA CurrentIsText ==
    ASSUME TypeOK, NEW a \in Articles
    PROVE  Current(a) \in Texts
  BY WikiAssumption DEF TypeOK, Current

\* A hard deletion leaves no article under one that is gone.
LEMMA DeleteKeepsTypes ==
    ASSUME TypeOK, NEW a \in Articles, DeleteArticle(a)
    PROVE  TypeOK'
<1>1. a \in Live
  BY DEF DeleteArticle
<1> DEFINE C == Cascade(a)
<1>2. /\ status' = [b \in Articles |-> IF b \in C THEN "gone" ELSE status[b]]
      /\ parent' = [b \in Articles |-> IF b \in C THEN Root ELSE parent[b]]
      /\ draft' = [b \in Articles |-> IF b \in C THEN NoText ELSE draft[b]]
      /\ content' = [b \in Articles |-> IF b \in C THEN NoText ELSE content[b]]
      /\ revisions' = [b \in Articles |-> IF b \in C THEN <<>> ELSE revisions[b]]
  BY DEF DeleteArticle, Without, TypeOK
<1>3. grants' \in [Scopes -> SUBSET Grants]
  BY DEF DeleteArticle, Without, TypeOK
<1>4. ASSUME NEW b \in Articles, parent'[b] # Root
      PROVE  b \in Live' /\ parent'[b] \in Live'
  <2>1. b \notin C /\ parent'[b] = parent[b]
    BY <1>2, <1>4
  <2>2. parent[b] \notin C
    BY <1>1, <2>1, CascadeGoesOn
  <2>3. b \in Live /\ parent[b] \in Live
    BY <1>4, <2>1 DEF TypeOK
  <2>4. status'[b] = status[b] /\ status'[parent[b]] = status[parent[b]]
    BY <1>2, <2>1, <2>2, <2>3 DEF Live
  <2>5. QED
    BY <2>1, <2>3, <2>4 DEF Live
<1>5. ASSUME NEW b \in Articles \ Live' PROVE draft'[b] = NoText /\ revisions'[b] = <<>>
  <2>1. CASE b \in C
    BY <1>2, <2>1
  <2>2. CASE b \notin C
    <3>1. b \notin Live
      BY <1>2, <2>2 DEF Live
    <3>2. QED
      BY <1>2, <2>2, <3>1 DEF TypeOK
  <2>3. QED
    BY <2>1, <2>2
<1>6. /\ status' \in [Articles -> Statuses \cup {"unused", "gone"}]
      /\ parent' \in [Articles -> Articles \cup {Root}]
      /\ draft' \in [Articles -> Texts \cup {NoText}]
      /\ content' \in [Articles -> (Texts \ {Blank}) \cup {NoText}]
  BY <1>2 DEF TypeOK
<1>7. revisions' \in [Articles -> Seq(Texts \ {Blank})]
  <2>1. <<>> \in Seq(Texts \ {Blank})
    OBVIOUS
  <2>2. QED
    BY <1>2, <2>1 DEF TypeOK
<1>8. image' = image
  BY DEF DeleteArticle
<1>9. QED
  BY <1>3, <1>4, <1>5, <1>6, <1>7, <1>8 DEF TypeOK

\* Publishing keeps the types.
LEMMA PublishKeepsTypes ==
    ASSUME TypeOK, NEW a \in Articles, PublishArticle(a)
    PROVE  TypeOK'
<1>1. Current(a) \in Texts \ {Blank}
  BY CurrentIsText DEF PublishArticle
<1>2. Live' = Live
  BY DEF PublishArticle, Live, TypeOK, Statuses
<1>3. revisions' \in [Articles -> Seq(Texts \ {Blank})]
  <2>1. Append(revisions[a], Current(a)) \in Seq(Texts \ {Blank})
    BY <1>1 DEF TypeOK
  <2>2. QED
    BY <2>1 DEF PublishArticle, TypeOK
<1>4. /\ content' \in [Articles -> (Texts \ {Blank}) \cup {NoText}]
      /\ draft' \in [Articles -> Texts \cup {NoText}]
      /\ status' \in [Articles -> Statuses \cup {"unused", "gone"}]
  BY <1>1 DEF PublishArticle, TypeOK, Statuses
<1>5. \A b \in Articles \ Live : draft'[b] = draft[b] /\ revisions'[b] = revisions[b]
  BY DEF PublishArticle, TypeOK
<1>6. parent' = parent /\ image' = image /\ grants' = grants
  BY DEF PublishArticle
<1>7. QED
  BY <1>2, <1>3, <1>4, <1>5, <1>6 DEF TypeOK

\* Every other request keeps the types.
LEMMA TypeStep == TypeOK /\ [Next]_vars => TypeOK'
<1> SUFFICES ASSUME TypeOK, [Next]_vars PROVE TypeOK'
  OBVIOUS
<1>1. ASSUME NEW a \in Articles, NEW p \in Articles \cup {Root}, NEW text \in Texts,
             CreateArticle(a, p, text)
      PROVE  TypeOK'
  <2>1. Live' = Live \cup {a}
    BY <1>1 DEF CreateArticle, Live, TypeOK, Statuses
  <2>2. \A b \in Articles : parent'[b] # Root => b \in Live' /\ parent'[b] \in Live'
    BY <1>1, <2>1 DEF CreateArticle, TypeOK
  <2>3. \A b \in Articles \ Live' : draft'[b] = NoText /\ revisions'[b] = <<>>
    BY <1>1, <2>1 DEF CreateArticle, TypeOK
  <2>4. QED
    BY <1>1, <2>2, <2>3 DEF CreateArticle, TypeOK, Statuses
<1>2. ASSUME NEW a \in Articles, NEW p \in Articles \cup {Root}, NEW text \in Texts \cup {draft[a]},
             SaveArticle(a, p, text)
      PROVE  TypeOK'
  <2>1. Live' = Live /\ a \in Live /\ (p # Root => p \in Live)
    BY <1>2 DEF SaveArticle, Live, ValidParent
  <2>2. draft[a] \in Texts \cup {NoText}
    BY DEF TypeOK
  <2>3. QED
    BY <1>2, <2>1, <2>2 DEF SaveArticle, TypeOK
<1>3. ASSUME NEW siblings \in SUBSET Articles, NEW p \in Articles \cup {Root},
             ReorderArticles([a \in siblings |-> p])
      PROVE  TypeOK'
  <2>1. /\ siblings \subseteq Live /\ Live' = Live
        /\ \A a \in siblings : p # Root => p \in Live
        /\ parent' = [a \in Articles |-> IF a \in siblings THEN p ELSE parent[a]]
    BY <1>3 DEF ReorderArticles, ValidParent, Live
  <2>2. QED
    BY <1>3, <2>1 DEF ReorderArticles, TypeOK, texts
<1>4. ASSUME NEW a \in Articles, SubmitReview(a) \/ ArchiveArticle(a) PROVE TypeOK'
  <2>1. Live' = Live
    BY <1>4 DEF SubmitReview, ArchiveArticle, Live, TypeOK, Statuses
  <2>2. QED
    BY <1>4, <2>1 DEF SubmitReview, ArchiveArticle, TypeOK, texts, Statuses
<1>5. ASSUME NEW a \in Articles, NEW n \in 1 .. MaxRevisions, RestoreRevision(a, n) PROVE TypeOK'
  <2>1. Live' = Live /\ a \in Live
    BY <1>5 DEF RestoreRevision, Live
  <2>2. revisions[a][n] \in Texts
    BY <1>5 DEF RestoreRevision, TypeOK
  <2>3. QED
    BY <1>5, <2>1, <2>2 DEF RestoreRevision, TypeOK
<1>6. ASSUME NEW a \in Articles, NEW f \in Images, UploadImage(f, a) \/ DeleteImage(f, a)
      PROVE  TypeOK'
  <2>1. Live' = Live
    BY <1>6 DEF UploadImage, DeleteImage, Live
  <2>2. QED
    BY <1>6, <2>1 DEF UploadImage, DeleteImage, TypeOK, texts
<1>7. ASSUME NEW s \in Scopes, NEW g \in Grants, AddGrant(s, g) \/ RemoveGrant(s, g) PROVE TypeOK'
  <2>1. Live' = Live
    BY <1>7 DEF AddGrant, RemoveGrant, Live
  <2>2. QED
    BY <1>7, <2>1 DEF AddGrant, RemoveGrant, TypeOK, texts
<1>8. CASE UNCHANGED vars
  BY <1>8 DEF vars, TypeOK, Live
<1>9. QED
  BY <1>1, <1>2, <1>3, <1>4, <1>5, <1>6, <1>7, <1>8, DeleteKeepsTypes, PublishKeepsTypes DEF Next

\* Every space starts empty.
LEMMA InitTypes == Init => TypeOK
<1> SUFFICES ASSUME Init PROVE TypeOK
  OBVIOUS
<1>1. <<>> \in Seq(Texts \ {Blank})
  OBVIOUS
<1>2. Live = {}
  BY DEF Init, Live, Statuses
<1>3. QED
  BY <1>1, <1>2 DEF Init, TypeOK

\* Articles, texts, images and grants stay well-formed; no article is under one that
\* does not exist.
THEOREM WikiTypeCorrect == Spec => []TypeOK
  BY InitTypes, TypeStep, PTL DEF Spec

-----------------------------------------------------------------------------
(* The tree.                                                               *)

\* A new article closes no circle: nothing is under it yet.
LEMMA CreateKeepsForest ==
    ASSUME TypeOK, Forest, NEW a \in Articles, NEW p \in Articles \cup {Root},
           NEW text, CreateArticle(a, p, text)
    PROVE  Forest'
<1> SUFFICES ASSUME NEW S \in SUBSET Articles, S # {}, \A b \in S : parent'[b] \in S
             PROVE  FALSE
  BY DEF Forest
<1>1. a \notin Live /\ (p # Root => p \in Live)
  BY DEF CreateArticle, Live, Statuses
<1>2. parent' = [b \in Articles |-> IF b = a THEN p ELSE parent[b]]
  BY DEF CreateArticle, TypeOK
<1>3. \A b \in Articles : parent[b] # a
  BY <1>1, WikiAssumption DEF TypeOK
<1> DEFINE T == S \ {a}
<1>4. T # {}
  <2>1. CASE a \in S
    <3>1. p \in S /\ p # Root
      BY <1>2, <2>1, WikiAssumption
    <3>2. QED
      BY <1>1, <3>1
  <2>2. QED
    BY <2>1
<1>5. \A b \in T : parent[b] \in T
  BY <1>2, <1>3
<1>6. QED
  BY <1>4, <1>5 DEF Forest

\* Cutting off what is deleted closes no circle.
LEMMA DeleteKeepsForest ==
    ASSUME TypeOK, Forest, NEW a \in Articles, DeleteArticle(a)
    PROVE  Forest'
<1> SUFFICES ASSUME NEW S \in SUBSET Articles, S # {}, \A b \in S : parent'[b] \in S
             PROVE  FALSE
  BY DEF Forest
<1>1. \A b \in Articles : parent'[b] = IF b \in Cascade(a) THEN Root ELSE parent[b]
  BY DEF DeleteArticle, Without, TypeOK
<1>2. \A b \in S : parent[b] \in S
  BY <1>1, WikiAssumption
<1>3. QED
  BY <1>2 DEF Forest

\* No request makes a circle.
LEMMA ForestStep == TypeOK /\ Forest /\ [Next]_vars => Forest'
<1> SUFFICES ASSUME TypeOK, Forest, [Next]_vars PROVE Forest'
  OBVIOUS
<1>1. ASSUME NEW a \in Articles, NEW p \in Articles \cup {Root}, NEW text, SaveArticle(a, p, text)
      PROVE  Forest'
  <2>1. p # Root => p \in Articles /\ a \notin Upward(p)
    BY <1>1 DEF SaveArticle, ValidParent
  <2>2. parent' = [b \in Articles |-> IF b \in {a} THEN p ELSE parent[b]]
    BY <1>1 DEF SaveArticle, TypeOK
  <2>3. QED
    BY <2>1, <2>2, MoveKeepsForest
<1>2. ASSUME NEW siblings \in SUBSET Articles, NEW p \in Articles \cup {Root},
             ReorderArticles([a \in siblings |-> p])
      PROVE  Forest'
  <2>1. /\ \A a \in siblings : p # Root => p \in Articles /\ a \notin Upward(p)
        /\ parent' = [a \in Articles |-> IF a \in siblings THEN p ELSE parent[a]]
    BY <1>2 DEF ReorderArticles, ValidParent
  <2>2. p # Root => p \in Articles /\ \A a \in siblings : a \notin Upward(p)
    BY <2>1
  <2>3. QED
    BY <2>1, <2>2, MoveKeepsForest
<1>3. ASSUME UNCHANGED parent PROVE Forest'
  BY <1>3 DEF Forest
<1>4. ASSUME NEW a \in Articles,
             \/ SubmitReview(a) \/ PublishArticle(a) \/ ArchiveArticle(a)
             \/ \E n \in 1 .. MaxRevisions : RestoreRevision(a, n)
             \/ \E f \in Images : UploadImage(f, a) \/ DeleteImage(f, a)
      PROVE  Forest'
  BY <1>3, <1>4 DEF SubmitReview, PublishArticle, ArchiveArticle, RestoreRevision, UploadImage,
                    DeleteImage
<1>5. ASSUME NEW s \in Scopes, NEW g \in Grants, AddGrant(s, g) \/ RemoveGrant(s, g) PROVE Forest'
  BY <1>3, <1>5 DEF AddGrant, RemoveGrant
<1>6. CASE UNCHANGED vars
  BY <1>3, <1>6 DEF vars
<1>7. QED
  BY <1>1, <1>2, <1>4, <1>5, <1>6, CreateKeepsForest, DeleteKeepsForest DEF Next

\* Going up from an article always ends at a root, however large the space is.
THEOREM WikiForestStays == Spec => []Forest
<1>1. Init => Forest
  BY WikiAssumption DEF Init, Forest
<1>2. QED
  BY <1>1, InitTypes, TypeStep, ForestStep, PTL DEF Spec

\* In a forest the walk from the top articles meets every row, whatever was hidden.
LEMMA ForestShowsRows ==
    ASSUME Forest, NEW rows \in SUBSET Articles
    PROVE  Shown(rows) = rows
<1>1. ASSUME NEW S \in SUBSET rows, Tops(rows) \subseteq S,
             \A b \in rows : parent[b] \in S => b \in S
      PROVE  rows \subseteq S
  <2>1. CASE rows \ S # {}
    <3>1. PICK a \in rows \ S : parent[a] \notin rows \ S
      BY <2>1 DEF Forest
    <3>2. a \notin Tops(rows) /\ parent[a] \notin S
      BY <1>1, <3>1
    <3>3. QED
      BY <3>1, <3>2 DEF Tops
  <2>2. QED
    BY <2>1
<1>2. QED
  BY <1>1 DEF Shown

\* Whoever looks at the tree, with whatever memberships and permissions, finds every
\* article in it that they may see.
THEOREM WikiTreeShowsEverything == Spec => []TreeShowsEverything
<1>1. Forest => TreeShowsEverything
  <2> SUFFICES ASSUME Forest, NEW viewer \in Viewers, NEW includeDrafts \in BOOLEAN
               PROVE  Shown(Visible(viewer, includeDrafts)) = Visible(viewer, includeDrafts)
    BY DEF TreeShowsEverything
  <2>1. Visible(viewer, includeDrafts) \in SUBSET Articles
    BY DEF Visible, Live
  <2>2. QED
    BY <2>1, ForestShowsRows
<1>2. QED
  BY <1>1, WikiForestStays, PTL

-----------------------------------------------------------------------------
(* What is published.                                                      *)

\* Only publishing and deleting change a revision or a published text.
LEMMA PublishedStep ==
  TypeOK /\ PublishedIsLatestRevision /\ [Next]_vars => PublishedIsLatestRevision'
<1> SUFFICES ASSUME TypeOK, PublishedIsLatestRevision, [Next]_vars
             PROVE  PublishedIsLatestRevision'
  OBVIOUS
<1>1. ASSUME UNCHANGED <<content, revisions>> PROVE PublishedIsLatestRevision'
  BY <1>1 DEF PublishedIsLatestRevision
<1>2. ASSUME NEW a \in Articles, PublishArticle(a) PROVE PublishedIsLatestRevision'
  <2> SUFFICES ASSUME NEW b \in Articles
               PROVE  content'[b] = IF revisions'[b] = <<>> THEN NoText
                                    ELSE revisions'[b][Len(revisions'[b])]
    BY DEF PublishedIsLatestRevision
  <2>1. CASE b = a
    <3>1. /\ revisions[a] \in Seq(Texts) /\ Current(a) \in Texts
          /\ revisions'[a] = Append(revisions[a], Current(a)) /\ content'[a] = Current(a)
      BY <1>2, CurrentIsText DEF PublishArticle, TypeOK
    <3>2. revisions'[a] # <<>> /\ revisions'[a][Len(revisions'[a])] = Current(a)
      BY <3>1
    <3>3. QED
      BY <2>1, <3>1, <3>2
  <2>2. CASE b # a
    BY <1>2, <2>2 DEF PublishArticle, TypeOK, PublishedIsLatestRevision
  <2>3. QED
    BY <2>1, <2>2
<1>3. ASSUME NEW a \in Articles, DeleteArticle(a) PROVE PublishedIsLatestRevision'
  BY <1>3 DEF DeleteArticle, Without, TypeOK, PublishedIsLatestRevision
<1>4. ASSUME NEW a \in Articles, NEW p, NEW text, CreateArticle(a, p, text) \/ SaveArticle(a, p, text)
      PROVE  PublishedIsLatestRevision'
  BY <1>1, <1>4 DEF CreateArticle, SaveArticle
<1>5. ASSUME NEW items, ReorderArticles(items) PROVE PublishedIsLatestRevision'
  BY <1>1, <1>5 DEF ReorderArticles, texts
<1>6. ASSUME NEW a \in Articles,
             \/ SubmitReview(a) \/ ArchiveArticle(a)
             \/ \E n \in 1 .. MaxRevisions : RestoreRevision(a, n)
             \/ \E f \in Images : UploadImage(f, a) \/ DeleteImage(f, a)
      PROVE  PublishedIsLatestRevision'
  BY <1>1, <1>6 DEF SubmitReview, ArchiveArticle, RestoreRevision, UploadImage, DeleteImage, texts
<1>7. ASSUME NEW s \in Scopes, NEW g \in Grants, AddGrant(s, g) \/ RemoveGrant(s, g)
      PROVE  PublishedIsLatestRevision'
  BY <1>1, <1>7 DEF AddGrant, RemoveGrant, texts
<1>8. CASE UNCHANGED vars
  BY <1>1, <1>8 DEF vars
<1>9. QED
  BY <1>2, <1>3, <1>4, <1>5, <1>6, <1>7, <1>8 DEF Next

\* What publishing checks, the removal of images leaves in place.
LEMMA ImagesStep ==
  /\ TypeOK /\ PublishedIsLatestRevision /\ PublishedImagesExist /\ [Next]_vars
  => PublishedImagesExist'
<1> SUFFICES ASSUME TypeOK, PublishedIsLatestRevision, PublishedImagesExist, [Next]_vars,
                    NEW b \in Live', content'[b] # NoText, NEW f \in Refs[content'[b]]
             PROVE  f \in Images /\ image'[f] = b
  BY DEF PublishedImagesExist, ImagesOf
<1>1. b \in Articles
  BY DEF Live
<1>2. ASSUME b \in Live, content'[b] = content[b] PROVE f \in Images /\ image[f] = b
  BY <1>2 DEF PublishedImagesExist, ImagesOf
<1>3. ASSUME NEW a \in Articles, NEW p, NEW text, CreateArticle(a, p, text)
      PROVE  f \in Images /\ image'[f] = b
  <2>1. a \notin Live /\ content' = content /\ image' = image
    BY <1>3 DEF CreateArticle, Live, Statuses
  <2>2. content[a] = NoText
    BY <2>1 DEF TypeOK, PublishedIsLatestRevision
  <2>3. b # a
    BY <2>1, <2>2
  <2>4. b \in Live
    BY <1>1, <1>3, <2>3 DEF CreateArticle, Live, TypeOK
  <2>5. QED
    BY <1>2, <2>1, <2>4
<1>4. ASSUME NEW a \in Articles, PublishArticle(a) PROVE f \in Images /\ image'[f] = b
  <2>1. CASE b = a
    BY <1>4, <2>1 DEF PublishArticle, TypeOK, ImagesOf
  <2>2. CASE b # a
    <3>1. b \in Live /\ content'[b] = content[b] /\ image' = image
      BY <1>1, <1>4, <2>2 DEF PublishArticle, Live, TypeOK
    <3>2. QED
      BY <1>2, <3>1
  <2>3. QED
    BY <2>1, <2>2
<1>5. ASSUME NEW a \in Articles, DeleteArticle(a) PROVE f \in Images /\ image'[f] = b
  <2>1. /\ content'[b] = IF b \in Cascade(a) THEN NoText ELSE content[b]
        /\ status'[b] = IF b \in Cascade(a) THEN "gone" ELSE status[b]
        /\ image' = image
    BY <1>1, <1>5 DEF DeleteArticle, Without, TypeOK
  <2>2. b \in Live /\ content'[b] = content[b]
    BY <1>1, <2>1 DEF Live
  <2>3. QED
    BY <1>2, <2>1, <2>2
<1>6. ASSUME NEW a \in Articles, NEW g \in Images, UploadImage(g, a)
      PROVE  f \in Images /\ image'[f] = b
  <2>1. b \in Live /\ content' = content
    BY <1>6 DEF UploadImage, Live, texts
  <2>2. f \in Images /\ image[f] = b
    BY <1>2, <2>1
  <2>3. f # g
    BY <1>1, <1>6, <2>2, WikiAssumption DEF UploadImage
  <2>4. QED
    BY <1>6, <2>2, <2>3 DEF UploadImage, TypeOK
<1>7. ASSUME NEW a \in Articles, NEW g \in Images, DeleteImage(g, a)
      PROVE  f \in Images /\ image'[f] = b
  <2>1. b \in Live /\ content' = content /\ image[g] = a /\ g \notin UsedImages(a)
    BY <1>7 DEF DeleteImage, Live, texts
  <2>2. f \in Images /\ image[f] = b
    BY <1>2, <2>1
  <2>3. b = a => f \in UsedImages(a)
    BY <2>1 DEF UsedImages
  <2>4. f # g
    BY <2>1, <2>2, <2>3
  <2>5. QED
    BY <1>7, <2>2, <2>4 DEF DeleteImage, TypeOK
<1>8. ASSUME NEW a \in Articles,
             \/ SubmitReview(a) \/ ArchiveArticle(a)
             \/ \E n \in 1 .. MaxRevisions : RestoreRevision(a, n)
             \/ \E p \in Articles \cup {Root}, text \in Texts \cup {draft[a]} : SaveArticle(a, p, text)
      PROVE  f \in Images /\ image'[f] = b
  <2>1. b \in Live
    BY <1>1, <1>8 DEF SubmitReview, ArchiveArticle, RestoreRevision, SaveArticle, Live, TypeOK
  <2>2. content' = content /\ image' = image
    BY <1>8 DEF SubmitReview, ArchiveArticle, RestoreRevision, SaveArticle, texts
  <2>3. QED
    BY <1>2, <2>1, <2>2
<1>9. ASSUME UNCHANGED <<status, content, image>> PROVE f \in Images /\ image'[f] = b
  BY <1>2, <1>9 DEF Live
<1>10. ASSUME NEW items, ReorderArticles(items) PROVE f \in Images /\ image'[f] = b
  BY <1>9, <1>10 DEF ReorderArticles, texts
<1>11. ASSUME NEW s \in Scopes, NEW g \in Grants, AddGrant(s, g) \/ RemoveGrant(s, g)
       PROVE  f \in Images /\ image'[f] = b
  BY <1>9, <1>11 DEF AddGrant, RemoveGrant, texts
<1>12. CASE UNCHANGED vars
  BY <1>9, <1>12 DEF vars
<1>13. QED
  BY <1>3, <1>4, <1>5, <1>6, <1>7, <1>8, <1>10, <1>11, <1>12 DEF Next

\* A published text is the latest revision and never shows an image that was removed.
THEOREM WikiPublishedTextsStand == Spec => []PublishedTextsStand
<1>1. Init => PublishedImagesExist
  BY DEF Init, PublishedImagesExist, Live, Statuses
<1>2. Init => PublishedIsLatestRevision
  BY DEF Init, PublishedIsLatestRevision
<1>3. QED
  BY <1>1, <1>2, InitTypes, TypeStep, PublishedStep, ImagesStep, PTL
     DEF Spec, PublishedTextsStand

-----------------------------------------------------------------------------
(* Grants.                                                                 *)

\* A deletion takes the grants of every article that goes.
LEMMA GrantsStep == TypeOK /\ GrantsHaveScope /\ [Next]_vars => GrantsHaveScope'
<1> SUFFICES ASSUME TypeOK, GrantsHaveScope, [Next]_vars,
                    NEW b \in Articles, grants'[b] # {}
             PROVE  b \in Live'
  BY DEF GrantsHaveScope
<1>1. b \in Scopes
  BY DEF Scopes
<1>2. ASSUME grants'[b] = grants[b], Live \subseteq Live' PROVE b \in Live'
  BY <1>2 DEF GrantsHaveScope
<1>3. ASSUME NEW a \in Articles, DeleteArticle(a) PROVE b \in Live'
  <2>1. /\ grants'[b] = IF b \in Below(a) THEN {} ELSE grants[b]
        /\ status'[b] = IF b \in Below(a) THEN "gone" ELSE status[b]
    BY <1>1, <1>3 DEF DeleteArticle, Without, TypeOK, Cascade, collectSubtreeIds
  <2>2. b \in Live
    BY <2>1 DEF GrantsHaveScope
  <2>3. QED
    BY <2>1, <2>2 DEF Live
<1>4. ASSUME NEW s \in Scopes, NEW g \in Grants, AddGrant(s, g) \/ RemoveGrant(s, g)
      PROVE  b \in Live'
  <2>1. status' = status /\ (b = s => b \in Live)
    BY <1>4, WikiAssumption DEF AddGrant, RemoveGrant
  <2>2. b # s => grants'[b] = grants[b]
    BY <1>1, <1>4 DEF AddGrant, RemoveGrant, TypeOK
  <2>3. QED
    BY <2>1, <2>2 DEF GrantsHaveScope, Live
<1>5. ASSUME NEW a \in Articles, NEW p, NEW text, CreateArticle(a, p, text) PROVE b \in Live'
  BY <1>2, <1>5 DEF CreateArticle, Live, TypeOK, Statuses
<1>6. ASSUME NEW a \in Articles, SubmitReview(a) \/ PublishArticle(a) \/ ArchiveArticle(a)
      PROVE  b \in Live'
  BY <1>2, <1>6 DEF SubmitReview, PublishArticle, ArchiveArticle, Live, TypeOK, Statuses
<1>7. ASSUME UNCHANGED <<status, grants>> PROVE b \in Live'
  BY <1>2, <1>7 DEF Live
<1>8. ASSUME NEW a \in Articles,
             \/ \E n \in 1 .. MaxRevisions : RestoreRevision(a, n)
             \/ \E f \in Images : UploadImage(f, a) \/ DeleteImage(f, a)
             \/ \E p \in Articles \cup {Root}, text \in Texts \cup {draft[a]} : SaveArticle(a, p, text)
      PROVE  b \in Live'
  BY <1>7, <1>8 DEF RestoreRevision, UploadImage, DeleteImage, SaveArticle
<1>9. ASSUME NEW items, ReorderArticles(items) PROVE b \in Live'
  BY <1>7, <1>9 DEF ReorderArticles
<1>10. CASE UNCHANGED vars
  BY <1>7, <1>10 DEF vars
<1>11. QED
  BY <1>3, <1>4, <1>5, <1>6, <1>8, <1>9, <1>10 DEF Next

\* No grant outlives its article.
THEOREM WikiGrantsHaveScope == Spec => []GrantsHaveScope
<1>1. Init => GrantsHaveScope
  BY DEF Init, GrantsHaveScope, Scopes
<1>2. QED
  BY <1>1, InitTypes, TypeStep, GrantsStep, PTL DEF Spec
=============================================================================
