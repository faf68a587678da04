-------------------------- MODULE DocumentRefinement --------------------------
(* The threads of DocumentManager implement the atomic saves of HeadHistory. *)
EXTENDS DocumentManager

CurrentHead == IF rows = {} THEN NoRow ELSE CHOOSE h \in rows : h \in Heads(rows)

History == INSTANCE HeadHistory WITH head <- CurrentHead, saved <- rows

\* DocumentManagerBean.java:38-149 under DocumentServiceImpl.java:67-95.  Whatever
\* its queries read and however often it is tried, a save takes effect in one
\* step, on the head of that moment (DocumentManagerBean.java:46), or not at all.
SavesAreAtomic == History!HSpec
=============================================================================
