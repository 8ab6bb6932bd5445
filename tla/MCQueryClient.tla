---------- MODULE MCQueryClient ----------
(* Three calls of the query client: a one-page answer and two answers of *)
(* several pages, two of the calls streaming and on the same resource. *)
EXTENDS QueryClient

CONSTANTS scan, list, rescan

MCQueries   == {scan, list, rescan}
MCQueriesPageCount == [q \in MCQueries |-> IF q = list THEN 1 ELSE 2]
MCQueriesStreaming == {scan, rescan}
MCQueriesResource  == [q \in MCQueries |-> IF q = list THEN "threads.list" ELSE "gallery.scan"]
MCAborters  == {scan}
====================
