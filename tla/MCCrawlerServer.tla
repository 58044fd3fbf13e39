--------------------------- MODULE MCCrawlerServer ---------------------------
(***************************************************************************)
(* Two calls of Fetch and a batch of three requests for two URLs.          *)
(***************************************************************************)
EXTENDS CrawlerServer

CONSTANTS u1, u2, batch1

MCRequests == [b \in Batches |-> <<u1, u2, u1>>]
MCAsked == [b \in Batches |-> 0]
=============================================================================
