-------------------------- MODULE MCBookMatching --------------------------
\* Two editions of different books, an audiobook and an e-book, with the
\* settings that matter for each.
EXTENDS BookMatching

CONSTANTS e1, e2

MCEditions == {e1, e2}
MCBookOf == [e \in MCEditions |-> IF e = e1 THEN "b1" ELSE "b2"]

Setting(format, incremental, syncOwned, dryRun) ==
  [format |-> format, includes |-> TRUE, incremental |-> incremental,
   syncOwned |-> syncOwned, recheck |-> TRUE, dryRun |-> dryRun, unread |-> "skip"]
MCProfiles == {Setting("audiobook", TRUE, TRUE, FALSE),
               Setting("ebook", TRUE, TRUE, FALSE),
               [Setting("ebook", FALSE, TRUE, TRUE) EXCEPT !.unread = "want"]}
MCCatalogues ==
  {[mapping |-> {}, easin |-> {}, isbn |-> {e1}, title |-> TRUE, alive |-> MCEditions],
   [mapping |-> {e2}, easin |-> {e1}, isbn |-> {e1}, title |-> FALSE, alive |-> MCEditions]}
Ids(asin, isbn) == [asin |-> asin, isbn |-> isbn]
MCFirstItems ==
  {[ids |-> Ids("valid", TRUE), target |-> "reading"],
   [ids |-> Ids("none", TRUE), target |-> "finished"],
   [ids |-> Ids("malformed", FALSE), target |-> "below"]}
=============================================================================
