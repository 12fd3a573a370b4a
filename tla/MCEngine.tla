------------------------------ MODULE MCEngine ------------------------------
EXTENDS Engine, Alerts

MCFolderOf == [f \in Files |-> IF f = "a" THEN "in" ELSE "kept"]
MCFolders  == <<"in", "kept">>
MCUrlOf    == [x \in Items |-> IF x = "x" THEN "u" ELSE "v"]

Feed(url, wants, dry) == [url |-> url, wants |-> wants, dryRun |-> dry]

\* All items of one feed; that feed twice, the second time as a dry run.  An alert of the
\* other url is of a feed that is not configured.
MCFeedConfigs == {<<Feed("u", {"x"}, FALSE)>>,
                  <<Feed("u", {"x"}, FALSE), Feed("u", {"x"}, TRUE)>>}
=============================================================================
