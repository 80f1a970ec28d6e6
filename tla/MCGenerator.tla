------------------------------ MODULE MCGenerator ------------------------------
EXTENDS Generator

Entry(path, in, dir, art, area, names) ==
    [path |-> path, in |-> in, dir |-> dir, art |-> art, area |-> area, names |-> names]

\* One entry of each kind: a file that is there twice, a directory left out, a
\* directory and a file of pb, the template that holds the uuid, the one that is
\* renamed, and a file of the front-end, which is copied.
MCEntries == {
    Entry("LICENSE", "", FALSE, FALSE, "other", FALSE),
    Entry("LICENSE", "", FALSE, TRUE, "other", FALSE),
    Entry(".git", "", TRUE, FALSE, "git", FALSE),
    Entry("pb/session", "pb", TRUE, FALSE, "pb", FALSE),
    Entry("pb/session/session.proto", "pb/session", FALSE, TRUE, "pb", FALSE),
    Entry("script/conf.sh", "", FALSE, TRUE, "other", TRUE),
    Entry("bin/etc/example.jsonnet", "", FALSE, TRUE, "other", FALSE),
    Entry("view/package.json", "", FALSE, FALSE, "view", FALSE)}
===============================================================================
