------------------------------ MODULE MCCrawl ------------------------------
(***************************************************************************)
(* Five sources, one of each type, and three repositories that several of  *)
(* them reach.                                                             *)
(***************************************************************************)
EXTENDS Crawl

CONSTANTS a, b, c, a1, b1, b2, c1, d1, index, child, p1, p2, p3, p4, worker, request

None == [kind |-> "page", listed |-> <<>>, direct |-> <<>>, scan |-> TRUE, map |-> Nobody,
         pages |-> 0, cap |-> 2, perRepo |-> 2, min |-> "skills_only",
         paths |-> {a1, b1, b2, c1}, page |-> Nobody]

MCSources == <<"list", "directory", "repo", "search", "page">>

\* The list takes one repository and links a file the directory scans as well;
\* the directory takes one too, which must not be the one the list has taken.
MCConfig == [s \in {"list", "directory", "repo", "search", "page"} |->
    CASE s = "list" -> [None EXCEPT !.kind = "markdown_list", !.listed = <<a, b>>,
                                    !.direct = <<b1>>, !.cap = 1]
      [] s = "directory" -> [None EXCEPT !.kind = "web_directory", !.listed = <<a>>,
                                         !.map = index, !.pages = 2, !.cap = 1]
      [] s = "repo" -> [None EXCEPT !.kind = "github_repo", !.listed = <<a>>, !.cap = 1,
                                    !.min = "skills_focused"]
      [] s = "search" -> [None EXCEPT !.kind = "github_search", !.listed = <<b, c, a>>]
      [] OTHER -> [None EXCEPT !.page = d1]]

\* a is good enough for the single-repository source only.
MCProfile == [repo \in {a, b, c} |->
    CASE repo = a -> [skills |-> 1, canonical |-> 1, noise |-> 0, keywords |-> 3, files |-> 9]
      [] OTHER -> [skills |-> 5, canonical |-> 5, noise |-> 0, keywords |-> 1, files |-> 9]]

MCFiles == [repo \in {a, b, c} |->
    CASE repo = a -> <<a1>> [] repo = b -> <<b1, b2>> [] OTHER -> <<c1>>]

\* The budget of two pages ends before p3, which alone links c.
MCLocs == [m \in {index, child} |->
    IF m = index THEN <<child, p4, p1, index>> ELSE <<p1, p2, p3>>]
MCPages == [p \in {p1, p2, p3, p4} |-> CASE p = p2 -> {b} [] p = p3 -> {c} [] OTHER -> {}]

MCRepos   == <<a, b, c>>
MCForeign == {p4}
MCAsked   == [r \in {worker, request} |->
    IF r = worker THEN {"list", "directory", "repo", "search", "page"} ELSE {"search"}]
MCLooping == {worker}
=============================================================================
