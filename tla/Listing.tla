------------------------------ MODULE Listing ------------------------------
(***************************************************************************)
(* The list of servers a search walks, as Run in                           *)
(* internal/workflow/engine.go collects it: from searches of Disboard by   *)
(* name, an invites file, invites given directly, and Disboard's tag       *)
(* pages.  The scraper of internal/disboard/scraper.go reads pages until   *)
(* it has enough, a page has nothing new, or there are no more.            *)
(***************************************************************************)
EXTENDS Targeting, SequencesExt

CONSTANTS
  Codes,     \* invite codes
  NameLimit, \* the servers asked for per name: 3
  Pages      \* what a page of Disboard may list

\* The rest of the command line: the number of names to search for, the invites
\* of the file and of the arguments, whether a tag was given, the limit.
ASSUME ListingAssumption ==
  /\ NameLimit \in Nat \ {0}
  /\ Pages \subseteq Seq(Codes) \ {<<>>}
  /\ \A r \in Requests :
       /\ r.names \in Nat /\ r.limit \in Nat \ {0}
       /\ r.file \in Seq(Codes) /\ r.direct \in Seq(Codes)
       /\ r.tag \in BOOLEAN

VARIABLES
  source,  \* the source that is collected from
  names,   \* the names that are still to be searched for
  asked,   \* a page has been asked for and not been read
  results, \* what the scraper has found so far
  servers  \* the servers collected: code and source

listingVars == <<source, names, asked, results, servers>>

ListingInit ==
  /\ source = "name" /\ names = request.names
  /\ asked = FALSE /\ results = <<>> /\ servers = <<>>

Sources == {"name", "file", "direct", "tag"}

CodesOf(list) == {list[i].code : i \in DOMAIN list}

\* Where codes has one that is neither seen nor earlier in codes.
Firsts(codes, seen) ==
  {i \in DOMAIN codes : codes[i] \notin seen /\ \A j \in 1 .. i - 1 : codes[j] # codes[i]}

\* The elements of a finite set of numbers, the least first.
Ascending(S) ==
  CHOOSE s \in SetToSeqs(S) : \A i, j \in DOMAIN s : i < j => s[i] < s[j]

\* The codes that are not seen yet, each once, in the order of their appearance.
NewCodes(codes, seen) ==
  LET at == Ascending(Firsts(codes, seen)) IN [n \in DOMAIN at |-> codes[at[n]]]

Tagged(codes, from) == [n \in DOMAIN codes |-> [code |-> codes[n], source |-> from]]

\* Defect: the codes seen are those of the source alone.
AddServersOfSource(list, codes, from) ==
  LET own == {list[i].code : i \in {j \in DOMAIN list : list[j].source = from}}
  IN  list \o Tagged(NewCodes(codes, own), from)

\* Codes the list does not have yet, each once.
AddServers(list, codes, from) == list \o Tagged(NewCodes(codes, CodesOf(list)), from)

-----------------------------------------------------------------------------
(* The scraper *)

\* Defect: the tag is asked for a full limit.
WantedInFull == IF source = "name" THEN NameLimit ELSE request.limit

\* How many servers the scraper is asked for.
Wanted == IF source = "name" THEN NameLimit ELSE request.limit - Len(servers)

Scraping ==
  /\ stage = "collect"
  /\ \/ source = "name" /\ names > 0
     \/ source = "tag" /\ request.tag /\ Len(servers) < request.limit

\* The results with the new codes of a page, up to what is wanted.
WithPage(page) ==
  LET all == results \o NewCodes(page, ToSet(results))
  IN  IF Len(all) <= Wanted THEN all ELSE SubSeq(all, 1, Wanted)

\* The engine takes what the scraper returned, and the next name or source.
Collect(codes) ==
  /\ servers' = AddServers(servers, codes, source)
  /\ results' = <<>> /\ asked' = FALSE
  /\ IF source = "name" THEN names' = names - 1 /\ UNCHANGED <<stage, source>>
     ELSE /\ stage' = "listed"
          /\ UNCHANGED <<source, names>>

AskForPage ==
  /\ Scraping /\ ~asked
  /\ asked' = TRUE
  /\ UNCHANGED <<stage, source, names, results, servers>>

ReadOn(page) ==
  /\ results' = WithPage(page) /\ asked' = FALSE
  /\ UNCHANGED <<stage, source, names, servers>>

\* Defect: a page without anything new is not the last.
ReadPageAgain(page) ==
  /\ Scraping /\ asked
  /\ IF Len(WithPage(page)) = Wanted THEN Collect(WithPage(page)) ELSE ReadOn(page)

ReadPage(page) ==
  /\ Scraping /\ asked
  /\ IF WithPage(page) = results \/ Len(WithPage(page)) = Wanted
     THEN Collect(WithPage(page))
     ELSE ReadOn(page)

\* 404, or a page without servers.
NoMorePages ==
  /\ Scraping /\ asked
  /\ Collect(results)

\* Defect: what the earlier pages listed is lost with the page that failed.
PageFailsWithAll ==
  /\ Scraping
  /\ Collect(<<>>)

\* A request or a page fails, or the context is done, between two pages too.
\* A search by name is given up with its results; a tag's earlier pages are kept.
PageFails ==
  /\ Scraping
  /\ Collect(IF source = "name" THEN <<>> ELSE results)

-----------------------------------------------------------------------------
(* The other sources *)

NamesSearched ==
  /\ stage = "collect" /\ source = "name" /\ names = 0
  /\ source' = "file"
  /\ UNCHANGED <<stage, names, asked, results, servers>>

\* No file given is a file without invites.
LoadInvitesFromFile ==
  /\ stage = "collect" /\ source = "file"
  /\ servers' = AddServers(servers, request.file, "file")
  /\ source' = "direct"
  /\ UNCHANGED <<stage, names, asked, results>>

\* The file cannot be read: Run returns.
InvitesFileFails ==
  /\ stage = "collect" /\ source = "file" /\ request.file # <<>>
  /\ stage' = "failed"
  /\ UNCHANGED listingVars

ParseDirectInvites ==
  /\ stage = "collect" /\ source = "direct"
  /\ servers' = AddServers(servers, request.direct, "direct")
  /\ source' = "tag"
  /\ UNCHANGED <<stage, names, asked, results>>

\* The list is full, or there is no tag.
NoTag ==
  /\ stage = "collect" /\ source = "tag"
  /\ ~request.tag \/ Len(servers) >= request.limit
  /\ stage' = "listed"
  /\ UNCHANGED listingVars

CollectStep ==
  \/ AskForPage \/ (\E page \in Pages : ReadPage(page)) \/ NoMorePages \/ PageFails
  \/ NamesSearched \/ LoadInvitesFromFile \/ InvitesFileFails
  \/ ParseDirectInvites \/ NoTag
=============================================================================
