------------------------- MODULE RepositoryContext -------------------------
(***************************************************************************)
(* The repository context of a prompt (bugagent/agent/repository.py): the  *)
(* listing of source files, the two parts of the guide, and the source     *)
(* snippets that fill what the guide leaves of the context's budget, and   *)
(* then the checks on the candidate test the model answers with.           *)
(*                                                                         *)
(* Sizes are numbers of bytes.  Which files and items rank before which    *)
(* depends on the ticket's words and is left open, but for the contract    *)
(* sources that rank before everything.  Parsing the files is left out: a  *)
(* file may yield any items.                                               *)
(***************************************************************************)
EXTENDS Integers, Sequences, FiniteSets, Functions

CONSTANTS
  FileTypes,     \* the files a repository may have: [kind, bytes]
  ItemSizes,     \* sizes of rendered API items and usage examples
  ManifestSizes, \* sizes of the standard manifests
  MaxFiles,      \* bound: Python files of a repository
  MaxItems,      \* bound: items either part of the guide may choose from
  FileLimit,     \* limit of list_python_files
  MaxFileBytes, MaxContextBytes, MaxApiBytes, MaxUsageBytes,
  Reserve,       \* for section headers
  MaxSnippets, MaxExamples

(* A contract source (tax.py, engine.py), another source file, a test, a
   generated test, a file below a sensitive or excluded directory, and a
   symbolic link that leaves the worktree. *)
Kinds == {"contract", "source", "test", "generated", "excluded", "outside"}

ASSUME RepositoryContextAssumption ==
  /\ FileTypes \subseteq [kind : Kinds, bytes : Nat]
  /\ ItemSizes \subseteq Nat \ {0} /\ ManifestSizes \subseteq Nat
  /\ {MaxFiles, MaxItems, MaxFileBytes, MaxContextBytes, MaxApiBytes, MaxUsageBytes, Reserve} \subseteq Nat
  /\ {FileLimit, MaxSnippets, MaxExamples} \subseteq Nat \ {0}

VARIABLES
  repo,       \* the repository's Python files in the order of their paths
  listed,     \* list_python_files: positions in repo, whose order is theirs
  api,        \* bytes of the API surface
  usage,      \* bytes of the usage examples
  manifests,  \* bytes of the manifests
  snippets,   \* positions in repo of the snippets
  candidate,  \* "none", "accepted" or "refused"
  pc

vars == <<repo, listed, api, usage, manifests, snippets, candidate, pc>>

SeqsUpTo(S, n) == UNION { [1..k -> S] : k \in 0..n }

(* There are two contract paths, engine.py before tax.py in the order of paths. *)
Init ==
  /\ repo \in SeqsUpTo(FileTypes, MaxFiles)
  /\ Cardinality({ i \in DOMAIN repo : repo[i].kind = "contract" }) <= 2
  /\ listed = {}
  /\ api = 0 /\ usage = 0 /\ manifests = 0
  /\ snippets = {}
  /\ candidate = "none"
  /\ pc = "list"

-----------------------------------------------------------------------------
(* The loop that all three selections share: take what still fits, in order,
   up to a number of entries.  Its value at n is what it has taken of the
   first n. *)
Used(sizes, taken) == SumFunction([i \in taken |-> sizes[i]])

(* Mutation: the loop ends at the first entry that does not fit. *)
Take_Break(sizes, budget, most) ==
  LET take[n \in 0..Len(sizes)] ==
        IF n = 0 THEN {}
        ELSE IF take[n - 1] = 1..(n - 1) /\ n <= most /\ Used(sizes, take[n - 1]) + sizes[n] <= budget
             THEN take[n - 1] \cup {n} ELSE take[n - 1]
  IN take[Len(sizes)]

Take(sizes, budget, most) ==
  LET take[n \in 0..Len(sizes)] ==
        IF n = 0 THEN {}
        ELSE IF Cardinality(take[n - 1]) < most /\ Used(sizes, take[n - 1]) + sizes[n] <= budget
             THEN take[n - 1] \cup {n} ELSE take[n - 1]
  IN take[Len(sizes)]

-----------------------------------------------------------------------------
(* list_python_files: the check for excluded directories resolves every path
   and raises for one that leaves the worktree, if the limit is not reached
   before it. *)
Visible == { i \in DOMAIN repo : repo[i].kind # "excluded" }

UpTo(n) == { i \in Visible : Cardinality({ k \in Visible : k < i }) < n }
Escapes(files) == \E i \in files : repo[i].kind = "outside"

ListFiles ==
  /\ pc = "list" /\ ~Escapes(UpTo(FileLimit))
  /\ listed' = UpTo(FileLimit)
  /\ pc' = "api"
  /\ UNCHANGED <<repo, api, usage, manifests, snippets, candidate>>

RaiseOutside ==
  /\ pc = "list" /\ Escapes(UpTo(FileLimit))
  /\ pc' = "raised"
  /\ UNCHANGED <<repo, listed, api, usage, manifests, snippets, candidate>>

Readable(i) == repo[i].bytes <= MaxFileBytes

(* The items of readable files of some kinds, ranked. *)
Items(kinds) ==
  IF \E i \in listed : Readable(i) /\ repo[i].kind \in kinds THEN SeqsUpTo(ItemSizes, MaxItems) ELSE {<<>>}

BuildApiSurface ==
  /\ pc = "api" /\ pc' = "usage"
  /\ \E items \in Items({"contract", "source"}) :
       api' = Used(items, Take(items, MaxApiBytes, Len(items)))
  /\ UNCHANGED <<repo, listed, usage, manifests, snippets, candidate>>

BuildUsageExamples ==
  /\ pc = "usage" /\ pc' = "manifests"
  /\ \E items \in Items({"test"}) : usage' = Used(items, Take(items, MaxUsageBytes, MaxExamples))
  /\ UNCHANGED <<repo, listed, api, manifests, snippets, candidate>>

Manifests == {"pyproject.toml", "pytest.ini", "requirements.txt"}

(* Every manifest of bounded size is shown as a whole. *)
ReadManifests ==
  /\ pc = "manifests" /\ pc' = "snippets"
  /\ \E found \in SUBSET Manifests : \E size \in [found -> ManifestSizes] :
       manifests' = SumFunction([m \in { f \in found : size[f] <= MaxFileBytes } |-> size[m]])
  /\ UNCHANGED <<repo, listed, api, usage, snippets, candidate>>

(* Bytes of the list of paths, one each. *)
GuideBytes == api + usage + manifests + Cardinality(listed) + Reserve

SnippetBudget == IF GuideBytes < MaxContextBytes THEN MaxContextBytes - GuideBytes ELSE 0

(* Mutation: contract sources rank like other files. *)
Ranked_Score(order) == TRUE

(* Contract sources first, tax.py before engine.py. *)
Ranked(order) ==
  \A i, k \in DOMAIN order :
    repo[order[k]].kind = "contract" /\ (repo[order[i]].kind = "contract" => order[i] < order[k]) => k <= i

(* Generated tests and files that cannot be read are passed over. *)
Showable == { i \in listed : repo[i].kind # "generated" /\ Readable(i) }

Rankings == { order \in Bijection(1..Cardinality(Showable), Showable) : Ranked(order) }

SelectSnippets ==
  /\ pc = "snippets" /\ pc' = "ask"
  /\ \E order \in Rankings :
       LET sizes == [i \in DOMAIN order |-> repo[order[i]].bytes]
       IN snippets' = { order[i] : i \in Take(sizes, SnippetBudget, MaxSnippets) }
  /\ UNCHANGED <<repo, listed, api, usage, manifests, candidate>>

(* validate_candidate on the model's answer: its place and name, its size,
   its statement and the operations it uses. *)
ValidateCandidate ==
  /\ pc = "ask" /\ pc' = "done"
  /\ \E checks \in [{"path", "name", "size", "stated", "allowed"} -> BOOLEAN] :
       candidate' = IF \A c \in DOMAIN checks : checks[c] THEN "accepted" ELSE "refused"
  /\ UNCHANGED <<repo, listed, api, usage, manifests, snippets>>

Next ==
  \/ ListFiles \/ RaiseOutside
  \/ BuildApiSurface \/ BuildUsageExamples \/ ReadManifests \/ SelectSnippets
  \/ ValidateCandidate

Spec == Init /\ [][Next]_vars

-----------------------------------------------------------------------------
Selected == pc \in {"ask", "done"}
SnippetBytes == SumFunction([i \in snippets |-> repo[i].bytes])

(* "Keep the pre-existing total context cap meaningful after adding the API
   guide" (repository.py): guide and snippets stay within the cap together,
   unless the guide alone exceeds it, when only empty files are shown; and no
   file that could be shown is left out while there is room for it. *)
ContextFillsItsCap ==
  /\ api <= MaxApiBytes /\ usage <= MaxUsageBytes /\ Cardinality(listed) <= FileLimit
  /\ Selected =>
       /\ \/ GuideBytes + SnippetBytes <= MaxContextBytes
          \/ GuideBytes > MaxContextBytes /\ SnippetBytes = 0
       /\ \A i \in listed \ snippets :
            Readable(i) /\ repo[i].kind # "generated"
              => Cardinality(snippets) = MaxSnippets \/ SnippetBytes + repo[i].bytes > SnippetBudget

(* "Their source contracts must be visible to the test writer whenever they
   exist" (repository.py).  A contract source is hidden only by what the code
   does not guard against: it comes after the limit of the listing, it is
   oversized, or the guide and the other contracts have used up the budget.
   Other sources never take its place. *)
ContractsComeFirst ==
  LET contracts == { p \in DOMAIN repo : repo[p].kind = "contract" }
      others    == SumFunction([p \in snippets \cap contracts |-> repo[p].bytes])
  IN Selected =>
       \A p \in contracts \ snippets :
         \/ p \notin listed \/ repo[p].bytes > MaxFileBytes
         \/ others + repo[p].bytes > SnippetBudget
         \/ Cardinality(snippets \cap contracts) = MaxSnippets
=============================================================================
