----------------------------- MODULE Publishing -----------------------------
(***************************************************************************)
(* How a run leaves its workspace: as a public link (app/main.py 461-477)  *)
(* and as a pull request (app/github_agent.py 38-191).  Both read the run  *)
(* once and act later, from as many request threads as users click; a      *)
(* pull request takes four to seven calls to GitHub, each of which may     *)
(* fail before or after it took effect, and is meant to be clicked again.  *)
(*                                                                         *)
(* The run has spec tests.  Its first passing attempt, whose code a pull   *)
(* request carries, passed them if the worker made it; a call of /execute, *)
(* which runs a stored program without them, may make the first as well.   *)
(* It stays the first (calls of /execute that overlap may put another      *)
(* before it: see ExecuteEndpoint.tla).                                    *)
(*                                                                         *)
(* GitHub (external) keeps one repository: the branches a pull request may *)
(* be based on, the branch of this run with its solution file, and the     *)
(* open pull requests of that branch, at most one per base.  Maintainers   *)
(* close and merge pull requests, edit the file and delete the branch.     *)
(***************************************************************************)
EXTENDS Naturals

CONSTANTS
  Calls,         \* requests of users, each made once (a bound)
  Tokens,        \* what secrets.token_urlsafe may return, never twice the same
  None,          \* no token
  MaxFaults,     \* failed calls to GitHub (a bound)
  MaxMeddling    \* steps of the maintainers (a bound)

ASSUME PublishingAssumption == MaxFaults \in Nat /\ MaxMeddling \in Nat /\ None \notin Tokens

VARIABLES
  status,             \* runs.final_status: running, success or failed
  worker,             \* the thread that executes the run: trying, passed or done
  attempts,           \* the attempts: none yet, none passing, or the first that
                      \* passes was tested, or only executed
  link,               \* runs.share_token
  heads,              \* GitHub: which of main and master exist
  file,               \* GitHub: the solution file on the run's branch
  pulls,              \* GitHub: the bases of the open pull requests of the branch
  merged,             \* GitHub: a pull request of the branch has been merged
  at,                 \* per call: what it does next, or how it ended
  base, sha,          \* per click: base_branch, and the version of the file it read
  token,              \* per share: the token it will write
  faults, meddling,   \* how often a call has failed, a maintainer has acted
  disturbed,          \* history: clicks a fault or a maintainer came in the way of
  stale,              \* history: shares that read the run before its last change of link
  revoked             \* history: tokens that have stopped opening the run

runVars    == <<status, worker, attempts>>
github     == <<heads, file, pulls, merged>>
click      == <<base, sha>>
sharing    == <<link, token, stale, revoked>>
others     == <<faults, meddling, disturbed>>
publishingVars == <<runVars, github, click, sharing, others, at>>

Clicking == {"main", "master", "branch", "put", "read", "replace", "pull", "lookup"}

PublishingInit ==
  /\ status = "running" /\ worker = "trying" /\ attempts = "none"
  /\ link = None /\ token = [c \in Calls |-> None] /\ stale = {} /\ revoked = {}
  /\ heads \in SUBSET {"main", "master"} /\ pulls = {} /\ merged = FALSE
  /\ file = "no branch"
  /\ at = [c \in Calls |-> "idle"]
  /\ base = [c \in Calls |-> "main"] /\ sha = [c \in Calls |-> "none"]
  /\ faults = 0 /\ meddling = 0 /\ disturbed = {}

Go(c, from, to) == at[c] = from /\ at' = [at EXCEPT ![c] = to]

-----------------------------------------------------------------------------
(* The run: its worker inserts attempts, the last of which may pass, and   *)
(* ends it; /execute may run one of the programs stored by then at any     *)
(* time, and writes an attempt and a status.                               *)

Passing == {"tested", "executed"}

FirstPass(how) == IF attempts \in Passing THEN attempts ELSE how

Work ==
  /\ \/ /\ worker = "trying"
        /\ \/ attempts = "none" /\ attempts' = "failing" /\ UNCHANGED worker
           \/ attempts' = FirstPass("tested") /\ worker' = "passed"
        /\ UNCHANGED status
     \/ /\ worker # "done" /\ worker' = "done"
        /\ status' = IF worker = "passed" THEN "success" ELSE "failed"
        /\ UNCHANGED attempts
  /\ UNCHANGED <<github, click, sharing, others, at>>

Execute ==
  /\ attempts # "none"
  /\ \/ status' = "success" /\ attempts' = FirstPass("executed")
     \/ status' = "failed" /\ UNCHANGED attempts
  /\ UNCHANGED <<worker, github, click, sharing, others, at>>

-----------------------------------------------------------------------------
(* Sharing.  A share takes the token it read, or a fresh one, and writes   *)
(* it; an unshare writes NULL.  Writes do not look at the row again.       *)

UnusedTokens ==
  Tokens \ ({link} \cup revoked \cup {token[c] : c \in Calls})

MintAlways(c) ==    \* slip: every share makes a link of its own
  \E t \in UnusedTokens : token' = [token EXCEPT ![c] = t]

(* run.get("share_token") or secrets.token_urlsafe(16)                     *)
Mint(c) ==
  IF link # None THEN token' = [token EXCEPT ![c] = link]
                 ELSE \E t \in UnusedTokens : token' = [token EXCEPT ![c] = t]

Share(c) ==
  /\ Go(c, "idle", "share")
  /\ Mint(c)
  /\ UNCHANGED <<runVars, github, click, others, link, stale, revoked>>

(* update_run(run_id, share_token=new)                                     *)
SetLink(c, new) ==
  /\ link' = new
  /\ revoked' = (revoked \cup {link}) \ {new, None}
  /\ stale' = (IF new = link THEN stale ELSE stale \cup {d \in Calls \ {c} : at[d] = "share"})

WriteShare(c) ==
  /\ Go(c, "share", "shared")
  /\ SetLink(c, token[c])
  /\ UNCHANGED <<runVars, github, click, others, token>>

Unshare(c) ==
  /\ Go(c, "idle", "unshared")
  /\ SetLink(c, None)
  /\ UNCHANGED <<runVars, github, click, others, token>>

-----------------------------------------------------------------------------
(* Pull requests: one action per call to GitHub, with its answers.         *)

(* Refused, too, are repositories that are not in GITHUB_ALLOWED_REPOS.    *)
Load(c) ==
  \/ Go(c, "idle", IF status = "success" /\ attempts \in Passing THEN "main" ELSE "refused")
  \/ Go(c, "idle", "refused")

Click(c) ==
  /\ Load(c)
  /\ UNCHANGED <<runVars, github, click, sharing, others>>

(* GET git/ref/heads/main; anything but 200 means: try master.             *)
GetBase(c) ==
  /\ \/ Go(c, "main", IF "main" \in heads THEN "branch" ELSE "master") /\ UNCHANGED base
     \/ /\ Go(c, "master", IF "master" \in heads THEN "branch" ELSE "error")
        /\ base' = [base EXCEPT ![c] = "master"]
  /\ UNCHANGED <<runVars, github, sha, sharing, others>>

RefuseTaken(c) == Go(c, "branch", IF file = "no branch" THEN "put" ELSE "error")  \* slip

(* POST git/refs: 201, or 422 when the branch exists, which is as good.    *)
Branched(c) == Go(c, "branch", "put")

PostBranch(c) ==
  /\ Branched(c)
  /\ file' = (IF file = "no branch" THEN "absent" ELSE file)
  /\ UNCHANGED <<runVars, heads, pulls, merged, click, sharing, others>>

PutFileOnce(c) ==    \* slip: a file that is there (422) is taken for this one
  /\ Go(c, "put", IF file = "no branch" THEN "error" ELSE "pull")
  /\ file' = (IF file = "absent" THEN "solution" ELSE file)
  /\ UNCHANGED <<runVars, heads, pulls, merged, click, sharing, others>>

(* PUT contents without sha: 201 if there is no such file, 422 if there is *)
(* one, and 404 without the branch.                                        *)
PutFile(c) ==
  /\ CASE file = "absent"    -> Go(c, "put", "pull")
       [] file = "no branch" -> Go(c, "put", "error")
       [] OTHER              -> Go(c, "put", "read")
  /\ file' = (IF file = "absent" THEN "solution" ELSE file)
  /\ UNCHANGED <<runVars, heads, pulls, merged, click, sharing, others>>

(* GET contents: when it fails, the 422 of the PUT stands.                 *)
ReadFile(c) ==
  /\ Go(c, "read", IF file \in {"no branch", "absent"} THEN "error" ELSE "replace")
  /\ sha' = [sha EXCEPT ![c] = file]
  /\ UNCHANGED <<runVars, github, base, sharing, others>>

(* PUT contents with sha: 409 unless the file still is that version.  The  *)
(* sha is that of the contents.                                            *)
ReplaceFile(c) ==
  /\ Go(c, "replace", IF file = sha[c] THEN "pull" ELSE "error")
  /\ file' = (IF file = sha[c] THEN "solution" ELSE file)
  /\ UNCHANGED <<runVars, heads, pulls, merged, click, sharing, others>>

(* POST pulls: 422 for a base that is gone, a second pull request to one   *)
(* base, or a branch with nothing new, as it may be after a merge.         *)
PostPull(c) ==
  \/ /\ Go(c, "pull", "opened")
     /\ base[c] \in heads \ pulls /\ file \in {"solution", "edited"}
     /\ pulls' = pulls \cup {base[c]}
     /\ UNCHANGED <<runVars, heads, file, merged, click, sharing, others>>
  \/ /\ Go(c, "pull", "lookup")
     /\ base[c] \notin heads \ pulls \/ file \in {"no branch", "absent"} \/ merged
     /\ UNCHANGED <<runVars, github, click, sharing, others>>

(* GET pulls?head=...&state=open: the first one is handed back.            *)
LookupPull(c) ==
  /\ Go(c, "lookup", IF pulls # {} THEN "opened" ELSE "error")
  /\ UNCHANGED <<runVars, github, click, sharing, others>>

(* A call to GitHub fails (a timeout, a 5xx).  What it was to do may have  *)
(* been done, its answer being lost; the click ends as an error, except    *)
(* that a failed answer about main reads as "there is no main".            *)
Fault(c) ==
  /\ faults < MaxFaults /\ at[c] \in Clicking
  /\ faults' = faults + 1 /\ disturbed' = disturbed \cup {c}
  /\ \/ Go(c, "main", "master")
     \/ at' = [at EXCEPT ![c] = "error"]
  /\ \/ UNCHANGED <<file, pulls>>
     \/ at[c] = "branch" /\ file = "no branch" /\ file' = "absent" /\ UNCHANGED pulls
     \/ at[c] = "put" /\ file = "absent" /\ file' = "solution" /\ UNCHANGED pulls
     \/ at[c] = "replace" /\ file = sha[c] /\ file' = "solution" /\ UNCHANGED pulls
     \/ /\ at[c] = "pull" /\ base[c] \in heads /\ file \in {"solution", "edited"}
        /\ pulls' = pulls \cup {base[c]} /\ UNCHANGED file
  /\ UNCHANGED <<runVars, heads, merged, click, sharing, meddling>>

(* The maintainers of the repository.                                      *)
Meddle ==
  /\ meddling < MaxMeddling /\ meddling' = meddling + 1
  /\ disturbed' = disturbed \cup {c \in Calls : at[c] \in Clicking}
  /\ \/ \E b \in pulls : /\ pulls' = pulls \ {b}
                         /\ merged' \in {merged, TRUE} /\ UNCHANGED <<file, heads>>
     \/ file = "solution" /\ file' = "edited" /\ UNCHANGED <<pulls, merged, heads>>
     \/ /\ file # "no branch" /\ file' = "no branch" /\ pulls' = {}
        /\ UNCHANGED <<merged, heads>>
     \/ /\ heads = {"master"} /\ heads' = {"main"} /\ pulls' = {}
        /\ UNCHANGED <<file, merged>>
  /\ UNCHANGED <<runVars, click, sharing, faults, at>>

-----------------------------------------------------------------------------
PublishingNext ==
  \/ Work \/ Execute \/ Meddle
  \/ \E c \in Calls :
       \/ Share(c) \/ WriteShare(c) \/ Unshare(c)
       \/ Click(c) \/ GetBase(c) \/ PostBranch(c)
       \/ PutFile(c) \/ ReadFile(c) \/ ReplaceFile(c)
       \/ PostPull(c) \/ LookupPull(c) \/ Fault(c)

PublishingSpec == PublishingInit /\ [][PublishingNext]_publishingVars

-----------------------------------------------------------------------------
(* Properties.                                                             *)

(* Clicking again works, from whatever earlier clicks left behind: a click *)
(* of a verified run that no fault and no maintainer came in the way of    *)
(* ends with an open pull request, beside other clicks too.  Exempt are a  *)
(* repository without a base, a branch that was merged already, and a file *)
(* that another click has replaced after a maintainer's edit.  (Comments   *)
(* "422 = it already exists, which is fine" and "hand that one back        *)
(* instead of failing", github_agent.py 102 and 156.)                      *)
UndisturbedClickSucceeds ==
  \A c \in Calls \ disturbed :
    at[c] = "error" => heads = {} \/ merged \/ sha[c] = "edited"

(* A click that says success is right: if no fault and no maintainer came  *)
(* in its way, a pull request of the branch is open when it says so, and   *)
(* the file on the branch is the solution and not what a maintainer had    *)
(* made of it before, whichever other clicks were left half-way or run     *)
(* beside it.  (github_agent.py 112: "or update it if a previous click     *)
(* already made it".)                                                      *)
OpenedIsThere ==
  [][\A c \in Calls \ disturbed :
       at[c] # "opened" /\ at'[c] = "opened" => pulls' # {} /\ file' = "solution"]_publishingVars

(* github_agent.py 72: "Only runs that passed verification can be opened   *)
(* as a pull request."  What is published passed the spec tests.           *)
OnlyVerifiedPublished == file # "no branch" => attempts = "tested"

(* A link that opens the run is given up for another one, and a link that  *)
(* was revoked opens it again, only when a share had read the run before   *)
(* the link last changed: sharing again keeps the link, unsharing kills it *)
(* for good.  (tests/test_workspaces_and_sharing.py 125: "stable".)        *)
LinkKept ==
  [][\/ link' \in {link, None}
     \/ link = None /\ link' \notin revoked
     \/ \E c \in stale : at[c] = "share" /\ at'[c] = "shared"]_publishingVars

=============================================================================
