-------------------------- MODULE PublishingProofs --------------------------
(***************************************************************************)
(* Theorems about Publishing, for any number of requests, tokens, failed   *)
(* calls and steps of the maintainers.                                     *)
(*                                                                         *)
(* What makes the properties inductive is what a request may rely on       *)
(* between its calls: an undisturbed click, that GitHub holds what its     *)
(* earlier calls found or left there; a share, unless the link has changed *)
(* since, that its token is the link or fresh.                             *)
(***************************************************************************)
EXTENDS Publishing, TLAPS

Versions == {"no branch", "absent", "solution", "edited"}
Stages   == Clicking \cup {"idle", "share", "shared", "unshared", "refused", "opened", "error"}

PTypes ==
  /\ heads \in SUBSET {"main", "master"} /\ pulls \subseteq heads
  /\ merged \in BOOLEAN /\ file \in Versions
  /\ at \in [Calls -> Stages]
  /\ base \in [Calls -> {"main", "master"}]
  /\ sha \in [Calls -> Versions \cup {"none"}]
  /\ \A c \in Calls : at[c] = "replace" => sha[c] \in {"solution", "edited"}
  /\ DOMAIN token = Calls /\ token = [c \in Calls |-> token[c]]
  /\ disturbed \subseteq Calls /\ None \notin revoked

(* The token of a share that no change of the link has made stale.         *)
ShareInv ==
  \A c \in Calls \ stale :
    at[c] = "share" => token[c] = link \/ (link = None /\ token[c] \notin revoked)

(* What an undisturbed click c has found, or left behind.                  *)
FoundInv(c) ==
  /\ at[c] \in {"idle", "main"} => base[c] = "main"
  /\ at[c] = "master" => "main" \notin heads
  /\ at[c] \in {"branch", "put", "read", "replace", "pull", "lookup"} => base[c] \in heads
  /\ at[c] = "put" => file # "no branch"
  /\ at[c] \in {"read", "replace", "pull"} => file \in {"solution", "edited"}
  /\ at[c] = "replace" => sha[c] \in {file, "edited"}
  /\ at[c] \in {"pull", "lookup"} => file = "solution"
  /\ at[c] = "lookup" => pulls # {} \/ merged

ClickInv ==
  /\ \A c \in Calls \ disturbed : FoundInv(c)
  /\ UndisturbedClickSucceeds

PInv == PTypes /\ ShareInv /\ ClickInv

LEMMA PInitial == PublishingInit => PInv
  BY DEF PublishingInit, PInv, PTypes, ShareInv, ClickInv, FoundInv, Clicking,
         Versions, Stages, UndisturbedClickSucceeds, PublishingAssumption

-----------------------------------------------------------------------------
(* The steps beside the clicks.                                            *)

LEMMA PRun == ASSUME PInv, Work \/ Execute PROVE PInv'
<1>1. UNCHANGED <<github, click, sharing, others, at>> BY DEF Work, Execute
<1> QED BY <1>1 DEF github, click, sharing, others, PInv, PTypes, ShareInv, ClickInv,
               FoundInv, UndisturbedClickSucceeds

LEMMA PShare == ASSUME PInv, NEW c \in Calls, Share(c) PROVE PInv'
<1> USE DEF PInv, Share, Go, runVars, github, click, others, Clicking, Stages
<1>1. PTypes' BY DEF PTypes, Mint
<1>2. ShareInv'
  <2> SUFFICES ASSUME NEW d \in Calls \ stale, at'[d] = "share"
               PROVE token'[d] = link \/ (link = None /\ token'[d] \notin revoked)
    BY DEF ShareInv
  <2>1. CASE d = c BY <2>1 DEF PTypes, Mint, UnusedTokens
  <2>2. CASE d # c BY <2>2 DEF PTypes, ShareInv, Mint
  <2> QED BY <2>1, <2>2
<1>3. ClickInv' BY DEF PTypes, ClickInv, FoundInv, UndisturbedClickSucceeds
<1> QED BY <1>1, <1>2, <1>3

(* A change of the link makes all other shares under way stale.            *)
LEMMA PSetLink ==
  ASSUME PTypes, ShareInv, NEW c \in Calls, NEW new, SetLink(c, new), at'[c] # "share",
         token' = token, \A d \in Calls \ {c} : at'[d] = at[d]
  PROVE  ShareInv' /\ None \notin revoked'
<1> USE DEF SetLink, PTypes
<1>1. ASSUME NEW d \in Calls \ stale', at'[d] = "share"
      PROVE  token'[d] = link' \/ (link' = None /\ token'[d] \notin revoked')
  <2>1. d # c /\ at[d] = "share" BY <1>1
  <2>2. new = link /\ d \notin stale BY <1>1, <2>1
  <2>3. revoked' \subseteq revoked \cup {link} BY <2>2
  <2>4. link = None => revoked' \subseteq revoked BY <2>2
  <2> QED BY <2>1, <2>2, <2>4 DEF ShareInv
<1> QED BY <1>1 DEF ShareInv

LEMMA PWriteShare == ASSUME PInv, NEW c \in Calls, WriteShare(c) PROVE PInv'
<1> USE DEF PInv, WriteShare, Go, runVars, github, click, others, Clicking, Stages
<1>1. ShareInv' /\ None \notin revoked' BY PSetLink DEF PTypes
<1>2. PTypes' BY <1>1 DEF PTypes
<1>3. ClickInv' BY DEF PTypes, ClickInv, FoundInv, UndisturbedClickSucceeds
<1> QED BY <1>1, <1>2, <1>3

LEMMA PUnshare == ASSUME PInv, NEW c \in Calls, Unshare(c) PROVE PInv'
<1> USE DEF PInv, Unshare, Go, runVars, github, click, others, Clicking, Stages
<1>1. ShareInv' /\ None \notin revoked' BY PSetLink DEF PTypes
<1>2. PTypes' BY <1>1 DEF PTypes
<1>3. ClickInv' BY DEF PTypes, ClickInv, FoundInv, UndisturbedClickSucceeds
<1> QED BY <1>1, <1>2, <1>3

(* Maintainers disturb every click under way; what an ended one was        *)
(* excused by stays as it is.                                              *)
LEMMA PMeddle == ASSUME PInv, Meddle PROVE PInv'
<1> USE DEF PInv, Meddle, runVars, click, sharing, Clicking, Stages, Versions
<1>1. PTypes' BY DEF PTypes
<1>2. ShareInv' BY DEF ShareInv
<1>3. ClickInv'
  <2> SUFFICES ASSUME NEW c \in Calls \ disturbed'
               PROVE  FoundInv(c)' /\ (at[c] = "error" => heads' = {} \/ merged' \/ sha[c] = "edited")
    BY DEF ClickInv, UndisturbedClickSucceeds
  <2>1. c \notin disturbed /\ at[c] \notin Clicking BY DEF PTypes
  <2>2. FoundInv(c)' BY <2>1 DEF ClickInv, FoundInv
  <2>3. heads = {} => heads' = {} OBVIOUS
  <2>4. merged => merged' BY DEF PTypes
  <2> QED BY <2>1, <2>2, <2>3, <2>4 DEF ClickInv, UndisturbedClickSucceeds
<1> QED BY <1>1, <1>2, <1>3

-----------------------------------------------------------------------------
(* The calls of a click.                                                   *)

(* What one step of a click c does to the others: nothing they rely on is  *)
(* taken away.                                                             *)
Steady(c) ==
  /\ at' \in [Calls -> Stages] /\ base' \in [Calls -> {"main", "master"}]
  /\ sha' \in [Calls -> Versions \cup {"none"}]
  /\ \A d \in Calls \ {c} : at'[d] = at[d] /\ base'[d] = base[d] /\ sha'[d] = sha[d]
  /\ UNCHANGED <<heads, merged, link, token, stale, revoked>>
  /\ disturbed' \in {disturbed, disturbed \cup {c}}
  /\ pulls' = pulls \/ (base[c] \in heads /\ pulls' = pulls \cup {base[c]})
  /\ \/ file' = file
     \/ file = "no branch" /\ file' = "absent"
     \/ file \in {"absent", "solution", "edited"} /\ file' = "solution"

(* What a step has to show of its own click.                               *)
Own(c) ==
  /\ at'[c] # "share"
  /\ at'[c] = "replace" => sha'[c] \in {"solution", "edited"}
  /\ c \notin disturbed' =>
       /\ FoundInv(c)'
       /\ at'[c] = "error" => heads = {} \/ merged \/ sha'[c] = "edited"

LEMMA PStep == ASSUME PInv, NEW c \in Calls, Steady(c), Own(c) PROVE PInv'
<1>1. PTypes /\ ShareInv /\ ClickInv BY DEF PInv
<1>2. PTypes'
  <2>1. pulls' \subseteq heads'
    <3>1. pulls \subseteq heads /\ heads' = heads BY <1>1 DEF PTypes, Steady
    <3>2. pulls' = pulls \/ (base[c] \in heads /\ pulls' = pulls \cup {base[c]}) BY DEF Steady
    <3> QED BY <3>1, <3>2
  <2>2. disturbed' \subseteq Calls
    <3>1. disturbed \subseteq Calls BY <1>1 DEF PTypes
    <3>2. disturbed' \in {disturbed, disturbed \cup {c}} BY DEF Steady
    <3> QED BY <3>1, <3>2
  <2>3. file' \in Versions BY <1>1 DEF PTypes, Steady, Versions
  <2>4. \A d \in Calls : at'[d] = "replace" => sha'[d] \in {"solution", "edited"}
    <3>1. \A d \in Calls : at[d] = "replace" => sha[d] \in {"solution", "edited"}
      BY <1>1 DEF PTypes
    <3>2. \A d \in Calls \ {c} : at'[d] = at[d] /\ sha'[d] = sha[d] BY DEF Steady
    <3>3. at'[c] = "replace" => sha'[c] \in {"solution", "edited"} BY DEF Own
    <3> QED BY <3>1, <3>2, <3>3
  <2>5. UNCHANGED <<token, heads, merged, revoked>> BY DEF Steady
  <2>6. /\ at' \in [Calls -> Stages] /\ base' \in [Calls -> {"main", "master"}]
        /\ sha' \in [Calls -> Versions \cup {"none"}]
    BY DEF Steady
  <2>7. /\ heads \in SUBSET {"main", "master"} /\ merged \in BOOLEAN
        /\ DOMAIN token = Calls /\ token = [d \in Calls |-> token[d]] /\ None \notin revoked
    BY <1>1 DEF PTypes
  <2> QED BY <2>1, <2>2, <2>3, <2>4, <2>5, <2>6, <2>7 DEF PTypes
<1>3. ShareInv' BY DEF PInv, ShareInv, Steady, Own
<1>4. ASSUME NEW d \in Calls \ disturbed', d # c
      PROVE  FoundInv(d)' /\ (at'[d] = "error" => heads' = {} \/ merged' \/ sha'[d] = "edited")
  <2>1. FoundInv(d) /\ (at[d] = "error" => heads = {} \/ merged \/ sha[d] = "edited")
    BY <1>4 DEF PInv, ClickInv, UndisturbedClickSucceeds, Steady
  <2>2. at'[d] = at[d] /\ base'[d] = base[d] /\ sha'[d] = sha[d] BY <1>4 DEF Steady
  <2>3. at'[d] = "replace" => sha'[d] \in {file', "edited"} BY <2>1, <2>2 DEF FoundInv, Steady
  <2>4. heads' = heads /\ merged' = merged /\ pulls \subseteq pulls' BY DEF Steady
  <2>5. file \in {"solution", "edited"} => file' \in {"solution", "edited"} BY DEF Steady
  <2>6. file # "no branch" => file' # "no branch" BY DEF Steady
  <2>7. file = "solution" => file' = "solution" BY DEF Steady
  <2> QED BY <2>1, <2>2, <2>3, <2>4, <2>5, <2>6, <2>7 DEF FoundInv
<1>5. ClickInv'
  <2> SUFFICES ASSUME NEW d \in Calls \ disturbed'
               PROVE  FoundInv(d)' /\ (at'[d] = "error" => heads' = {} \/ merged' \/ sha'[d] = "edited")
    BY DEF ClickInv, UndisturbedClickSucceeds
  <2>1. CASE d # c BY <2>1, <1>4
  <2>2. CASE d = c
    <3>1. heads' = heads /\ merged' = merged BY DEF Steady
    <3>2. c \notin disturbed' BY <2>2
    <3>3. FoundInv(c)' /\ (at'[c] = "error" => heads = {} \/ merged \/ sha'[c] = "edited")
      BY <3>2 DEF Own
    <3>4. FoundInv(d)' BY <2>2, <3>3 DEF FoundInv
    <3>5. at'[d] = "error" => heads' = {} \/ merged' \/ sha'[d] = "edited" BY <2>2, <3>1, <3>3
    <3> QED BY <3>4, <3>5
  <2> QED BY <2>1, <2>2
<1> QED BY <1>2, <1>3, <1>5 DEF PInv

LEMMA PClick == ASSUME PInv, NEW c \in Calls, Click(c) PROVE PInv'
<1> USE DEF Click, Go, runVars, Load, github, click, sharing, others
<1>1. Steady(c)
  <2>1. PTypes BY DEF PInv
  <2>2. \E to \in {"main", "refused"} : at' = [at EXCEPT ![c] = to] OBVIOUS
  <2>3. at' \in [Calls -> Stages] BY <2>1, <2>2 DEF PTypes, Stages, Clicking
  <2>4. \A d \in Calls \ {c} : at'[d] = at[d] BY <2>1, <2>2 DEF PTypes
  <2> QED BY <2>1, <2>3, <2>4 DEF PTypes, Steady
<1>2. Own(c)
  <2>1. at'[c] # "share" BY DEF PInv, PTypes, Clicking
  <2>2. at'[c] = "replace" => sha'[c] \in {"solution", "edited"} BY DEF PInv, PTypes, Versions
  <2>3. c \notin disturbed' => FoundInv(c)' BY DEF PInv, PTypes, ClickInv, FoundInv, Versions
  <2>4. c \notin disturbed' /\ at'[c] = "error" => heads = {} \/ merged \/ sha'[c] = "edited"
    BY DEF PInv, PTypes, ClickInv, FoundInv
  <2> QED BY <2>1, <2>2, <2>3, <2>4 DEF Own
<1> QED BY <1>1, <1>2, PStep

LEMMA PGetBase == ASSUME PInv, NEW c \in Calls, GetBase(c) PROVE PInv'
<1> USE DEF GetBase, Go, runVars, github, sharing, others
<1>1. Steady(c) BY DEF PInv, PTypes, Steady, Clicking, Stages, Versions
<1>2. Own(c)
  <2>1. at'[c] # "share" BY DEF PInv, PTypes, Clicking
  <2>2. at'[c] = "replace" => sha'[c] \in {"solution", "edited"} BY DEF PInv, PTypes, Versions
  <2>3. ASSUME c \notin disturbed'
        PROVE  FoundInv(c)' /\ (at'[c] = "error" => heads = {})
    <3>1. PTypes BY DEF PInv
    <3>2. FoundInv(c) BY <2>3 DEF PInv, ClickInv
    <3>3. CASE at[c] = "main"
      <4>1. at'[c] = (IF "main" \in heads THEN "branch" ELSE "master") /\ base' = base
        BY <3>1, <3>3 DEF PTypes
      <4>2. base[c] = "main" BY <3>2, <3>3 DEF FoundInv
      <4> QED BY <4>1, <4>2 DEF FoundInv
    <3>4. CASE at[c] = "master"
      <4>1. at'[c] = (IF "master" \in heads THEN "branch" ELSE "error") /\ base'[c] = "master"
        BY <3>1, <3>4 DEF PTypes
      <4>2. "main" \notin heads BY <3>2, <3>4 DEF FoundInv
      <4>3. "master" \notin heads => heads = {} BY <3>1, <4>2 DEF PTypes
      <4> QED BY <4>1, <4>3 DEF FoundInv
    <3> QED BY <3>3, <3>4
  <2> QED BY <2>1, <2>2, <2>3 DEF Own
<1> QED BY <1>1, <1>2, PStep

LEMMA PPostBranch == ASSUME PInv, NEW c \in Calls, PostBranch(c) PROVE PInv'
<1> USE DEF PostBranch, Go, runVars, Branched, click, sharing, others
<1>1. Steady(c) BY DEF PInv, PTypes, Steady, Clicking, Stages, Versions
<1>2. Own(c)
  <2>1. at'[c] # "share" BY DEF PInv, PTypes, Clicking
  <2>2. at'[c] = "replace" => sha'[c] \in {"solution", "edited"} BY DEF PInv, PTypes, Versions
  <2>3. c \notin disturbed' => FoundInv(c)' BY DEF PInv, PTypes, ClickInv, FoundInv, Versions
  <2>4. c \notin disturbed' /\ at'[c] = "error" => heads = {} \/ merged \/ sha'[c] = "edited"
    BY DEF PInv, PTypes, ClickInv, FoundInv
  <2> QED BY <2>1, <2>2, <2>3, <2>4 DEF Own
<1> QED BY <1>1, <1>2, PStep

LEMMA PPutFile == ASSUME PInv, NEW c \in Calls, PutFile(c) PROVE PInv'
<1> USE DEF PutFile, Go, runVars, click, sharing, others
<1>1. Steady(c)
  <2>1. PTypes BY DEF PInv
  <2>2. \E to \in {"pull", "error", "read"} : at' = [at EXCEPT ![c] = to] BY Zenon
  <2>3. file' = file \/ (file = "absent" /\ file' = "solution") OBVIOUS
  <2>4. at' \in [Calls -> Stages]
    <3>1. at \in [Calls -> Stages] BY <2>1 DEF PTypes
    <3>2. {"pull", "error", "read"} \subseteq Stages BY DEF Stages, Clicking
    <3> HIDE DEF PutFile, Go
    <3> QED BY <2>2, <3>1, <3>2
  <2>5. \A d \in Calls \ {c} : at'[d] = at[d] BY <2>1, <2>2 DEF PTypes
  <2> QED BY <2>1, <2>3, <2>4, <2>5 DEF PTypes, Steady
<1>2. Own(c)
  <2>1. at'[c] # "share" BY DEF PInv, PTypes, Clicking
  <2>2. at'[c] = "replace" => sha'[c] \in {"solution", "edited"} BY DEF PInv, PTypes, Versions
  <2>3. c \notin disturbed' => FoundInv(c)' BY DEF PInv, PTypes, ClickInv, FoundInv, Versions
  <2>4. c \notin disturbed' /\ at'[c] = "error" => heads = {} \/ merged \/ sha'[c] = "edited"
    BY DEF PInv, PTypes, ClickInv, FoundInv
  <2> QED BY <2>1, <2>2, <2>3, <2>4 DEF Own
<1> QED BY <1>1, <1>2, PStep

LEMMA PReadFile == ASSUME PInv, NEW c \in Calls, ReadFile(c) PROVE PInv'
<1> USE DEF ReadFile, Go, runVars, github, sharing, others
<1>1. Steady(c) BY DEF PInv, PTypes, Steady, Clicking, Stages, Versions
<1>2. Own(c)
  <2>1. at'[c] # "share" BY DEF PInv, PTypes, Clicking
  <2>2. at'[c] = "replace" => sha'[c] \in {"solution", "edited"} BY DEF PInv, PTypes, Versions
  <2>3. c \notin disturbed' => FoundInv(c)' BY DEF PInv, PTypes, ClickInv, FoundInv, Versions
  <2>4. c \notin disturbed' /\ at'[c] = "error" => heads = {} \/ merged \/ sha'[c] = "edited"
    BY DEF PInv, PTypes, ClickInv, FoundInv
  <2> QED BY <2>1, <2>2, <2>3, <2>4 DEF Own
<1> QED BY <1>1, <1>2, PStep

LEMMA PReplaceFile == ASSUME PInv, NEW c \in Calls, ReplaceFile(c) PROVE PInv'
<1> USE DEF ReplaceFile, Go, runVars, click, sharing, others
<1>1. Steady(c) BY DEF PInv, PTypes, Steady, Clicking, Stages, Versions
<1>2. Own(c)
  <2>1. at'[c] # "share" BY DEF PInv, PTypes, Clicking
  <2>2. at'[c] = "replace" => sha'[c] \in {"solution", "edited"} BY DEF PInv, PTypes, Versions
  <2>3. c \notin disturbed' => FoundInv(c)' BY DEF PInv, PTypes, ClickInv, FoundInv, Versions
  <2>4. c \notin disturbed' /\ at'[c] = "error" => heads = {} \/ merged \/ sha'[c] = "edited"
    BY DEF PInv, PTypes, ClickInv, FoundInv
  <2> QED BY <2>1, <2>2, <2>3, <2>4 DEF Own
<1> QED BY <1>1, <1>2, PStep

LEMMA PPostPull == ASSUME PInv, NEW c \in Calls, PostPull(c) PROVE PInv'
<1> USE DEF PostPull, Go, runVars, github, click, sharing, others
<1>1. Steady(c) BY DEF PInv, PTypes, Steady, Clicking, Stages, Versions
<1>2. Own(c)
  <2>1. at'[c] # "share" BY DEF PInv, PTypes, Clicking
  <2>2. at'[c] = "replace" => sha'[c] \in {"solution", "edited"} BY DEF PInv, PTypes, Versions
  <2>3. c \notin disturbed' => FoundInv(c)' BY DEF PInv, PTypes, ClickInv, FoundInv, Versions
  <2>4. c \notin disturbed' /\ at'[c] = "error" => heads = {} \/ merged \/ sha'[c] = "edited"
    BY DEF PInv, PTypes, ClickInv, FoundInv
  <2> QED BY <2>1, <2>2, <2>3, <2>4 DEF Own
<1> QED BY <1>1, <1>2, PStep

LEMMA PLookupPull == ASSUME PInv, NEW c \in Calls, LookupPull(c) PROVE PInv'
<1> USE DEF LookupPull, Go, runVars, github, click, sharing, others
<1>1. Steady(c) BY DEF PInv, PTypes, Steady, Clicking, Stages, Versions
<1>2. Own(c)
  <2>1. at'[c] # "share" BY DEF PInv, PTypes, Clicking
  <2>2. at'[c] = "replace" => sha'[c] \in {"solution", "edited"} BY DEF PInv, PTypes, Versions
  <2>3. c \notin disturbed' => FoundInv(c)' BY DEF PInv, PTypes, ClickInv, FoundInv, Versions
  <2>4. c \notin disturbed' /\ at'[c] = "error" => heads = {} \/ merged \/ sha'[c] = "edited"
    BY DEF PInv, PTypes, ClickInv, FoundInv
  <2> QED BY <2>1, <2>2, <2>3, <2>4 DEF Own
<1> QED BY <1>1, <1>2, PStep

LEMMA PFault == ASSUME PInv, NEW c \in Calls, Fault(c) PROVE PInv'
<1> USE DEF Fault, Go, runVars, click, sharing
<1>1. Steady(c) BY DEF PInv, PTypes, Steady, Clicking, Stages, Versions
<1>2. Own(c)
  <2>1. at'[c] # "share" BY DEF PInv, PTypes, Clicking
  <2>2. at'[c] = "replace" => sha'[c] \in {"solution", "edited"} BY DEF PInv, PTypes, Versions
  <2>3. c \notin disturbed' => FoundInv(c)' BY DEF PInv, PTypes, ClickInv, FoundInv, Versions
  <2>4. c \notin disturbed' /\ at'[c] = "error" => heads = {} \/ merged \/ sha'[c] = "edited"
    BY DEF PInv, PTypes, ClickInv, FoundInv
  <2> QED BY <2>1, <2>2, <2>3, <2>4 DEF Own
<1> QED BY <1>1, <1>2, PStep

-----------------------------------------------------------------------------
LEMMA PInductive == ASSUME PInv, [PublishingNext]_publishingVars PROVE PInv'
<1>1. CASE Work \/ Execute BY <1>1, PRun
<1>2. CASE Meddle BY <1>2, PMeddle
<1>3. ASSUME NEW c \in Calls,
             \/ Share(c) \/ WriteShare(c) \/ Unshare(c)
             \/ Click(c) \/ GetBase(c) \/ PostBranch(c)
             \/ PutFile(c) \/ ReadFile(c) \/ ReplaceFile(c)
             \/ PostPull(c) \/ LookupPull(c) \/ Fault(c)
      PROVE  PInv'
  BY <1>3, PShare, PWriteShare, PUnshare, PClick, PGetBase, PPostBranch, PPutFile,
     PReadFile, PReplaceFile, PPostPull, PLookupPull, PFault
<1>4. CASE UNCHANGED publishingVars
  BY <1>4 DEF publishingVars, runVars, github, click, sharing, others, PInv, PTypes,
     ShareInv, ClickInv, FoundInv, UndisturbedClickSucceeds
<1> QED BY <1>1, <1>2, <1>3, <1>4 DEF PublishingNext

LEMMA PAlways == PublishingSpec => []PInv
<1> QED BY PInitial, PInductive, PTL DEF PublishingSpec

(* Clicks left half-way, beside each other or repeated, never make an      *)
(* undisturbed one fail.                                                   *)
THEOREM ClickingAgainWorks == PublishingSpec => []UndisturbedClickSucceeds
<1>1. PInv => UndisturbedClickSucceeds BY DEF PInv, ClickInv
<1> QED BY <1>1, PAlways, PTL

(* A click that says success, undisturbed, is right about the pull request *)
(* and the file on its branch (app/github_agent.py 112-184).               *)
THEOREM SuccessIsOnGitHub == PublishingSpec => OpenedIsThere
<1> DEFINE There == \A c \in Calls \ disturbed :
              at[c] # "opened" /\ at'[c] = "opened" => pulls' # {} /\ file' = "solution"
<1>1. ASSUME PInv, [PublishingNext]_publishingVars PROVE There \/ UNCHANGED publishingVars
  <2> SUFFICES ASSUME NEW c \in Calls \ disturbed, at[c] # "opened", at'[c] = "opened",
                      PublishingNext
               PROVE  pulls' # {} /\ file' = "solution"
    BY <1>1
  <2>1. at \in [Calls -> Stages] /\ FoundInv(c) BY <1>1 DEF PInv, PTypes, ClickInv
  <2>2. ASSUME NEW d \in Calls, PostPull(d) \/ LookupPull(d) PROVE pulls' # {} /\ file' = "solution"
    <3>1. d = c BY <2>1, <2>2 DEF PostPull, LookupPull, Go
    <3>2. at[c] \in {"pull", "lookup"} BY <2>2, <3>1 DEF PostPull, LookupPull, Go
    <3>3. file = "solution" /\ file' = file
      BY <2>1, <2>2, <3>1, <3>2 DEF FoundInv, PostPull, LookupPull, github
    <3>4. pulls' # {} BY <2>1, <2>2, <3>1 DEF PostPull, LookupPull, Go, github
    <3> QED BY <3>3, <3>4
  <2>3. ASSUME Work \/ Execute \/ Meddle PROVE FALSE BY <2>3 DEF Work, Execute, Meddle
  <2>4. ASSUME NEW d \in Calls,
               \/ Share(d) \/ WriteShare(d) \/ Unshare(d)
               \/ Click(d) \/ GetBase(d) \/ PostBranch(d) \/ Fault(d)
        PROVE  FALSE
    BY <2>1, <2>4 DEF Share, WriteShare, Unshare, Click, Load, GetBase, PostBranch, Branched,
                      Fault, Go
  <2>5. ASSUME NEW d \in Calls, PutFile(d) \/ ReadFile(d) \/ ReplaceFile(d) PROVE FALSE
    <3>1. \E to \in {"pull", "error", "read", "replace"} : at' = [at EXCEPT ![d] = to]
      <4>1. CASE PutFile(d) BY <4>1, Zenon DEF PutFile, Go
      <4>2. CASE ReadFile(d) \/ ReplaceFile(d) BY <4>2 DEF ReadFile, ReplaceFile, Go
      <4> QED BY <2>5, <4>1, <4>2
    <3> QED BY <2>1, <3>1
  <2> QED BY <2>2, <2>3, <2>4, <2>5 DEF PublishingNext
<1>2. PInv /\ [PublishingNext]_publishingVars => [There]_publishingVars BY <1>1
<1> QED BY <1>2, PAlways, PTL DEF PublishingSpec, OpenedIsThere

(* A link changes, and a revoked one returns, only by a share that had     *)
(* read the run before the last change.                                    *)
THEOREM LinksAreStable == PublishingSpec => LinkKept
<1> DEFINE Kept == \/ link' \in {link, None}
                   \/ link = None /\ link' \notin revoked
                   \/ \E c \in stale : at[c] = "share" /\ at'[c] = "shared"
<1>1. ASSUME PInv, [PublishingNext]_publishingVars PROVE Kept \/ UNCHANGED publishingVars
  <2>1. ASSUME NEW c \in Calls, WriteShare(c) PROVE Kept
    <3>1. link' = token[c] /\ at[c] = "share" /\ at'[c] = "shared"
      BY <1>1, <2>1 DEF WriteShare, SetLink, Go, PInv, PTypes
    <3>2. CASE c \in stale BY <3>1, <3>2
    <3>3. CASE c \notin stale BY <1>1, <3>1, <3>3 DEF PInv, ShareInv
    <3> QED BY <3>2, <3>3
  <2>2. ASSUME NEW c \in Calls, Unshare(c) PROVE Kept BY <2>2 DEF Unshare, SetLink
  <2>3. ASSUME NEW c \in Calls, Share(c) PROVE Kept BY <2>3 DEF Share
  <2>4. CASE Work \/ Execute \/ Meddle BY <2>4 DEF Work, Execute, Meddle, sharing
  <2>5. ASSUME NEW c \in Calls,
               \/ Click(c) \/ GetBase(c) \/ PostBranch(c)
               \/ PutFile(c) \/ ReadFile(c) \/ ReplaceFile(c)
               \/ PostPull(c) \/ LookupPull(c) \/ Fault(c)
        PROVE  Kept
    BY <2>5 DEF Click, GetBase, PostBranch, PutFile, ReadFile, ReplaceFile, PostPull, LookupPull,
                Fault, sharing
  <2> QED BY <1>1, <2>1, <2>2, <2>3, <2>4, <2>5 DEF PublishingNext
<1>2. PInv /\ [PublishingNext]_publishingVars => [Kept]_publishingVars BY <1>1
<1> QED BY <1>2, PAlways, PTL DEF PublishingSpec, LinkKept

=============================================================================
