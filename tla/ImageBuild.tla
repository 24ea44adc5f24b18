----------------------------- MODULE ImageBuild -----------------------------
(***************************************************************************)
(* How the flash image is made.  Every build links both stages again, as   *)
(* the command that made loader.lds is not read back, so that their        *)
(* binaries are newer than what an earlier build has padded; padutil is    *)
(* run on each, and cat puts the image together, with a payload if there   *)
(* is one.  Any of these may fail, which ends the build and leaves the     *)
(* files as they are for the next, perhaps for another page size.  Stage 2 *)
(* looks for the payload where the linker script says.                     *)
(***************************************************************************)
EXTENDS Padutil

CONSTANTS PageSizes,            \* 2 KB, 4 KB
          Lengths1, Lengths2,   \* of the stages' sections
          LinkAlign,            \* 4
          MaxBuilds             \* bound: times make is started

ASSUME BuildAssumption ==
  /\ MaxBuilds \in Nat /\ LinkAlign \in Nat \ {0}
  /\ \A p \in PageSizes : p \in Nat /\ p > 1 /\ p < Word /\ p % LinkAlign = 0
  /\ Lengths1 \subseteq Nat \ {0} /\ Lengths2 \subseteq Nat \ {0}
  /\ \A p \in PageSizes, n \in Lengths1 \cup Lengths2 : n + p < Word

VARIABLES make, stage,    \* what make is at, and for which stage
          PAGESIZE, payload,
          bin,            \* the stages' binaries
          pad,            \* their padded files, but for the one being made
          image,          \* output-loader.bin
          __stage3_offset,
          builds,
          lost            \* history: the end of a file was lost

config   == <<PAGESIZE, payload, bin, __stage3_offset>>
makevars == <<make, stage, pad, image, builds, lost>>
allvars  == <<padvars, config, makevars>>

Stages  == {1, 2}
Ended   == {"none", "made", "failed"}
Payload == <<"payload">>
NoFile  == [exists |-> FALSE, content |-> <<>>]

(* Bytes are named by the build and the stage they are of. *)
Linked(st, n) == [i \in 1 .. n |-> <<builds', st, i>>]

RoundUp(n, a) == n + ((a - (n % a)) % a)

Stage3Offset(n) == PAGESIZE' + RoundUp(RoundUp(n, LinkAlign), PAGESIZE')

Maximum(st) == IF st = 1 THEN PAGESIZE ELSE 0

-----------------------------------------------------------------------------
(* make, up to the links of both stages; objcopy leaves out the alignment  *)
(* behind the last section, which __copy_size counts.                      *)
Make ==
  /\ make \in Ended /\ builds < MaxBuilds
  /\ builds' = builds + 1 /\ make' = "pad" /\ stage' = 1 /\ lost' = FALSE
  /\ PAGESIZE' \in PageSizes /\ payload' \in {<<>>, Payload}
  /\ \E n1 \in Lengths1, n2 \in Lengths2 :
       /\ bin' = [st \in Stages |-> Linked(st, IF st = 1 THEN n1 ELSE n2)]
       /\ __stage3_offset' = Stage3Offset(n2)
  /\ UNCHANGED <<padvars, pad, image>>

(* cmd_page_pad *)
PagePad ==
  /\ make = "pad" /\ make' = "run"
  /\ Invoke(bin[stage], PAGESIZE, Maximum(stage), pad[stage])
  /\ UNCHANGED <<config, stage, pad, image, builds, lost>>

Runs == make = "run" /\ Padutil /\ UNCHANGED <<config, makevars>>

PagePadDone ==
  /\ make = "run" /\ run \in Exited
  /\ pad' = [pad EXCEPT ![stage] = [exists |-> exists, content |-> output]]
  /\ lost' = (lost \/ fault = "close")
  /\ IF run = "exit1" THEN make' = "failed" /\ UNCHANGED stage
     ELSE IF stage = 1 THEN make' = "pad" /\ stage' = 2
     ELSE make' = "cat" /\ UNCHANGED stage
  /\ UNCHANGED <<padvars, config, image, builds>>

(* Mutated: without the padding of stage 1. *)
CatFinalBare == bin[1] \o pad[2].content \o payload
CatFinal == pad[1].content \o pad[2].content \o payload

Cat ==
  /\ make = "cat" /\ make' = "made"
  /\ image' = CatFinal
  /\ UNCHANGED <<padvars, config, stage, pad, builds, lost>>

CatFails ==
  /\ make = "cat" /\ "write" \in Faults /\ make' = "failed"
  /\ image' = pad[1].content
  /\ UNCHANGED <<padvars, config, stage, pad, builds, lost>>

-----------------------------------------------------------------------------
Init ==
  /\ run = "exit1" /\ align_size = 0 /\ max_size = 0 /\ input = <<>>
  /\ exists = FALSE /\ output = <<>> /\ fault = "option"
  /\ input_file_size = 0 /\ padding_size = 0 /\ padsize = 0
  /\ make = "none" /\ stage = 1 /\ builds = 0 /\ lost = FALSE
  /\ PAGESIZE = 0 /\ payload = <<>> /\ bin = [st \in Stages |-> <<>>]
  /\ pad = [st \in Stages |-> NoFile] /\ image = <<>> /\ __stage3_offset = 0

Next == Make \/ PagePad \/ Runs \/ PagePadDone \/ Cat \/ CatFails

Spec == Init /\ [][Next]_allvars

-----------------------------------------------------------------------------
(* When a build succeeds the image has stage 1 in its first page, stage 2  *)
(* from the second on, whole and of this build whatever builds have failed *)
(* before it, and the payload just where stage 2 will look for it.  Lost   *)
(* is what a failed fclose of padutil did not write: it is not looked at,  *)
(* so that make goes on with a file that lacks its end.                    *)
StagesAreInPlace ==
  make = "made" /\ ~lost =>
    /\ Len(bin[1]) <= PAGESIZE /\ Len(image) = __stage3_offset + Len(payload)
    /\ \A i \in DOMAIN bin[1] : image[i] = bin[1][i]
    /\ \A i \in DOMAIN bin[2] : image[PAGESIZE + i] = bin[2][i]
    /\ \A i \in DOMAIN payload : image[__stage3_offset + i] = payload[i]
=============================================================================
