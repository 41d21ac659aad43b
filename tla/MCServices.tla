----------------------------- MODULE MCServices -----------------------------
(***************************************************************************)
(* A small instance of every background service.  The services share no    *)
(* variable, so a run explores each from its initial state while the       *)
(* others rest: `service' is the one at work.                              *)
(***************************************************************************)
EXTENDS Delivery, Mirrors, SymbolIndex, MailReplies, PackSlots, KeyFile,
        LFS, TLC

CONSTANTS m1, m2, s1, anna, ian, jill

VARIABLE service

MCFilter == [h \in Hooks |-> Kinds]
MCDirection == [m \in MirrorIds |-> IF m = 2 THEN "pull" ELSE "push"]
MCClaimKeys == (1 :> <<m1, s1>>) @@ (2 :> <<m2, s1>>)

ServicesInit ==
    /\ DeliveryInit /\ MirrorInit /\ SymbolInit
    /\ ReplyInit /\ PackInit /\ KeyInit /\ LfsInit
    /\ service \in {"delivery", "mirrors", "symbols", "replies", "packs",
                    "keys", "lfs"}
    \* A service that rests has one initial state.
    /\ pushes => service = "packs"
    /\ lfsPublic => service = "lfs"

ServicesNext ==
    /\ UNCHANGED service
    /\ \/ service = "delivery" /\ DeliveryNext
          /\ UNCHANGED <<mirrorVars, symbolVars, replyVars, packVars, keyVars, lfsVars>>
       \/ service = "mirrors" /\ MirrorNext
          /\ UNCHANGED <<deliveryVars, symbolVars, replyVars, packVars, keyVars, lfsVars>>
       \/ service = "symbols" /\ SymbolNext
          /\ UNCHANGED <<deliveryVars, mirrorVars, replyVars, packVars, keyVars, lfsVars>>
       \/ service = "replies" /\ ReplyNext
          /\ UNCHANGED <<deliveryVars, mirrorVars, symbolVars, packVars, keyVars, lfsVars>>
       \/ service = "packs" /\ PackNext
          /\ UNCHANGED <<deliveryVars, mirrorVars, symbolVars, replyVars, keyVars, lfsVars>>
       \/ service = "keys" /\ KeyNext
          /\ UNCHANGED <<deliveryVars, mirrorVars, symbolVars, replyVars, packVars, lfsVars>>
       \/ service = "lfs" /\ LfsNext
          /\ UNCHANGED <<deliveryVars, mirrorVars, symbolVars, replyVars, packVars, keyVars>>

servicesVars == <<service, deliveryVars, mirrorVars, symbolVars,
                  replyVars, packVars, keyVars, lfsVars>>

ServicesSpec == ServicesInit /\ [][ServicesNext]_servicesVars

\* The service at work keeps its state in shape.
ServicesTypeOK ==
    /\ service = "delivery" => DeliveryTypeOK
    /\ service = "mirrors" => MirrorTypeOK
    /\ service = "symbols" => SymbolTypeOK
    /\ service = "replies" => ReplyTypeOK
    /\ service = "packs" => PackTypeOK
    /\ service = "keys" => KeyTypeOK
    /\ service = "lfs" => LfsTypeOK

\* What was asked for comes about: the index of the head, of what a mirror
\* fetched, the handling of every message, the end of a key rotation, the
\* freeing of every slot.
ServicesCatchUp ==
    /\ IndexFollowsHead /\ FetchedIsIndexed /\ EveryMessageIsSeen
    /\ RotationEnds /\ EverySlotIsGivenBack
=============================================================================
