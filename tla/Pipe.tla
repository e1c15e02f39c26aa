-------------------------------- MODULE Pipe --------------------------------
(***************************************************************************)
(* What the protocol promises one direction of traffic: a reliable pipe.   *)
(* Messages come out as they went in, each of them, in order.              *)
(***************************************************************************)
EXTENDS Naturals, Sequences

CONSTANT Message

VARIABLES sent, delivered

pipeVars == <<sent, delivered>>

PipeInit == sent = <<>> /\ delivered = <<>>

Accept ==
    /\ sent' \in Seq(Message)
    /\ Len(sent') = Len(sent) + 1
    /\ SubSeq(sent', 1, Len(sent)) = sent
    /\ UNCHANGED delivered

Deliver ==
    /\ Len(delivered) < Len(sent)
    /\ delivered' = Append(delivered, sent[Len(delivered) + 1])
    /\ UNCHANGED sent

PipeNext == Accept \/ Deliver

PipeSpec == PipeInit /\ [][PipeNext]_pipeVars /\ WF_pipeVars(Deliver)
=============================================================================
