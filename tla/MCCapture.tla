----------------------------- MODULE MCCapture ------------------------------
(* The default configuration, reduced to one exact host and the suffix of  *)
(* Vertex: one name has the suffix without a dot, as the hosts of regions  *)
(* do, one has it at a dot; storage is in the same resolver domain, and no *)
(* target.                                                                 *)
EXTENDS Capture, TLC

CONSTANTS c1, c2, c3

Vertex   == <<"aiplatform.googleapis.com">>
Region   == <<"us-central1-", "aiplatform.googleapis.com">>
Under    == <<"eu", ".", "aiplatform.googleapis.com">>
Chat     == <<"chatgpt.com">>
Storage  == <<"storage", ".", "googleapis.com">>

MCNames    == {Region, Under, Chat, Storage}
MCDomains  == {Vertex, Chat}
MCSuffixes == {Vertex}
MCAllow    == {Vertex, Chat}

Interchangeable == Permutations(Clients)

=============================================================================
