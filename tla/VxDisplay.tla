----------------------------- MODULE VxDisplay -----------------------------
(***************************************************************************)
(* A display of the vx library: its resource manager (vx_resc_manager),    *)
(* which follows what every buffer claims to use and what the GL context   *)
(* has been sent, and its renderer (vx_gl_renderer), which keeps the       *)
(* resources and each buffer's render codes.  A display call runs under    *)
(* the display's mutex, so each is one operator on the display's state     *)
(* here.  Render codes stand for the set of resources they name, and a     *)
(* buffer for which none came has None.                                    *)
(***************************************************************************)
CONSTANTS
  Buffers,    (* buffers of all worlds                                     *)
  Resources,  (* ids of resources                                          *)
  None        (* NULL                                                      *)

ASSUME VxDisplayAssumption == \A set \in SUBSET Resources : None # set

Display ==
  [ claims  : [Buffers -> SUBSET Resources],           \* mgr->allLiveSets
    remote  : SUBSET Resources,                        \* mgr->remoteResc
    held    : SUBSET Resources,                        \* renderer's resource_map
    dealloc : SUBSET Resources,                        \* renderer's dealloc_ids
    codes   : [Buffers -> {None} \cup SUBSET Resources] ]

EmptyDisplay ==
  [ claims |-> [b \in Buffers |-> {}], remote |-> {}, held |-> {},
    dealloc |-> {}, codes |-> [b \in Buffers |-> None] ]

\* Resources that some buffer claims.
Claimed(claims) == UNION {claims[b] : b \in Buffers}

\* Mutant of BufferResources: only this buffer's own claim is looked at.
BufferResources_OwnClaim(disp, b, claim) ==
  LET unused == disp.claims[b] \ claim
  IN [disp EXCEPT !.claims[b] = claim, !.remote = @ \ unused, !.dealloc = @ \cup unused]

\* OP_BUFFER_RESOURCES: the buffer's claim is replaced.  What it claimed and
\* nobody claims now is to be deallocated before the next frame is drawn.
BufferResources(disp, b, claim) ==
  LET claims == [disp.claims EXCEPT ![b] = claim]
      unused == disp.claims[b] \ Claimed(claims)
  IN [disp EXCEPT !.claims = claims, !.remote = @ \ unused, !.dealloc = @ \cup unused]

\* Mutant of AddResources: what is flagged for deletion stays flagged.
AddResources_Flagged(disp, resources) ==
  LET transmit == resources \ disp.remote
  IN [disp EXCEPT !.remote = @ \cup transmit, !.held = @ \cup transmit]

\* Only resources that are not there yet are handed to the renderer, which no
\* longer means to delete them.
AddResources(disp, resources) ==
  LET transmit == resources \ disp.remote
  IN [disp EXCEPT !.remote = @ \cup transmit, !.held = @ \cup transmit,
                  !.dealloc = @ \ transmit]

\* OP_BUFFER_CODES
SetRenderCodes(disp, b, codes) == [disp EXCEPT !.codes[b] = codes]

\* A frame is drawn, after the deallocations.
DrawFrame(disp) == [disp EXCEPT !.held = @ \ disp.dealloc, !.dealloc = {}]
=============================================================================
