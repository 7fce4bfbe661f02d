------------------------------- MODULE MCWeb --------------------------------
(***************************************************************************)
(* The pages of the web console for TLC, with the audit log their receipts *)
(* come from and the film that is made of them.  `mounted' says which of   *)
(* them moves; the others stay as they began.                              *)
(***************************************************************************)
EXTENDS Console, AuditChain, Storefront, AgentPanel, GatewayPanel, Receipts, Studio

VARIABLE mounted

auditVars == <<file, lists, cached, op, returned, next, crossed, restarts>>
webVars == <<mounted, consoleVars, auditVars, agentVars, panelVars, storeVars, receiptVars,
             studioVars>>

MCOrders == [velocity |-> 2, revocation |-> 1]
MCExpected == [velocity |-> Answer("DENY", FALSE, 2), revocation |-> Answer("REVOKED", FALSE, 0)]
\* The bounds of the signed policy, which the scenarios of the home page are
\* measured against.
MCBounds == <<2000, 1000, 500, 3, 5, 0, 0, 0, 0, 15000>>
MCShots == <<"agent", "sandbox">>

WebInit ==
  /\ mounted \in {"console", "log", "agents", "panel", "shop", "receipt", "film"}
  /\ ConsoleInit /\ Init /\ AgentInit /\ PanelInit /\ ShopInit /\ ReceiptInit
  /\ StudioInit
  /\ mounted # "panel" => ~reduced       \* the others do not read it

WebNext ==
  \/ /\ mounted = "console" /\ ConsoleNext
     /\ UNCHANGED <<mounted, auditVars, agentVars, panelVars, storeVars, receiptVars, studioVars>>
  \/ /\ mounted = "log" /\ Next
     /\ UNCHANGED <<mounted, consoleVars, agentVars, panelVars, storeVars, receiptVars, studioVars>>
  \/ /\ mounted = "agents" /\ AgentNext
     /\ UNCHANGED <<mounted, consoleVars, auditVars, panelVars, storeVars, receiptVars, studioVars>>
  \/ /\ mounted = "panel" /\ PanelNext
     /\ UNCHANGED <<mounted, consoleVars, auditVars, agentVars, storeVars, receiptVars, studioVars>>
  \/ /\ mounted = "shop" /\ ShopNext
     /\ UNCHANGED <<mounted, consoleVars, auditVars, agentVars, panelVars, receiptVars, studioVars>>
  \/ /\ mounted = "receipt" /\ ReceiptNext
     /\ UNCHANGED <<mounted, consoleVars, auditVars, agentVars, panelVars, storeVars, studioVars>>
  \/ /\ mounted = "film" /\ StudioNext
     /\ UNCHANGED <<mounted, consoleVars, auditVars, agentVars, panelVars, storeVars,
                    receiptVars>>

WebSpec == WebInit /\ [][WebNext]_webVars
-----------------------------------------------------------------------------
\* The types of the state that moves.
WebTyped ==
  /\ mounted = "console" => ConsoleTypes
  /\ mounted = "log" => TypeOK
  /\ mounted = "agents" => AgentTypes
  /\ mounted = "panel" => PanelTypes
  /\ mounted = "shop" => ShopTypes
  /\ mounted = "receipt" => ReceiptTypes
  /\ mounted = "film" => StudioTypes
=============================================================================
