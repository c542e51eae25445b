-------------------------- MODULE MCGatewayStream --------------------------
(* GatewayStream on a small instance: text, a whole tool call, and one whose  *)
(* arguments are not JSON.                                                    *)
EXTENDS GatewayStream

MCContent == {"text", "tool", "badTool"}
=============================================================================
