------------------------------ MODULE MCStudio ------------------------------
(* Every route once with a form in order, and forms and callers that differ *)
(* from those in one point.                                                 *)
EXTENDS Studio, TLC

Configuration ==
  [catalogo |-> None, sottoModello |-> "flag", varianteMontaggio |-> "3guide",
   pRichiestaCm |-> 300, lRichiestaCm |-> 400, altezzaMontantiCm |-> 300,
   nModuli |-> None]

Configurations ==
  {Configuration,
   [Configuration EXCEPT !.catalogo = "pratic"],
   [Configuration EXCEPT !.catalogo = "unknown"],
   [Configuration EXCEPT !.catalogo = "pratic", !.sottoModello = "brera"],
   [Configuration EXCEPT !.varianteMontaggio = "9guide"],
   [Configuration EXCEPT !.pRichiestaCm = 0],
   [Configuration EXCEPT !.lRichiestaCm = None],
   [Configuration EXCEPT !.altezzaMontantiCm = 0],
   [Configuration EXCEPT !.nModuli = 0]}

Finales ==
  {c @@ [fotos |-> "both", deltaHCm |-> 80] : c \in Configurations}
    \cup {Configuration @@ [fotos |-> None, deltaHCm |-> 80],
          Configuration @@ [fotos |-> "both", deltaHCm |-> 0]}

Mask == [environment |-> "horeca", widthCm |-> 400, depthCm |-> 300,
         image |-> "jpeg", mask |-> "png"]
Masks == {Mask, [Mask EXCEPT !.mask = "jpeg"], [Mask EXCEPT !.widthCm = 10001],
          [Mask EXCEPT !.environment = "hotel"]}

Camera == [fxPx |-> None, fyPx |-> None, rvec |-> <<0, 0, 0>>,
           tvec |-> <<0, 0, 1>>, fotoLarghezzaPx |-> 800, fotoAltezzaPx |-> 600]
Preview ==
  [lRichiestaCm |-> 400, pRichiestaCm |-> 300, altezzaCm |-> 300, deltaHCm |-> 80,
   fissaggio |-> "autoportante", viewPreset |-> None, varianteMontaggio |-> "2guide",
   catalogo |-> None, statoLamelle |-> None, opzioneTecnica |-> None,
   nModuli |-> None, camera |-> Camera]
Previews ==
  {Preview,
   [Preview EXCEPT !.catalogo = "pratic", !.opzioneTecnica = "H30",
                   !.varianteMontaggio = "addossata"],
   [Preview EXCEPT !.camera = None, !.viewPreset = "laterale"],
   [Preview EXCEPT !.varianteMontaggio = None],
   [Preview EXCEPT !.deltaHCm = 0],
   [Preview EXCEPT !.nModuli = 2],
   [Preview EXCEPT !.deltaHCm = -1],
   [Preview EXCEPT !.camera = [Camera EXCEPT !.rvec = <<0, 0>>]]}

Calibration ==
  [puntiFuga |-> None, altezzaRiferimentoCm |-> None, focaleEquivalente35Mm |-> 28,
   puntiProfondita |-> <<"in", "in">>, puntiVerticali |-> None,
   altezzaVerticaleCm |-> None, fotoBase64 |-> "photo", punti |-> <<"in", "in">>,
   lineaLunghezzaCm |-> 400, lRichiestaCm |-> 400, pRichiestaCm |-> 300,
   altezzaCm |-> 300, puntoControllo |-> "in", lineaControlloLunghezzaCm |-> 200]
Calibrations ==
  {Calibration,
   [Calibration EXCEPT !.puntiFuga = [i \in 1..8 |-> "in"]],
   [Calibration EXCEPT !.puntiFuga = <<"in">>],
   [Calibration EXCEPT !.punti = <<"in">>],
   [Calibration EXCEPT !.punti = <<"in", "out">>],
   [Calibration EXCEPT !.focaleEquivalente35Mm = 1],
   [Calibration EXCEPT !.puntoControllo = "out"]}

Analysis == [fotoBase64 |-> "photo"]

Request(route, form) ==
  [route |-> route, form |-> form, oversized |-> FALSE, throttled |-> FALSE,
   session |-> "live", agreed |-> TRUE, completed |-> TRUE]
Regular ==
  {Request("catalog", c) : c \in {None, "arquati", "pratic", "other"}}
    \cup {Request(route, None) : route \in
           {"catalogs", "branding", "branding/logo", "catalog/services/status"}}
    \cup {Request(route, c) : route \in {"catalog/configura", "catalog/render"},
                              c \in Configurations}
    \cup {Request("catalog/render-finale", f) : f \in Finales}
    \cup {Request("catalog/render-mask", f) : f \in Masks}
    \cup {Request("catalog/render3d", f) : f \in Previews}
    \cup {Request("catalog/perspective", f) : f \in Calibrations}
    \cup {Request("catalog/perspective/auto", f) :
           f \in {Analysis, [Analysis EXCEPT !.fotoBase64 = None]}}
InOrderOnEachRoute ==
  {Request("catalogs", None), Request("branding", None),
   Request("catalog/configura", Configuration), Request("catalog/render3d", Preview),
   Request("catalog/perspective", Calibration), Request("catalog/perspective/auto", Analysis),
   Request("catalog/render-finale", Configuration @@ [fotos |-> "both", deltaHCm |-> 80])}

\* The last two are caught by two checks at once: which comes first counts.
Unready(r) ==
  {[r EXCEPT !.oversized = TRUE], [r EXCEPT !.throttled = TRUE],
   [r EXCEPT !.session = "none"], [r EXCEPT !.session = "expired"],
   [r EXCEPT !.session = "deleted"], [r EXCEPT !.agreed = FALSE],
   [r EXCEPT !.completed = FALSE],
   [r EXCEPT !.oversized = TRUE, !.throttled = TRUE],
   [r EXCEPT !.session = "deleted", !.completed = FALSE]}
MCRequests == Regular \cup UNION {Unready(r) : r \in InOrderOnEachRoute}

MCServices == [gemini: BOOLEAN, blender: BOOLEAN, geocalib: BOOLEAN]
MCDisks == [path: BOOLEAN, primary: {"missing", "invalid", "valid"},
            assets: {{}, {[path |-> "a.png", sotto_modello |-> None]}},
            pratic: {"absent", "invalid", "valid"}, logo: BOOLEAN]
MCGuideCount == "2guide" :> 2 @@ "3guide" :> 3 @@ "9guide" :> 9 @@ "addossata" :> None
MCPriceable == "arquati" :> {<<"flag", "2guide">>, <<"flag", "3guide">>}
               @@ "pratic" :> {<<"brera", "3guide">>}
=============================================================================
