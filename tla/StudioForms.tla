----------------------------- MODULE StudioForms -----------------------------
(***************************************************************************)
(* What the studio's requests may contain, and what is made of them before *)
(* any service is called: which forms are valid, what the 3D service is    *)
(* asked to draw (Scene3dService.render), which reference images the image *)
(* generator is given (RenderService), and how an error becomes an answer  *)
(* (HttpExceptionFilter).  Operators only.                                 *)
(*                                                                         *)
(* A field that is absent is None.  Measures are in centimetres; a point   *)
(* of a photo is "in" it or "out" of it.  Colours, options and the words   *)
(* of a prompt are passed on, and decide nothing here.                     *)
(***************************************************************************)
EXTENDS Null, Integers, Sequences, FiniteSets

CONSTANTS
  GuideCount,  \* varianti_montaggio -> n when the key reads "<n>guide", or None
  Priceable    \* catalog -> what PergolaEngine.configura prices: pairs of
               \* sottoModello and varianteMontaggio (a ConfiguratoreError else)

CatalogIds == {"arquati", "pratic"}

OrElse(value, default) == IF value = None THEN default ELSE value
Absent(value, S) == value = None \/ value \in S
AtLeast(value, low) == value # None /\ value >= low
AbsentOrAtLeast(value, low) == value = None \/ value >= low

\* An array of min to max points of the photo, or none where it is optional.
PointsIn(points, min, max) ==
  /\ Len(points) \in min..max
  /\ \A i \in DOMAIN points : points[i] = "in"
AbsentOrPoints(points, min, max) == points = None \/ PointsIn(points, min, max)

-----------------------------------------------------------------------------
(* The forms, as the ValidationPipe lets them in.                          *)

ValidConfigura(f) ==
  /\ Absent(f.catalogo, CatalogIds)
  /\ AtLeast(f.pRichiestaCm, 1) /\ AtLeast(f.lRichiestaCm, 1)
  /\ AtLeast(f.altezzaMontantiCm, 1)
  /\ AbsentOrAtLeast(f.nModuli, 1)

ValidFinale(f) ==
  ValidConfigura(f) /\ f.fotos # None /\ AtLeast(f.deltaHCm, 1)

ValidMask(f) ==
  /\ f.environment \in {"residenziale", "horeca"}
  /\ f.widthCm \in 1..10000 /\ f.depthCm \in 1..10000
  /\ f.image \in {"png", "jpeg", "webp"} /\ f.mask = "png"

ValidCamera(c) ==
  /\ AbsentOrAtLeast(c.fxPx, 1) /\ AbsentOrAtLeast(c.fyPx, 1)
  /\ Len(c.rvec) = 3 /\ Len(c.tvec) = 3
  /\ c.fotoLarghezzaPx >= 1 /\ c.fotoAltezzaPx >= 1

ValidScene(f) ==
  /\ Absent(f.catalogo, CatalogIds)
  /\ Absent(f.statoLamelle, {"chiuse", "aperte", "impacchettate"})
  /\ Absent(f.opzioneTecnica, {"H20", "H30"})
  /\ Absent(f.nModuli, {1})
  /\ f.lRichiestaCm >= 1 /\ f.pRichiestaCm >= 1
  /\ f.altezzaCm >= 1 /\ f.deltaHCm >= 0
  /\ f.fissaggio \in {"autoportante", "parete"}
  /\ f.camera # None => ValidCamera(f.camera)
  /\ Absent(f.viewPreset, {"isometrico", "laterale", "dall_alto"})

ValidAnalysis(f) == f.fotoBase64 # None

ValidPerspective(f) ==
  /\ AbsentOrPoints(f.puntiFuga, 8, 12)
  /\ AbsentOrAtLeast(f.altezzaRiferimentoCm, 0)
  /\ Absent(f.focaleEquivalente35Mm, 5..1000)
  /\ AbsentOrPoints(f.puntiProfondita, 2, 2)
  /\ AbsentOrPoints(f.puntiVerticali, 2, 2)
  /\ AbsentOrAtLeast(f.altezzaVerticaleCm, 1)
  /\ f.fotoBase64 # None
  /\ PointsIn(f.punti, 2, 2)
  /\ f.lineaLunghezzaCm >= 0
  /\ f.lRichiestaCm >= 1 /\ f.pRichiestaCm >= 1 /\ f.altezzaCm >= 1
  /\ f.puntoControllo # None => f.puntoControllo = "in"
  /\ AbsentOrAtLeast(f.lineaControlloLunghezzaCm, 1)

-----------------------------------------------------------------------------
(* What the 3D service draws.                                              *)

\* The form has the height at the wall and the drop; pratic roofs are level.
FrontHeight(f) ==
  IF f.catalogo = "pratic" THEN f.altezzaCm ELSE f.altezzaCm - f.deltaHCm

\* What /render3d is asked to draw; a view or a number not sent is None.
Scene(f) ==
  [catalogo |-> OrElse(f.catalogo, "arquati"),
   L_cm |-> f.lRichiestaCm, P_cm |-> f.pRichiestaCm,
   H_cm |-> FrontHeight(f), deltaH_cm |-> f.deltaHCm,
   fissaggio |-> f.fissaggio, viewPreset |-> f.viewPreset,
   nGuide |-> IF f.varianteMontaggio = None THEN None
              ELSE GuideCount[f.varianteMontaggio]]

\* The form render-finale fills for one reference view.
ReferenceView(f, preset) ==
  [lRichiestaCm |-> f.lRichiestaCm, pRichiestaCm |-> f.pRichiestaCm,
   altezzaCm |-> f.altezzaMontantiCm, deltaHCm |-> f.deltaHCm,
   fissaggio |-> "parete", viewPreset |-> preset, catalogo |-> None,
   varianteMontaggio |-> f.varianteMontaggio]

Presets == <<"isometrico", "laterale", "dall_alto">>

-----------------------------------------------------------------------------
(* What is priced, and shown to the image generator.                       *)

Priced(catalog, f) ==
  <<f.sottoModello, f.varianteMontaggio>> \in Priceable[catalog]

\* Images tagged for the sub-model, or all of them when none is.
ReferenceAssets(assets, f) ==
  LET tagged == {a \in assets : a.sotto_modello = f.sottoModello}
  IN IF tagged # {} THEN tagged ELSE assets

-----------------------------------------------------------------------------
(* How an error becomes an answer.                                         *)

DomainCodes ==
  {"SETUP_REQUIRED", "UNAUTHENTICATED", "SESSION_EXPIRED", "CATALOGO_NON_DISPONIBILE",
   "CONFIGURAZIONE_NON_VALIDA", "NESSUNA_IMMAGINE_RIFERIMENTO", "RENDER_NON_CONFIGURATO",
   "RENDER_FALLITO", "RENDER_3D_NON_CONFIGURATO", "RENDER_3D_FALLITO",
   "PROSPETTIVA_NON_CONFIGURATA", "PROSPETTIVA_FALLITA", "PROSPETTIVA_NON_CALCOLABILE",
   "ANALISI_FOTO_FALLITA"}
HttpCodes == {"BAD_REQUEST", "UNAUTHORIZED", "FORBIDDEN", "NOT_FOUND",
              "TOO_MANY_REQUESTS", "ERROR"}

Errors == [kind: {"domain", "http", "other"}, code: DomainCodes \cup {None}, status: Nat]
Answers == [status: Nat, image: BOOLEAN,
            code: DomainCodes \cup HttpCodes \cup {"INTERNAL_ERROR", None}]

Domain(code, status) == [kind |-> "domain", code |-> code, status |-> status]
Http(status) == [kind |-> "http", code |-> None, status |-> status]
Unforeseen == [kind |-> "other", code |-> None, status |-> 500]

HttpCode(status) ==
  CASE status = 400 -> "BAD_REQUEST" [] status = 401 -> "UNAUTHORIZED"
    [] status = 403 -> "FORBIDDEN" [] status = 404 -> "NOT_FOUND"
    [] status = 429 -> "TOO_MANY_REQUESTS" [] OTHER -> "ERROR"

AnswerTo(error) ==
  [status |-> error.status, image |-> FALSE,
   code |-> CASE error.kind = "domain" -> error.code
              [] error.kind = "http" -> HttpCode(error.status)
              [] OTHER -> "INTERNAL_ERROR"]

Done == [status |-> 200, image |-> FALSE, code |-> None]
Image == [status |-> 200, image |-> TRUE, code |-> None]
=============================================================================
