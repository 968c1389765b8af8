------------------------------- MODULE Studio -------------------------------
(***************************************************************************)
(* The process that prices, draws and renders: it loads its bundles at     *)
(* boot or refuses to start (BundleService), lets a request in (body       *)
(* parser, throttle, SetupGuard, SessionAuthGuard, ValidationPipe), and    *)
(* answers it with the help of three services, Blender, GeoCalib and the   *)
(* image generator, each of which may be missing, silent, refuse, or       *)
(* answer what cannot be read.                                             *)
(*                                                                         *)
(* Requests share nothing but what boot left, so one at a time is served;  *)
(* `step' is what its handler is waiting for.                              *)
(***************************************************************************)
EXTENDS StudioForms

CONSTANTS
  Requests,  \* [route, form, oversized, throttled, session, agreed, completed]
  Services,  \* the environments the process may start in: who is configured
  Disks      \* what it may find: [path, primary, assets, pratic, logo]

Public == {"branding", "branding/logo"}
Preparation == {"catalog", "catalogs", "catalog/services/status"}
Routes == Public \cup Preparation \cup
  {"catalog/configura", "catalog/render", "catalog/render-finale", "catalog/render-mask",
   "catalog/render3d", "catalog/perspective", "catalog/perspective/auto"}

\* What the guards find of the caller: no cookie, no valid session, one in order,
\* one that a logout or a new password deletes after it was read.
Sessions == {"none", "expired", "live", "deleted"}

\* What a handler waits for, once it is past its checks.
Waits == {"assets", "generate", "mask", "views", "blender", "calibrate", "detect"}

\* Measures are whole numbers; what is priced has a mounting.
ASSUME StudioAssumption ==
  /\ \A r \in Requests : r.route \in Routes /\ r.session \in Sessions
  /\ \A r \in Requests : r.route = "catalog/render-finale" =>
       {r.form.altezzaMontantiCm, r.form.deltaHCm} \subseteq Int \cup {None}
  /\ \A priced \in Priceable["arquati"] : priced[2] # None
  /\ None \notin Requests /\ None \notin Routes \cup Waits \cup CatalogIds
  /\ None \notin Errors /\ None \notin Answers
  /\ None \notin {"gemini", "blender", "geocalib"}

VARIABLES
  disk,      \* BUNDLE_PATH and what is there
  services,  \* GEMINI_API_KEY, BLENDER_SERVICE_URL, GEOCALIB_SERVICE_URL
  process,   \* "starting", "serving" or "refused"
  loaded,    \* the catalogs loaded
  request,   \* the request being served
  step,      \* what its handler awaits
  scenes,    \* the scenes Blender was asked to draw
  contents,  \* the reference views the generator is shown
  heard,     \* history: what the services did, in order
  answer

studioVars == <<disk, services, process, loaded, request, step, scenes, contents,
          heard, answer>>
served == <<disk, services, process, loaded>>

BlenderOutcomes == {"unreachable", "failed", "garbled", "drawn"}
GeoCalibOutcomes == {"unreachable", "rejected", "failed", "garbled", "solved"}
GeneratorOutcomes == {"throws", "no_image", "image"}

StudioTypeOK ==
  /\ disk \in Disks /\ services \in Services
  /\ process \in {"starting", "serving", "refused"}
  /\ loaded \subseteq CatalogIds
  /\ request \in Requests \cup {None}
  /\ scenes \in Seq([fissaggio: {"parete", "autoportante"}, L_cm: Nat, P_cm: Nat,
                     H_cm: Int, deltaH_cm: Nat, nGuide: Nat \cup {None},
                     viewPreset: {Presets[i] : i \in DOMAIN Presets} \cup {None},
                     catalogo: CatalogIds])
  /\ \A i \in DOMAIN contents : \E j \in DOMAIN Presets : contents[i] = Presets[j]
  /\ \A i \in DOMAIN heard :
       heard[i] \in BlenderOutcomes \cup GeoCalibOutcomes \cup GeneratorOutcomes
                    \cup {"unread"}
  /\ answer = None \/ answer.status \in {200, 400, 401, 403, 404, 422, 429, 500, 502, 503}

StudioInit ==
  /\ disk \in Disks /\ services \in Services
  /\ process = "starting" /\ loaded = {}
  /\ request = None /\ step = None /\ answer = None
  /\ scenes = <<>> /\ contents = <<>> /\ heard = <<>>

-----------------------------------------------------------------------------
(* Boot.                                                                   *)

\* onModuleInit: any exception, an invalid second bundle's too, ends it.
Boot ==
  /\ process = "starting"
  /\ IF disk.path /\ disk.primary = "valid" /\ disk.pratic # "invalid"
     THEN /\ process' = "serving"
          /\ loaded' = {"arquati"} \cup (IF disk.pratic = "valid" THEN {"pratic"} ELSE {})
     ELSE process' = "refused" /\ UNCHANGED loaded
  /\ UNCHANGED <<disk, services, request, step, scenes, contents, heard, answer>>

-----------------------------------------------------------------------------
(* A request comes in.                                                     *)

\* SetupGuard looks at sessions in order only; the others are refused next.
SetupMissing(r) ==
  /\ r.route \notin Public /\ r.session \in {"live", "deleted"}
  /\ ~r.agreed \/ (r.route \notin Preparation /\ ~r.completed)

\* Prolonging a session that is gone fails in validateSession.
SessionRefusal(r) ==
  IF r.route \in Public THEN None
  ELSE CASE r.session = "none" -> Domain("UNAUTHENTICATED", 401)
         [] r.session = "expired" -> Domain("SESSION_EXPIRED", 401)
         [] r.session = "deleted" -> Unforeseen
         [] r.session = "live" -> None

Valid(r) ==
  CASE r.route \in {"catalog/configura", "catalog/render"} -> ValidConfigura(r.form)
    [] r.route = "catalog/render-finale" -> ValidFinale(r.form)
    [] r.route = "catalog/render-mask" -> ValidMask(r.form)
    [] r.route = "catalog/render3d" -> ValidScene(r.form)
    [] r.route = "catalog/perspective" -> ValidPerspective(r.form)
    [] r.route = "catalog/perspective/auto" -> ValidAnalysis(r.form)
    [] OTHER -> TRUE

\* The body parser comes first, its error is no HttpException; then the
\* throttle, the guards and the pipe.
Refusal(r) ==
  IF r.oversized THEN Unforeseen
  ELSE IF r.throttled THEN Http(429)
  ELSE IF SetupMissing(r) THEN Domain("SETUP_REQUIRED", 403)
  ELSE IF SessionRefusal(r) # None THEN SessionRefusal(r)
  ELSE IF ~Valid(r) THEN Http(400)
  ELSE None

Receive(r) ==
  /\ process = "serving" /\ request = None
  /\ request' = r
  /\ IF Refusal(r) = None THEN step' = r.route /\ UNCHANGED answer
     ELSE step' = None /\ answer' = AnswerTo(Refusal(r))
  /\ UNCHANGED <<served, scenes, contents, heard>>

Reply(a) == answer' = a /\ step' = None
Fail(error) == Reply(AnswerTo(error))
Await(next) == step' = next /\ UNCHANGED answer
Awaiting(s) == step = s /\ answer = None
Hears(outcome) == heard' = Append(heard, outcome)

\* The client has its answer.
Finish ==
  /\ answer # None
  /\ request' = None /\ step' = None /\ answer' = None
  /\ scenes' = <<>> /\ contents' = <<>> /\ heard' = <<>>
  /\ UNCHANGED served

-----------------------------------------------------------------------------
(* Catalog, prices, branding.                                              *)

Entry(id) == OrElse(id, "arquati")
NotLoaded == Domain("CATALOGO_NON_DISPONIBILE", 400)

\* getCatalog, getCatalogs and getBranding read what boot left.
ShowCatalog ==
  /\ Awaiting("catalog") \/ Awaiting("catalogs") \/ Awaiting("branding")
  /\ IF step = "catalog" /\ Entry(request.form) \notin loaded
     THEN Fail(NotLoaded) ELSE Reply(Done)
  /\ UNCHANGED <<served, request, scenes, contents, heard>>

ShowLogo ==
  /\ Awaiting("branding/logo")
  /\ IF disk.logo THEN Reply(Done) ELSE Fail(Http(404))
  /\ UNCHANGED <<served, request, scenes, contents, heard>>

\* BundleService.configura: None, or why the product cannot be priced.
NotPriced(f, id) ==
  IF Entry(id) \notin loaded THEN NotLoaded
  ELSE IF ~Priced(Entry(id), f) THEN Domain("CONFIGURAZIONE_NON_VALIDA", 400)
  ELSE None

Configura ==
  /\ Awaiting("catalog/configura")
  /\ IF NotPriced(request.form, request.form.catalogo) # None
     THEN Fail(NotPriced(request.form, request.form.catalogo)) ELSE Reply(Done)
  /\ UNCHANGED <<served, request, scenes, contents, heard>>

-----------------------------------------------------------------------------
(* Image generation.                                                       *)

NoGenerator == Domain("RENDER_NON_CONFIGURATO", 503)
NoImage == Domain("RENDER_FALLITO", 502)

\* Both renderings price the product in the primary catalog.
Renderable(f) == NotPriced(f, None)

Render ==
  /\ Awaiting("catalog/render")
  /\ IF ~services.gemini THEN Fail(NoGenerator)
     ELSE IF Renderable(request.form) # None THEN Fail(Renderable(request.form))
     ELSE IF ReferenceAssets(disk.assets, request.form) = {}
     THEN Fail(Domain("NESSUNA_IMMAGINE_RIFERIMENTO", 422))
     ELSE Await("assets")
  /\ UNCHANGED <<served, request, scenes, contents, heard>>

\* The reference images are read from the bundle; one may be gone.
ReadAssets(readable) ==
  /\ Awaiting("assets")
  /\ IF readable THEN Await("generate") /\ UNCHANGED heard
     ELSE Fail(Unforeseen) /\ Hears("unread")
  /\ UNCHANGED <<served, request, scenes, contents>>

GenerateRender(outcome) ==
  /\ Awaiting("generate") /\ request.route = "catalog/render"
  /\ Hears(outcome)
  /\ CASE outcome = "image" -> Reply(Image)
       [] outcome = "no_image" -> Fail(NoImage)
       [] outcome = "throws" -> Fail(Unforeseen)
  /\ UNCHANGED <<served, request, scenes, contents>>

RenderMask ==
  /\ Awaiting("catalog/render-mask")
  /\ IF services.gemini THEN Await("mask") ELSE Fail(NoGenerator)
  /\ UNCHANGED <<served, request, scenes, contents, heard>>

GenerateMask(outcome) ==
  /\ Awaiting("mask")
  /\ Hears(outcome)
  /\ IF outcome = "image" THEN Reply(Image) ELSE Fail(NoImage)
  /\ UNCHANGED <<served, request, scenes, contents>>

RenderFinale ==
  /\ Awaiting("catalog/render-finale")
  /\ IF ~services.gemini THEN Fail(NoGenerator)
     ELSE IF Renderable(request.form) # None THEN Fail(Renderable(request.form))
     ELSE Await("views")
  /\ UNCHANGED <<served, request, scenes, contents, heard>>

Asked == Len(heard)
ViewScene(preset) == Scene(ReferenceView(request.form, preset))

\* One reference view after the other; one that fails is skipped.  Without the
\* service no scene is made.
AskView(outcome) ==
  /\ Awaiting("views") /\ Asked < Len(Presets)
  /\ IF services.blender THEN scenes' = Append(scenes, ViewScene(Presets[Asked + 1]))
     ELSE outcome = "unreachable" /\ UNCHANGED scenes
  /\ contents' = IF outcome = "drawn" THEN Append(contents, Presets[Asked + 1])
                 ELSE contents
  /\ Hears(outcome)
  /\ Await(IF Asked + 1 = Len(Presets) THEN "generate" ELSE "views")
  /\ UNCHANGED <<served, request>>

Generations == Cardinality({i \in DOMAIN heard : heard[i] \in GeneratorOutcomes})

\* Faulty: it is tried again until there is an image.
TriedAlways == FALSE

\* Without an image it is tried once more, with the same contents.
TriedAgain == Generations > 0

GenerateFinale(outcome) ==
  /\ Awaiting("generate") /\ request.route = "catalog/render-finale"
  /\ Generations < 3    \* bound: for the faulty form above
  /\ Hears(outcome)
  /\ CASE outcome = "image" -> Reply(Image)
       [] outcome = "throws" -> Fail(Unforeseen)
       [] outcome = "no_image" -> IF TriedAgain THEN Fail(NoImage) ELSE Await("generate")
  /\ UNCHANGED <<served, request, scenes, contents>>

-----------------------------------------------------------------------------
(* The 3D preview and the perspective of the photo.                        *)

\* Faulty: it is answered as a rendering that failed, of another service.
NotDrawnAsRendering == NoImage

NotDrawn == Domain("RENDER_3D_FALLITO", 502)

Render3d ==
  /\ Awaiting("catalog/render3d")
  /\ IF services.blender
     THEN Await("blender") /\ scenes' = <<Scene(request.form)>>
     ELSE Fail(Domain("RENDER_3D_NON_CONFIGURATO", 503)) /\ UNCHANGED scenes
  /\ UNCHANGED <<served, request, contents, heard>>

\* Silence includes the timeout; reading the body is outside the try.
AnswerRender3d(outcome) ==
  /\ Awaiting("blender")
  /\ Hears(outcome)
  /\ CASE outcome = "drawn" -> Reply(Image)
       [] outcome \in {"unreachable", "failed"} -> Fail(NotDrawn)
       [] outcome = "garbled" -> Fail(Unforeseen)
  /\ UNCHANGED <<served, request, scenes, contents>>

NoPerspective == Domain("PROSPETTIVA_NON_CONFIGURATA", 503)

Perspective ==
  /\ Awaiting("catalog/perspective") \/ Awaiting("catalog/perspective/auto")
  /\ IF ~services.geocalib THEN Fail(NoPerspective)
     ELSE Await(IF step = "catalog/perspective" THEN "calibrate" ELSE "detect")
  /\ UNCHANGED <<served, request, scenes, contents, heard>>

\* "garbled" is also a refusal whose reason cannot be read.
Calibrated(outcome) ==
  /\ Awaiting("calibrate")
  /\ Hears(outcome)
  /\ CASE outcome = "solved" -> Reply(Done)
       [] outcome \in {"unreachable", "failed"} -> Fail(Domain("PROSPETTIVA_FALLITA", 502))
       [] outcome = "rejected" -> Fail(Domain("PROSPETTIVA_NON_CALCOLABILE", 422))
       [] outcome = "garbled" -> Fail(Unforeseen)
  /\ UNCHANGED <<served, request, scenes, contents>>

\* Here everything, the reading of the body too, is inside the try.
Detected(outcome) ==
  /\ Awaiting("detect")
  /\ Hears(outcome)
  /\ IF outcome = "solved" THEN Reply(Done)
     ELSE Fail(Domain("ANALISI_FOTO_FALLITA", 502))
  /\ UNCHANGED <<served, request, scenes, contents>>

\* Whatever the two /health say, or do not say, there is an answer.
ServicesStatus ==
  /\ Awaiting("catalog/services/status")
  /\ Reply(Done)
  /\ UNCHANGED <<served, request, scenes, contents, heard>>

\* The process is started again, on what was repaired or deployed.
Redeploy ==
  /\ process # "starting" /\ request = None
  /\ disk' \in Disks /\ services' \in Services
  /\ process' = "starting" /\ loaded' = {}
  /\ UNCHANGED <<request, step, scenes, contents, heard, answer>>

ServiceSteps ==
  \/ \E readable \in BOOLEAN : ReadAssets(readable)
  \/ \E outcome \in GeneratorOutcomes :
       GenerateRender(outcome) \/ GenerateMask(outcome) \/ GenerateFinale(outcome)
  \/ \E outcome \in BlenderOutcomes : AskView(outcome) \/ AnswerRender3d(outcome)
  \/ \E outcome \in GeoCalibOutcomes : Calibrated(outcome) \/ Detected(outcome)

Handlers ==
  \/ ShowCatalog \/ ShowLogo \/ Configura \/ Render \/ RenderMask
  \/ RenderFinale \/ Render3d \/ Perspective \/ ServicesStatus

StudioNext ==
  \/ Boot \/ Redeploy
  \/ \E r \in Requests : Receive(r)
  \/ Handlers \/ ServiceSteps \/ Finish

\* Handlers run on; every call of a service ends, by its timeout at the latest.
StudioSpec == StudioInit /\ [][StudioNext]_studioVars

-----------------------------------------------------------------------------
(* Properties.                                                             *)

Answered(route) == answer # None /\ request.route = route

\* The service a route cannot do without, and what it may say.
ServiceOf(route) ==
  CASE route \in {"catalog/render", "catalog/render-finale", "catalog/render-mask"} -> "gemini"
    [] route = "catalog/render3d" -> "blender"
    [] route \in {"catalog/perspective", "catalog/perspective/auto"} -> "geocalib"
    [] OTHER -> None
OutcomesOf(service) ==
  CASE service = "gemini" -> GeneratorOutcomes
    [] service = "blender" -> BlenderOutcomes
    [] service = "geocalib" -> GeoCalibOutcomes

\* The codes that name a service, when it is missing and when it fails.
MissingCode(service) ==
  CASE service = "gemini" -> "RENDER_NON_CONFIGURATO"
    [] service = "blender" -> "RENDER_3D_NON_CONFIGURATO"
    [] service = "geocalib" -> "PROSPETTIVA_NON_CONFIGURATA"
FailureCode(route) ==
  CASE ServiceOf(route) = "gemini" -> "RENDER_FALLITO"
    [] route = "catalog/render3d" -> "RENDER_3D_FALLITO"
    [] route = "catalog/perspective" -> "PROSPETTIVA_FALLITA"
    [] route = "catalog/perspective/auto" -> "ANALISI_FOTO_FALLITA"

\* What a page is told, by the last thing that happened: the result if it came,
\* the refusal of a photo, an anonymous 500 of what the handler does not catch,
\* and else the code of the route.
Verdict(route, last) ==
  LET uncaught ==
        CASE route = "catalog/render" -> {"unread", "throws"}
          [] route = "catalog/render-finale" -> {"throws"}
          [] route \in {"catalog/render3d", "catalog/perspective"} -> {"garbled"}
          [] OTHER -> {} IN
  IF last \in {"image", "drawn", "solved"} THEN <<200, None>>
  ELSE IF last \in uncaught THEN <<500, "INTERNAL_ERROR">>
  ELSE IF last = "rejected" /\ route = "catalog/perspective"
  THEN <<422, "PROSPETTIVA_NON_CALCOLABILE">>
  ELSE <<502, FailureCode(route)>>

\* A dealer who has signed and completed the set-up sends a form in order.
InOrder(r) ==
  /\ ~r.oversized /\ ~r.throttled
  /\ r.session = "live" /\ r.agreed /\ r.completed
  /\ Valid(r)

\* A page that needs a service is told how that service fared, in the end: that
\* it is missing, that it failed, that it refused the photo, each by the code of
\* that service and of no other, and a success if and only if it succeeded; the
\* anonymous 500 is left for what the handler does not catch.  Blender failing
\* the views of a composite is never what the page is told.  No service is
\* called for a request that is not in order; one that calls none is anonymous
\* only if its body is too large or its session is deleted meanwhile
\* (HttpExceptionFilter, the handlers of BundleController, RenderController,
\* Scene3dController and PerspectiveController).
FailuresNamed ==
  answer # None =>
    LET route == request.route
        service == ServiceOf(route)
        told == <<answer.status, answer.code>> IN
    IF heard # <<>>
    THEN /\ InOrder(request) /\ service # None /\ services[service]
         /\ heard[Len(heard)] \in OutcomesOf(service) \cup {"unread"}
         /\ told = Verdict(route, heard[Len(heard)])
    ELSE service # None =>
         /\ answer.status \notin {200, 502}
         /\ answer.status = 503 <=> InOrder(request) /\ ~services[service]
         /\ answer.status = 503 => told = <<503, MissingCode(service)>>
         /\ answer.status = 500 => request.oversized \/ request.session = "deleted"

\* The reference views Blender drew among the first n, and those shown.
DrawnViews(n) == {i \in 1..n : heard[i] = "drawn"}
PresetsAt(S) == {Presets[i] : i \in S}
Shown == {contents[i] : i \in DOMAIN contents}

\* The composite is shown exactly the views Blender drew of the product asked
\* for, the front below the wall by the drop: where Blender is configured it is
\* asked for all three, whatever became of the others.  There is an image if
\* and only if the last of at most two generations gave one, the second only
\* after a first without, and only of a product the primary catalog prices
\* (RenderFinaleService.renderFinale).
FinaleAsAsked ==
  Answered("catalog/render-finale") /\ heard # <<>> =>
    LET form == request.form
        last == heard[Len(heard)] IN
    /\ Priced("arquati", form)
    /\ Len(scenes) = IF services.blender THEN Len(Presets) ELSE 0
    /\ \A i \in DOMAIN scenes :
         /\ scenes[i].L_cm = form.lRichiestaCm /\ scenes[i].P_cm = form.pRichiestaCm
         /\ scenes[i].viewPreset = Presets[i]
         /\ scenes[i].H_cm + form.deltaHCm = form.altezzaMontantiCm
         /\ scenes[i].nGuide = GuideCount[form.varianteMontaggio]
    /\ Len(heard) \in {Len(Presets) + 1, Len(Presets) + 2}
    /\ Len(contents) = Cardinality(DrawnViews(Len(Presets)))
    /\ Shown = PresetsAt(DrawnViews(Len(Presets)))
    /\ answer.image <=> last = "image"
    /\ Len(heard) = Len(Presets) + 2 => heard[Len(Presets) + 1] = "no_image"
=============================================================================
